----------------------------- MODULE EvtTestsInv -----------------------------
(* What the programs of EvtTests have in common as far as one sees it        *)
(* without running them, and the inductive invariant that connects their     *)
(* threads' instructions with the state of the event manager: which threads  *)
(* have got where, which operators and rows are theirs (TestInv, shown in    *)
(* EvtTestsProofs), and where the events are (EventsInv, shown in            *)
(* EvtTestsEvents).                                                          *)
EXTENDS EvtTests

(* In the following, p are the programs of a test, one for each thread.      *)

Is(p, t, i, do, x) == p[t][i].do = do /\ p[t][i].oper = x
Starts(p, t, i, u) == p[t][i].do = "start" /\ u \in p[t][i].threads
Joins(p, t, i, u)  == p[t][i].do = "join" /\ u \in p[t][i].threads

\* The semaphores a thread gives another; the others are given by the callbacks.
IsHandover(s)   == s[1] # "AllProced"
Gives(p, t, i, s) == p[t][i].do = "semPost" /\ p[t][i].sem = s
Takes(p, t, i)  == p[t][i].do = "semWait" /\ IsHandover(p[t][i].sem)

AreSequences(p) ==
    \A t \in Client : Len(p[t]) \in Nat /\ DOMAIN p[t] = 1 .. Len(p[t])

(* main alone inits the manager, with its first instruction, and enables and *)
(* disables it once.                                                         *)
Where(p, do) == CHOOSE i \in DOMAIN p["main"] : p["main"][i].do = do
EnabledAt(p)  == Where(p, "enable")
DisabledAt(p) == Where(p, "disable")
RunByMain(p) ==
    /\ 1 \in DOMAIN p["main"] /\ p["main"][1].do = "init"
    /\ EnabledAt(p) \in DOMAIN p["main"] /\ DisabledAt(p) \in DOMAIN p["main"]
    /\ EnabledAt(p) < DisabledAt(p)
    /\ \A t \in Client : \A i \in DOMAIN p[t] :
          /\ p[t][i].do = "init" => t = "main" /\ i = 1
          /\ p[t][i].do = "enable" <=> t = "main" /\ i = EnabledAt(p)
          /\ p[t][i].do = "disable" <=> t = "main" /\ i = DisabledAt(p)

(* A thread is started once, and joined by who has started it, which is main *)
(* or a thread that main has started.                                        *)
LedByMain(p) ==
    \A t, u \in Client : \A i \in DOMAIN p[t] : Starts(p, t, i, u) =>
        /\ u # "main"
        /\ \A s \in Client : \A j \in DOMAIN p[s] : Starts(p, s, j, u) => s = t /\ j = i
        /\ \E j \in DOMAIN p[t] : Joins(p, t, j, u)
        /\ t = "main" \/ \A s \in Client : \A j \in DOMAIN p[s] :
              Starts(p, s, j, t) => s = "main"

(* Once t has come to n, main has passed its instruction k: t is main, or    *)
(* has taken a semaphore main gives afterwards.                              *)
Follows(p, t, n, k) ==
    \/ t = "main" /\ k < n
    \/ \E i \in 1 .. n - 1 : Takes(p, t, i) /\
          \A u \in Client : \A j \in DOMAIN p[u] :
              Gives(p, u, j, p[t][i].sem) => u = "main" /\ k <= j

(* Before t has got past n, main has not passed k: t is main, or main has to *)
(* join t first, or to take a semaphore t gives later.                       *)
Precedes(p, t, n, k) ==
    \/ t = "main" /\ n <= k
    \/ \E i \in 1 .. k - 1 : Joins(p, "main", i, t)
    \/ \E i \in 1 .. k - 1 : Takes(p, "main", i) /\
          \A u \in Client : \A j \in DOMAIN p[u] :
              Gives(p, u, j, p["main"][i].sem) => u = t /\ n <= j

(* main has enabled the manager when t comes to n, or the thread that starts *)
(* t to where it does so; and it does not disable it before t has passed n,  *)
(* or a thread has joined t.                                                 *)
IsEnabled(p, t, n) ==
    \/ Follows(p, t, n, EnabledAt(p))
    \/ t # "main" /\ \A u \in Client : \A i \in DOMAIN p[u] :
          Starts(p, u, i, t) => Follows(p, u, i, EnabledAt(p))
IsNotDisabled(p, t, n) ==
    \/ Precedes(p, t, n, DisabledAt(p))
    \/ \E u \in Client : \E i \in DOMAIN p[u] :
          Joins(p, u, i, t) /\ Precedes(p, u, i, DisabledAt(p))

PostsWhileRunning(p) ==
    \A t \in Client : \A i \in DOMAIN p[t] : p[t][i].do = "post" =>
        IsEnabled(p, t, i) /\ IsNotDisabled(p, t, i)

(* What is done with an operator is done once, by one thread: it registers   *)
(* first, takes back what it has published and subscribed, and unregisters   *)
(* last.                                                                     *)
OperCalls == {"reg", "pub", "sub", "unpub", "unsub", "unreg"}
UndoneBy == [reg |-> "unreg", pub |-> "unpub", sub |-> "unsub"]
TidyWithOpers(p) ==
    \A t \in Client : \A i \in DOMAIN p[t] : p[t][i].do \in OperCalls =>
        LET x == p[t][i].oper
            do == p[t][i].do
        IN  /\ x \in Oper
            /\ \A u \in Client : \A j \in DOMAIN p[u] :
                  p[u][j].do \in OperCalls /\ p[u][j].oper = x =>
                     /\ u = t
                     /\ p[u][j].do = do => j = i
                     /\ do = "reg" => i <= j
                     /\ do = "unreg" => j <= i
            /\ \E j \in DOMAIN p[t] : Is(p, t, j, "reg", x)
            /\ do \in DOMAIN UndoneBy => \E j \in DOMAIN p[t] :
                  i < j /\ Is(p, t, j, UndoneBy[do], x)
            /\ \A d \in DOMAIN UndoneBy : do = UndoneBy[d] => \E j \in DOMAIN p[t] :
                  j < i /\ Is(p, t, j, d, x)

(* The tables are large enough for a test.                                   *)
Does(p, do) == {x \in Oper : \E t \in Client : \E i \in DOMAIN p[t] : Is(p, t, i, do, x)}
FitsInTables(p) ==
    /\ Cardinality(Does(p, "reg")) <= RegMax
    /\ Cardinality(Does(p, "pub")) <= PubMax
    /\ Cardinality(Does(p, "sub")) <= SubMax

ASSUME ProgramsAssumption ==
    /\ IsFiniteSet(Msg)
    /\ \A c \in Cases : \A os \in ObjsOf(c) :
          LET p == Programs[os][c]
          IN  /\ AreSequences(p) /\ RunByMain(p) /\ LedByMain(p)
              /\ PostsWhileRunning(p) /\ TidyWithOpers(p) /\ FitsInTables(p)

-----------------------------------------------------------------------------

(* In the following, st is how far the threads have come: a thread is at     *)
(* instruction st[t] of its program, or not started yet, or over.            *)

Passed(st, t)  == 1 .. st[t] - 1
IsPast(p, st, t) == st[t] = Len(p[t]) + 1
Done(p, st, do, x) == \E t \in Client : \E i \in Passed(st, t) : Is(p, t, i, do, x)
Given(p, st, s) == \E t \in Client : \E i \in Passed(st, t) : Gives(p, t, i, s)

InPrograms(p, st) ==
    st \in [Client -> Nat] /\ \A t \in Client : st[t] <= Len(p[t]) + 1

(* A thread that runs was started, one that was joined is over, and a        *)
(* semaphore that was taken was given.                                       *)
InStep(p, st) ==
    /\ \A u \in Client \ {"main"} : st[u] # 0 =>
          \E t \in Client : \E i \in Passed(st, t) : Starts(p, t, i, u)
    /\ \A t, u \in Client : \A i \in Passed(st, t) : Joins(p, t, i, u) => IsPast(p, st, u)
    /\ \A t \in Client : \A i \in Passed(st, t) :
          Takes(p, t, i) => Given(p, st, p[t][i].sem)

\* The operators for which do is done and not yet undone.
Held(p, st, do) == {x \in Oper : Done(p, st, do, x) /\ ~Done(p, st, UndoneBy[do], x)}
Here(p, st)   == Held(p, st, "reg")
Pubers(p, st) == Held(p, st, "pub")
Subers(p, st) == Held(p, st, "sub")

-----------------------------------------------------------------------------

prog   == Programs[objs][case]
events == EventsOf[objs][case]

(* The threads are where their programs lead them.                           *)
StepInv ==
    /\ case \in Cases /\ objs \in ObjsOf(case)
    /\ InPrograms(prog, step)
ThreadsInv ==
    /\ InStep(prog, step)
    /\ \A s \in DOMAIN sem : IsHandover(s) => Given(prog, step, s)

(* A thread is inside the call that is its instruction, with its operator;   *)
(* and it posts to the queue there is, and signals that.                     *)
CallInv ==
    /\ \A t \in Client : pc[t] # "idle" =>
          /\ step[t] \in DOMAIN prog[t]
          /\ \/ pc[t] = "reg" /\ Instr(t).do = "reg"
             \/ pc[t] \in {"pub", "pubStore"} /\ Instr(t).do = "pub" /\ oper[t] = ID(t)
             \/ pc[t] \in {"sub", "unsub"} /\ Instr(t).do = pc[t] /\ oper[t] = ID(t)
             \/ pc[t] = "disable" /\ Instr(t).do = "disable"
             \/ pc[t] \in {"post", "signal"} /\ Instr(t).do = "post"
    /\ pc[EvtProcer] # "dead"
    /\ \A t \in Thread : pc[t] \in {"post", "signal"} => pQueue[t] = procQueue

(* The manager has its tables once main has passed its first instruction,    *)
(* and nobody else runs earlier; it has its queue while main is between      *)
(* enable and disable.                                                       *)
RunsInv ==
    /\ haveTables <=> step["main"] > 1
    /\ \A u \in Client : step[u] # 0 => u = "main" \/ step["main"] > 1
    /\ procQueue # None <=> EnabledAt(prog) < step["main"] /\ step["main"] <= DisabledAt(prog)

(* The events are those of the test, and a thread posts its own, once.       *)
PosterInv ==
    /\ unposted \subseteq events
    /\ \A t \in Thread : pc[t] = "post" =>
          evt[t] \in events \ unposted /\ PostedBy[evt[t]] = t

(* The operators between their reg and their unreg are registered, each with *)
(* an ID of its own, and no others are.                                      *)
OperInv ==
    /\ operID \in [Oper -> OperID \cup {None}]
    /\ \A x \in Here(prog, step) : operID[x] \in opers
    /\ \A x, y \in Here(prog, step) : operID[x] = operID[y] => x = y
    /\ \A o \in opers : \E x \in Here(prog, step) : operID[x] = o

(* A row belongs to an operator between its pub and its unpub, or its sub    *)
(* and its unsub, and none has two; the cell behind the PubTable is free.    *)
PubInv ==
    /\ \A r \in PubRow : pubTable[r] # None =>
          r # PubMax /\ \E x \in Pubers(prog, step) : pubTable[r] = operID[x]
    /\ \A q, r \in PubRow : pubTable[q] # None /\ pubTable[q] = pubTable[r] => q = r
    /\ \A t \in Client : pc[t] = "pubStore" => pubRow[t] # PubMax
SubInv ==
    /\ \A r \in SubRow : subTable[r] # None =>
          \E x \in Subers(prog, step) : subTable[r].suber = operID[x]
    /\ \A q, r \in SubRow :
          subTable[q] # None /\ subTable[r] # None /\ subTable[q].suber = subTable[r].suber
             => q = r

TestInv ==
    /\ StepInv /\ ThreadsInv /\ CallInv /\ RunsInv /\ PosterInv /\ OperInv
    /\ PubInv /\ SubInv

-----------------------------------------------------------------------------
(* The accounting of events needs more of the programs.                      *)

(* Operators are registered, and subscribe, before main enables the manager, *)
(* and none of that is undone before main has disabled it.                   *)
SetUpFirst(p) ==
    \A t \in Client : \A i \in DOMAIN p[t] :
        /\ p[t][i].do \in {"reg", "sub"} => Precedes(p, t, i, EnabledAt(p))
        /\ p[t][i].do \in {"unsub", "unreg"} => Follows(p, t, i, DisabledAt(p))

(* A subscription matches the events it names and no others, and names each  *)
(* once.                                                                     *)
NamesEvents(p, es) ==
    \A t \in Client : \A i \in DOMAIN p[t] : p[t][i].do = "sub" =>
        LET ids == p[t][i].ids
        IN  /\ \A k, l \in DOMAIN ids : ids[k] = ids[l] => k = l
            /\ \A k \in DOMAIN ids : \A m \in es :
                  IsMatch(ids[k], EvtOf[m]) <=> ids[k] = EvtOf[m]

(* The callbacks alone tell that they have got all their events. It is       *)
(* waited for before they are counted, and for every event by somebody       *)
(* before main disables the manager.                                         *)
WaitsFor(p, t, i, x) == p[t][i].do = "semWait" /\ p[t][i].sem = <<"AllProced", x>>
AwaitsEvents(p, es) ==
    /\ \A t \in Client : \A i \in DOMAIN p[t] :
          /\ p[t][i].do = "semPost" => IsHandover(p[t][i].sem)
          /\ p[t][i].do = "expect" =>
                /\ p[t][i].oper \in Oper /\ Precedes(p, t, i, DisabledAt(p))
                /\ \E j \in 1 .. i - 1 : WaitsFor(p, t, j, p[t][i].oper)
    /\ \A m \in es : \E x \in Oper : \E t, u \in Client :
          /\ \E i \in DOMAIN p[t] : Is(p, t, i, "sub", x) /\ EvtOf[m] \in ToSet(p[t][i].ids)
          /\ \E j \in DOMAIN p[u] : WaitsFor(p, u, j, x) /\ Precedes(p, u, j, DisabledAt(p))

(* Where the callbacks look at SeqIDs, the test has one kind of event; where *)
(* they look at the data, one thread posts the kind.                         *)
TellOrder(c, es) ==
    /\ c \in {"Case01", "CaseC01"} => \A m, n \in es : EvtOf[m] = EvtOf[n]
    /\ c = "Case02" => \A m, n \in es : EvtOf[m] = MSGDATA /\ EvtOf[n] = MSGDATA =>
          PostedBy[m] = PostedBy[n] /\ PostedBy[m] \in Client

(* At most one of the callbacks answers an event.                            *)
OneAnswers(c) ==
    \A e \in EvtID : \A x, y \in Oper :
        Reply(c, x, e) # None /\ Reply(c, y, e) # None => x = y

ASSUME EventsAssumption ==
    \A c \in Cases : \A os \in ObjsOf(c) :
        LET p  == Programs[os][c]
            es == EventsOf[os][c]
        IN  /\ SetUpFirst(p) /\ NamesEvents(p, es) /\ AwaitsEvents(p, es)
            /\ TellOrder(c, es) /\ OneAnswers(c)

(* Where the events are: about to enter the queue, in it from the k-th place *)
(* on or not even there, and in the hands of the EvtProcer.                  *)
Posting   == {evt[t] : t \in {u \in Thread : pc[u] = "post"}}
Entering  == unposted \cup Posting
Behind(k) == Entering \cup {InQueue[i] : i \in k .. Len(InQueue)}
Waiting   == Behind(1)
Taken     == IF HoldsEvent THEN {buf[cur].msg} ELSE {}

IsUp == step["main"] <= DisabledAt(prog)

(* Until main enables the manager, nothing has happened to any event.        *)
BeforeInv ==
    step["main"] <= EnabledAt(prog) =>
        /\ unposted = events /\ num = 0 /\ pc[EvtProcer] = "none"
        /\ \A x \in Oper, e \in EvtID : count[<<x, e>>] = 0

(* No event is at two places, and the SeqID counts those that have entered.  *)
PlacesInv ==
    /\ Waiting \cup Taken \subseteq events
    /\ \A i \in 1 .. Len(InQueue) : InQueue[i] \notin Behind(i + 1)
    /\ Taken \cap Waiting = {}
    /\ Cardinality(Waiting) = num + Cardinality(Entering)
    /\ procQueue # None => seqID + Cardinality(Entering) = Cardinality(events)

(* A thread's events go from place to place in the order of their numbers:   *)
(* if one has not got further, a later one has not either.                   *)
Late(es) ==
    \A m \in es, n \in events :
        PostedBy[m] = PostedBy[n] /\ PostedBy[m] \in Client /\ m <= n => n \in es
LateInv ==
    /\ Late(unposted)
    /\ \A k \in 1 .. Len(InQueue) + 1 : Late(Behind(k))
    /\ Late(Waiting \cup Taken)

(* Until main has disabled the manager, every operator that was registered   *)
(* still is, and the rows are those of the subscriptions.                    *)
RowFor(x, i) == [suber |-> operID[x], ids |-> i.ids]
TableInv ==
    IsUp =>
        /\ \A x \in Oper : operID[x] # None => x \in Here(prog, step)
        /\ \A r \in SubRow : subTable[r] # None =>
              \E t \in Client, x \in Here(prog, step) : \E i \in DOMAIN prog[t] :
                  Is(prog, t, i, "sub", x) /\ subTable[r] = RowFor(x, prog[t][i])

(* The EvtProcer has still to call the callback of row r for the event it    *)
(* holds, if this matches the k-th EvtID of the row.                         *)
NotYetCalled(r, k) ==
    \/ pc[EvtProcer] = "lock"
    \/ row < r
    \/ row = r /\ (nth < k - 1 \/ (nth = k - 1 /\ pc[EvtProcer] = "scan"))

(* The callback of row r, for the k-th EvtID of the row, has still to answer *)
(* the event the EvtProcer holds.                                            *)
SuberOf(r) == CHOOSE x \in Oper : operID[x] = subTable[r].suber
Answers(r, k) ==
    subTable[r].ids[k] = Current /\ Reply(case, SuberOf(r), Current) # None
ToAnswer(r, k) ==
    \/ NotYetCalled(r, k)
    \/ /\ row = r /\ nth = k - 1
       /\ pc[EvtProcer] = "post" \/ (pc[EvtProcer] = "cb" /\ ~replied)
AnswerDue ==
    /\ HoldsEvent
    /\ \E r \in {q \in SubRow : subTable[q] # None} : \E k \in DOMAIN subTable[r].ids :
          Answers(r, k) /\ ToAnswer(r, k)

(* The threads leave one place of the queue free, and only the answer to the *)
(* event in the hands of the EvtProcer takes it.                             *)
LoadInv ==
    /\ OnTheWay <= Depth
    /\ AnswerDue \/ ~HoldsEvent => OnTheWay < Depth
    /\ InCallback => subTable[row].ids[nth + 1] = Current
    /\ pc[EvtProcer] \in {"post", "signal"} => replied
    /\ pc[EvtProcer] = "post" => Reply(case, TheSuber, Current) # None

(* What a callback has not counted of an event it has subscribed, is on its  *)
(* way.                                                                      *)
LeftFor(r, k) ==
    {m \in Waiting \cup (IF NotYetCalled(r, k) THEN Taken ELSE {}) :
        EvtOf[m] = subTable[r].ids[k]}
Accounted(x, r, k) ==
    LET e == subTable[r].ids[k]
    IN  count[<<x, e>>] + Cardinality(LeftFor(r, k)) = Total(e)
CountInv ==
    /\ count \in [Oper \X EvtID -> Nat]
    /\ IsUp => \A x \in Oper : \A r \in RowsOf(operID[x]) : \A k \in DOMAIN subTable[r].ids :
          Accounted(x, r, k)

(* Who was told that a callback has got all its events, can rely on it.      *)
Told(x) ==
    \/ <<"AllProced", x>> \in DOMAIN sem
    \/ \E t \in Client : \E i \in Passed(step, t) : WaitsFor(prog, t, i, x)
ToldInv ==
    IsUp => \A x \in Oper :
        Told(x) => procQueue # None /\ RowsOf(operID[x]) # {} /\ GotAll(x)

EventsInv ==
    /\ BeforeInv /\ PlacesInv /\ LateInv /\ TableInv /\ LoadInv /\ CountInv /\ ToldInv
    /\ CallsReturnAsAsserted /\ EventsAsAsserted

=============================================================================
