--------------------------- MODULE ConlesTestsInv ---------------------------
(* What the programs of ConlesTests have in common as far as one sees it     *)
(* without running them; the inductive invariant that connects their         *)
(* threads' instructions with the state of the link, and the one that adds   *)
(* up what the callbacks and the posts have counted.  ConlesTestsProofs and  *)
(* ConlesTestsCounts show that every reachable state of a test satisfies     *)
(* TestInv and CountsInv.                                                    *)
EXTENDS ConlesTests

Asks(i)     == i.do = "sub" /\ i.want = Ok
Drops(i, k) == i.do = "unsub" /\ i.key \in {k, ALL}

\* Where program p has subscribed what it has not unsubscribed when it comes to n.
LiveAt(p, n) ==
    {j \in 1 .. n - 1 : Asks(p[j]) /\ \A m \in j + 1 .. n - 1 : ~Drops(p[m], p[j].key)}

\* Program p of main has started u, and not joined it, when it comes to n.
RunsAt(p, u, n) ==
    \E i \in 1 .. n - 1 :
        /\ p[i].do = "start" /\ u \in p[i].threads
        /\ \A j \in i + 1 .. n - 1 : ~(p[j].do = "join" /\ u \in p[j].threads)

\* The one thread of a test that subscribes and unsubscribes.
Subscriber(c) == IF c = "State_Case02" THEN T1 ELSE main

\* Where main can be while t makes the call that is its instruction i.
Meanwhile(c, t, i) ==
    {n \in DOMAIN Programs[c][main] :
        IF t = main THEN n = i ELSE RunsAt(Programs[c][main], t, n)}

(* A program is a sequence of instructions.                                  *)
AreSequences(c) ==
    \A t \in Client : /\ Len(Programs[c][t]) \in Nat
                      /\ DOMAIN Programs[c][t] = 1 .. Len(Programs[c][t])

(* main starts the other threads, each once; it has joined them where it     *)
(* checks something, which may make it leave, and where it ends.             *)
LedByMain(c) ==
    LET p == Programs[c][main]
    IN  /\ \A t \in Client \ {main} : \A i \in DOMAIN Programs[c][t] :
              Programs[c][t][i].do \in {"sub", "unsub", "post"}
        /\ \A i \in DOMAIN p : p[i].do = "start" => main \notin p[i].threads
        /\ \A i, j \in DOMAIN p : p[i].do = "start" /\ p[j].do = "start" /\ i # j =>
              p[i].threads \cap p[j].threads = {}
        /\ \A u \in Client, i \in DOMAIN p :
              p[i].do \in {"check", "checkAll", "checkMagic"} => ~RunsAt(p, u, i)
        /\ \A u \in Client : ~RunsAt(p, u, Len(p) + 1)

(* The subscriber asks for a subscription while it has none of that key, and *)
(* while there is a slot for it unless it wants to be refused; it            *)
(* unsubscribes after it has subscribed.                                     *)
SubscribesInTurn(c) ==
    \A t \in Client : \A i \in DOMAIN Programs[c][t] :
        LET p == Programs[c][t]
        IN  p[i].do \in {"sub", "unsub"} =>
              /\ t = Subscriber(c)
              /\ Asks(p[i]) =>
                    /\ Cardinality(LiveAt(p, i)) < MaxSuberNum
                    /\ \A j \in LiveAt(p, i) : p[j].key # p[i].key
              /\ p[i].do = "sub" /\ ~Asks(p[i]) =>
                    /\ p[i].want = {"NOT_ENOUGH_RESOURCE"}
                    /\ Cardinality(LiveAt(p, i)) = MaxSuberNum
              /\ p[i].do = "unsub" => p[i].want = Ok /\ \E j \in 1 .. i - 1 : Asks(p[j])

(* A TIMEOUT is wanted of posts that do not block. A post wants SUCCESS      *)
(* alone only where something subscribes its event all the time, and         *)
(* NO_EVT_SUBER alone only where nothing does; and it comes after a          *)
(* subscription. In State_Case02, where main does not subscribe, it wants    *)
(* either of them.                                                           *)
PostsAsWanted(c) ==
    \A t \in Client : \A i \in DOMAIN Programs[c][t] :
        LET p == Programs[c][main]
            call == Programs[c][t][i]
        IN  call.do = "post" =>
              /\ \/ call.opt.wait = "block"
                 \/ call.opt.wait = "nonblock" /\ "TIMEOUT" \in call.want
              /\ IF c = "State_Case02"
                 THEN t # main /\ {"SUCCESS", "NO_EVT_SUBER"} \subseteq call.want
                 ELSE /\ \/ "NO_EVT_SUBER" \in call.want
                         \/ \A n \in Meanwhile(c, t, i) : \E j \in LiveAt(p, n) :
                               call.evt \in p[j].ids /\ ~Drops(p[n], p[j].key)
                      /\ \/ "SUCCESS" \in call.want
                         \/ t = main /\ \A j \in LiveAt(p, i) : call.evt \notin p[j].ids
                      /\ \A n \in Meanwhile(c, t, i) : \E j \in 1 .. n - 1 : Asks(p[j])

(* All posts of a test are SYNC, and no callback replies, or none is.        *)
AllPosts(c, sync) ==
    \A t \in Client : \A i \in DOMAIN Programs[c][t] :
        Programs[c][t][i].do = "post" => Programs[c][t][i].opt.sync = sync

ASSUME ProgramsAssumption ==
    \A c \in Cases :
        /\ AreSequences(c) /\ LedByMain(c) /\ SubscribesInTurn(c) /\ PostsAsWanted(c)
        /\ AllPosts(c, FALSE) \/ (AllPosts(c, TRUE) /\ c # "Typical_Case02")

-----------------------------------------------------------------------------

suber   == Subscriber(case)
live    == LiveAt(Program(suber), step[suber])

(* A thread is before, at or behind an instruction of its program.                   *)
StepInv ==
    /\ case \in Cases
    /\ step \in [Client -> Nat]
    /\ \A t \in Client : step[t] <= Len(Program(t)) + 1

(* A thread is inside the call that is its instruction, and main waits for a *)
(* callback's signal only in condWait.                                       *)
PlaceInv ==
    /\ \A t \in Client : pc[t] # "idle" =>
          /\ step[t] \in DOMAIN Program(t)
          /\ \/ pc[t] = "sub" /\ Instr(t).do = "sub"
             \/ pc[t] \in InUnsub /\ Instr(t).do = "unsub" /\ target[t] = Instr(t).key
             \/ /\ pc[t] \in InCall /\ Instr(t).do = "post"
                /\ EvtOf[evt[t]] = Instr(t).evt /\ opt[t] = Instr(t).opt
    /\ \A s \in Slot : pc[s] # "dead"
    /\ asleep => At(main, "condWait")

(* A thread but main runs while main is between its start and its join.      *)
ThreadsInv ==
    \A u \in Client \ {main} :
        /\ step[u] # 0 => \E i \in 1 .. step[main] - 1 :
              Program(main)[i].do = "start" /\ u \in Program(main)[i].threads
        /\ step[u] \in DOMAIN Program(u) => RunsAt(Program(main), u, step[main])

(* Unless the subscriber is main and has left, the slots hold what it has    *)
(* subscribed and not unsubscribed, each key once, and there is a table once *)
(* it has subscribed; behind the scan of an unsubEVT no slot has its key,    *)
(* where it stops one has.                                                   *)
Subscribed(s, j) ==
    ~IsFree(s) /\ cbProc[s] = Program(suber)[j].key /\ evtIDs[s] = Program(suber)[j].ids
SlotsInv ==
    /\ \A r, s \in Slot : cbProc[r] = cbProc[s] /\ r # s => IsFree(s)
    /\ pc[suber] \in InUnsub /\ target[suber] # ALL =>
          \A s \in Slot : s < idx[suber] => cbProc[s] # target[suber]
    /\ pc[suber] \in {"unsubSignal", "unsubJoin"} => IsTarget(suber, idx[suber])
    /\ suber # main \/ step[suber] # Len(Program(suber)) + 1 =>
          /\ \A s \in Slot : ~IsFree(s) => \E j \in live : Subscribed(s, j)
          /\ \A j \in live :
                \/ \E s \in Slot : Subscribed(s, j)
                \/ pc[suber] \in InUnsub /\ Drops(Instr(suber), Program(suber)[j].key)
          /\ (\E j \in 1 .. step[suber] - 1 : Asks(Program(suber)[j])) => inited

(* What a post has found so far: TIMEOUT only if it does not block, nothing  *)
(* at all if it comes from the subscriber and nothing subscribes its event.  *)
ResultInv ==
    \A t \in Client :
        /\ pc[t] \notin InScan => res[t] = None
        /\ res[t] = "TIMEOUT" => opt[t].wait # "block"
        /\ pc[t] \in InScan /\ t = suber /\ (res[t] # None \/ pc[t] = "syncCb") =>
              \E j \in live : Instr(t).evt \in Program(suber)[j].ids

(* SYNC posts start no async thread; where no post is SYNC, no reply is; and *)
(* only replies are posted by async threads.                                 *)
ModeInv ==
    /\ AllPosts(case, FALSE) \/ \A s \in Slot : pc[s] = "none"
    /\ \A t \in Thread : pc[t] \in InCall =>
          opt[t].wait # "timeout" /\ (AllPosts(case, FALSE) => ~opt[t].sync)
    /\ case # "Typical_Case02" =>
          \A s \in Slot : pc[s] \notin InCall /\ cache[s] = <<>>

TestInv ==
    /\ StepInv /\ PlaceInv /\ ThreadsInv /\ SlotsInv /\ ResultInv /\ ModeInv
    /\ case # "Typical_Case02" => CallsReturnAsAsserted

-----------------------------------------------------------------------------
(* The counts need more of the programs.                                     *)

\* The tests whose counts are not to be relied on: Typical_Case02 looks too early, and
\* Concurrency_Case03 takes a TIMEOUT for a post that reached nobody.
Uncounted == {"Typical_Case02", "Concurrency_Case03"}

Checks(c)   == {i \in DOMAIN Programs[c][main] :
                   Programs[c][main][i].do \in {"check", "checkAll", "checkMagic"}}
\* MagicValue tells of the one event of its test.
Claim(i)    == IF i.do = "checkMagic" THEN check("A", "KEEPALIVE", {}, 1) ELSE i
ClaimAt(c, n) == Claim(Programs[c][main][n])

PostsOf(c, e) ==
    UNION {{t} \X {i \in DOMAIN Programs[c][t] :
              Programs[c][t][i].do = "post" /\ Programs[c][t][i].evt = e} : t \in Client}

\* While t makes the call that is its instruction i, k is subscribed to e; or it is not.
Gets(c, t, i, k, e) ==
    LET p == Programs[c][main]
    IN  \A n \in Meanwhile(c, t, i) : \E j \in LiveAt(p, n) :
           p[j].key = k /\ e \in p[j].ids /\ ~Drops(p[n], k)
GetsNot(c, t, i, k, e) ==
    LET p == Programs[c][main]
    IN  \A n \in Meanwhile(c, t, i) : \A j \in LiveAt(p, n) : p[j].key = k => e \notin p[j].ids

\* The posts claim q is about: those its callback gets, if it counts no other results.
Relevant(c, q) ==
    {x \in PostsOf(c, q.evt) : q.results # {} \/ Gets(c, x[1], x[2], q.key, q.evt)}

HasStarted(p, u, n) == \E j \in 1 .. n - 1 : p[j].do = "start" /\ u \in p[j].threads
MadeBefore(c, q, n) ==
    {x \in Relevant(c, q) :
        IF x[1] = main THEN x[2] < n ELSE HasStarted(Programs[c][main], x[1], n)}

\* main has waited for the callbacks, and only checked since.
HasSettled(p, n) ==
    \E i \in 1 .. n - 1 : p[i].do = "settle" /\ \A j \in i + 1 .. n :
        j \in DOMAIN p /\ p[j].do \in {"check", "checkAll", "checkMagic"}

(* A check is about one callback and one event. If it counts no results of   *)
(* posts, it is about posts that block and that the callback's subscription  *)
(* gets, or does not get, from beginning to end. If it does, it counts the   *)
(* one result but SUCCESS that they want, and no other callback is meant.    *)
CountsOneWay(c, q) ==
    /\ q.do = "check" /\ q.key \in Key /\ q.evt \in EvtID
    /\ IF q.results = {}
       THEN /\ c # "State_Case02"
            /\ \A x \in PostsOf(c, q.evt) :
                  /\ Programs[c][x[1]][x[2]].opt.wait = "block"
                  /\ Gets(c, x[1], x[2], q.key, q.evt) \/ GetsNot(c, x[1], x[2], q.key, q.evt)
       ELSE \E r \in {"TIMEOUT", "NO_EVT_SUBER"} :
            /\ q.results = {r}
            /\ \A x \in PostsOf(c, q.evt) : Programs[c][x[1]][x[2]].want \subseteq {"SUCCESS", r}
            /\ LET p == Programs[c][Subscriber(c)]
               IN  \A j \in DOMAIN p : Asks(p[j]) /\ q.evt \in p[j].ids => p[j].key = q.key

(* When it is made, nothing is on its way to its callback, and it expects    *)
(* the number of posts that have been made. Where a thread subscribes, all   *)
(* is unsubscribed when it has ended.                                        *)
IsChecked(c, n) ==
    LET p == Programs[c][main]
        q == ClaimAt(c, n)
    IN  /\ \/ HasSettled(p, n) /\ p[n].do = "check"
           \/ Subscriber(c) = main /\ \A j \in LiveAt(p, n) : p[j].key # q.key
           \/ Subscriber(c) # main
           \/ ~AllPosts(c, FALSE) /\ p[n].do = "check"
        /\ p[n].do = "checkMagic" => Subscriber(c) = main /\ LiveAt(p, n) = {}
        /\ q.n = Cardinality(MadeBefore(c, q, n))

ASSUME CountsAssumption ==
    \A c \in Cases :
        /\ Subscriber(c) # main =>
              LET p == Programs[c][Subscriber(c)] IN LiveAt(p, Len(p) + 1) = {}
        /\ c \notin Uncounted => \A n \in Checks(c) :
              CountsOneWay(c, ClaimAt(c, n)) /\ IsChecked(c, n)

\* What is queued for slot s, and for the callback k, by its number in the slot.
Backlog(s, e) ==
    {n \in Len(handled[s]) + 1 .. Len(accepted[s]) : EvtOf[accepted[s][n]] = e}
Queued(k, e) == UNION {Backlog(s, e) : s \in {r \in Slot : cbProc[r] = k}}

\* The posts of e under way that have come to k's subscription and found room.
HasReached(t, k) ==
    /\ pc[t] \in InScan
    /\ \E s \in Slot :
          /\ cbProc[s] = k /\ IsMatch(s, evt[t])
          /\ \/ s < idx[t] /\ res[t] = "SUCCESS"
             \/ s = idx[t] /\ pc[t] \in {"signal", "syncCb"}
Reached(k, e) == {t \in Client : HasReached(t, k) /\ EvtOf[evt[t]] = e}

\* The posts that have returned, and how often they returned what claim q counts too.
Returned(q) == {x \in Relevant(case, q) : x[2] < step[x[1]]}
Tallied(q)  == IF q.results = {} THEN 0 ELSE tally[q.evt][CHOOSE r \in q.results : TRUE]

(* A post that is on its way or has returned has been counted by the         *)
(* callback, is queued for it, or has returned a result that is counted.     *)
Balanced(q) ==
    count[q.key][q.evt] + Cardinality(Queued(q.key, q.evt)) + Tallied(q)
        = Cardinality(Returned(q)) + Cardinality(Reached(q.key, q.evt))

CountersType ==
    /\ count \in [Key -> [EvtID -> Nat]]
    /\ tally \in [EvtID -> [{"SUCCESS", "TIMEOUT", "NO_EVT_SUBER", "NOT_FOUND"} -> Nat]]

\* Where a post is about to signal, or in a callback, its event is wanted; there was room
\* for it; and what a post has found, it has found at a slot that wants its event.
Delivers(t) ==
    /\ pc[t] \in {"signal", "syncCb"} => IsMatch(idx[t], evt[t])
    /\ pc[t] = "signal" => res[t] = "SUCCESS"
    /\ pc[t] \in InScan /\ res[t] # None =>
          \E s \in Slot : s <= idx[t] /\ IsMatch(s, evt[t]) /\ (pc[t] = "post" => s < idx[t])
DeliveryInv == \A t \in Client : Delivers(t)

\* Once main has waited for the callbacks, the queues are empty while it checks.
SettledInv == HasSettled(Program(main), step[main]) => \A s \in Slot : IsEmpty(s)

\* While nothing is missed, the threads main has passed the start of have started.
StartedInv ==
    failed = {} => \A u \in Client : HasStarted(Program(main), u, step[main]) => step[u] # 0

BalanceInv ==
    failed = {} => \A q \in {ClaimAt(case, n) : n \in Checks(case)} : Balanced(q)

\* Only a post that came before the first subEVT has ever made a check fail.
FailedInv ==
    /\ failed \subseteq {"NOT_FOUND", "check"}
    /\ "NOT_FOUND" \in failed => case = "State_Case02"
    /\ "check" \in failed => "NOT_FOUND" \in failed

CountsInv ==
    /\ CountersType /\ DeliveryInv
    /\ case \notin Uncounted => SettledInv /\ StartedInv /\ BalanceInv /\ FailedInv

=============================================================================
