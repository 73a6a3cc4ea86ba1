---------------------------- MODULE EvtTestsEvents ----------------------------
(* The accounting of events in the tests of the manager: EventsInv is shown  *)
(* to be inductive with TestInv.  While the manager runs, the tables stand   *)
(* still; an event is at one place, on its way into the queue, in it, or in  *)
(* the hands of the EvtProcer; and what a callback has not counted of an     *)
(* event it has subscribed is at one of these.  Hence every callback gets    *)
(* each of its events once, in the order in which a thread has posted them,  *)
(* and disable discards none.  And the threads leave one place of the queue  *)
(* free, which the answers to the event in the hands of the EvtProcer never  *)
(* need twice: so no post is refused, and every call returns as asserted.    *)
EXTENDS EvtTestsProofs

USE DEF vars, mgrVars, psVars, ringVars, scanVars, callVars, testVars

-----------------------------------------------------------------------------
(* The programs, and where main is while they run.                           *)

LEMMA EventsOfTest ==
    ASSUME StepInv
    PROVE  /\ SetUpFirst(prog) /\ NamesEvents(prog, events) /\ AwaitsEvents(prog, events)
           /\ TellOrder(case, events) /\ OneAnswers(case)
           /\ events \subseteq Msg /\ IsFiniteSet(events) /\ Cardinality(events) \in Nat
<1>1. events \subseteq Msg
  BY DEF StepInv, events, EventsOf, Programs, ObjsOf
<1>2. IsFiniteSet(Msg)
  BY ProgramsAssumption DEF StepInv
<1>3. IsFiniteSet(events) /\ Cardinality(events) \in Nat
  BY <1>1, <1>2, FS_Subset, FS_CardinalityType
<1>4. /\ SetUpFirst(prog) /\ NamesEvents(prog, events) /\ AwaitsEvents(prog, events)
      /\ TellOrder(case, events) /\ OneAnswers(case)
  BY EventsAssumption DEF StepInv, prog, events
<1> QED
  BY <1>1, <1>3, <1>4

(* main is before its enable, between enable and disable, or past disable.   *)
LEMMA MainIsAt ==
    ASSUME TestInv
    PROVE  /\ step["main"] \in Nat /\ EnabledAt(prog) \in Nat /\ DisabledAt(prog) \in Nat
           /\ 1 < EnabledAt(prog) /\ EnabledAt(prog) < DisabledAt(prog)
           /\ procQueue # None <=> EnabledAt(prog) < step["main"] /\ IsUp
BY MainsPlaces, TestPrograms DEF TestInv, RunsInv, IsUp, InPrograms

(* What a thread may do depends on where main is.                            *)
LEMMA InSetUp ==
    ASSUME TestInv, NEW t \in Client, step[t] \in DOMAIN prog[t]
    PROVE  /\ Instr(t).do \in {"reg", "sub"} => step["main"] <= EnabledAt(prog)
           /\ Instr(t).do \in {"unsub", "unreg"} => ~IsUp
           /\ Instr(t).do = "expect" => IsUp
<1>1. /\ AreSequences(prog) /\ RunByMain(prog) /\ InPrograms(prog, step) /\ InStep(prog, step)
      /\ SetUpFirst(prog) /\ AwaitsEvents(prog, events) /\ Instr(t) = prog[t][step[t]]
  BY TestPrograms, EventsOfTest, TheInstr DEF TestInv, ThreadsInv
<1>2. /\ step[t] \in Nat /\ ~IsPast(prog, step, t)
      /\ EnabledAt(prog) \in DOMAIN prog["main"] /\ DisabledAt(prog) \in DOMAIN prog["main"]
      /\ DisabledAt(prog) \in Nat /\ step["main"] \in Nat
  BY <1>1, MainsPlaces DEF InPrograms, AreSequences, IsPast
<1>3. ASSUME Instr(t).do \in {"reg", "sub"} PROVE step["main"] <= EnabledAt(prog)
  <2>1. Precedes(prog, t, step[t], EnabledAt(prog))
    BY <1>1, <1>3 DEF SetUpFirst
  <2> QED
    BY <1>1, <1>2, <2>1, ComesBefore
<1>4. ASSUME Instr(t).do \in {"unsub", "unreg"} PROVE ~IsUp
  <2>1. Follows(prog, t, step[t], DisabledAt(prog))
    BY <1>1, <1>4 DEF SetUpFirst
  <2>2. DisabledAt(prog) < step["main"]
    BY <1>1, <1>2, <2>1, ComesAfter
  <2> QED
    BY <1>2, <2>2 DEF IsUp
<1>5. ASSUME Instr(t).do = "expect" PROVE IsUp
  <2>1. Precedes(prog, t, step[t], DisabledAt(prog))
    BY <1>1, <1>5 DEF AwaitsEvents
  <2> QED
    BY <1>1, <1>2, <2>1, ComesBefore DEF IsUp
<1> QED
  BY <1>3, <1>4, <1>5

(* main only goes on: what is up was up before, and what was enabled stays   *)
(* so.                                                                       *)
LEMMA UpBefore ==
    ASSUME TestInv, TestNext
    PROVE  /\ IsUp' => IsUp
           /\ step'["main"] <= EnabledAt(prog') => step["main"] <= EnabledAt(prog)
           /\ step'["main"] \in Nat
<1>1. /\ StepInv /\ prog' = prog /\ step["main"] \in Nat /\ DisabledAt(prog) \in Nat
      /\ EnabledAt(prog) \in Nat
  BY MainIsAt, SameTest DEF TestInv
<1>2. step'["main"] \in Nat /\ step["main"] <= step'["main"]
  BY <1>1, OneAdvances, MainAdvances
<1> QED
  BY <1>1, <1>2 DEF IsUp

-----------------------------------------------------------------------------
(* While the manager runs, its tables stand still.                           *)

LEMMA TablesStand ==
    ASSUME IInv, TestInv, TestNext, procQueue # None
    PROVE  UNCHANGED <<subTable, opers, operID>>
<1>1. IsUp /\ ~(step["main"] <= EnabledAt(prog))
  BY MainIsAt
<1>2. ASSUME NEW t \in Client, Advances(prog, step, step', t)
      PROVE  Instr(t).do \notin {"reg", "sub", "unsub", "unreg"}
  BY <1>1, <1>2, InSetUp DEF Advances
<1>3. UNCHANGED subTable
  BY <1>2, SubTableSteps
<1>4. UNCHANGED <<opers, operID>>
  BY <1>2, OperSteps
<1> QED
  BY <1>3, <1>4

(* Who subscribes, fills the row with the EvtIDs its instruction names.      *)
LEMMA RowAsAsked ==
    ASSUME IInv, TestInv, TestNext, NEW t \in Client, doSubEvts(t)
    PROVE  SubsAsked(t)
<1>1. /\ pc \in [Thread -> ClientPc \cup ProcPc] /\ t \in Thread /\ CallInv
  BY Types DEF PcType, Thread, TestInv
<1>2. pc[t] = "sub" /\ pc'[t] = "idle"
  BY <1>1 DEF doSubEvts, SubReturn, Goto
<1>3. Calls_EVT(t)
  BY <1>2, OwnCalls
<1>4. PLT_EVT(t) /\ Instr(t).do = "sub"
  BY <1>1, <1>2, <1>3 DEF Calls_EVT, Call, CallInv
<1> QED
  BY <1>2, <1>4 DEF PLT_EVT, At, SubCheck, IsIdle

LEMMA TableInvNext ==
    ASSUME IInv, TestInv, TableInv, TestNext
    PROVE  TableInv'
<1> SUFFICES ASSUME IsUp' PROVE TableInv'
  BY DEF TableInv
<1>1. /\ IsUp /\ StepInv /\ CallInv /\ AreSequences(prog) /\ TidyWithOpers(prog)
      /\ InPrograms(prog, step) /\ prog' = prog
      /\ operID \in [Oper -> OperID \cup {None}]
      /\ subTable \in [SubRow -> Subscription \cup {None}] /\ None \notin Subscription
  BY UpBefore, TestPrograms, SameTest, Types, EvtMangerAssumption DEF TestInv, OperInv, PSType
<1> DEFINE H  == Here(prog, step)
           H2 == Here(prog, step')
<1>2. ASSUME NEW t \in Client, Advances(prog, step, step', t)
      PROVE  Instr(t).do # "unsub" /\ Instr(t).do # "unreg"
  BY <1>1, <1>2, InSetUp DEF Advances
<1>3. UndoneBy["reg"] = "unreg" /\ "reg" \in DOMAIN UndoneBy
  BY UndoneByIs
<1>4. ASSUME NEW t \in Client, Advances(prog, step, step', t), Instr(t).do = "reg"
      PROVE  H2 = H \cup {Instr(t).oper}
  <2>1. step[t] \in DOMAIN prog[t] /\ Instr(t) = prog[t][step[t]]
    BY <1>4, TheInstr DEF Advances
  <2>2. LET x == prog[t][step[t]].oper
        IN  CASE prog[t][step[t]].do = "reg" ->
                   x \notin Held(prog, step, "reg")
                   /\ Held(prog, step', "reg") = Held(prog, step, "reg") \cup {x}
              [] prog[t][step[t]].do = UndoneBy["reg"] ->
                   x \in Held(prog, step, "reg")
                   /\ Held(prog, step', "reg") = Held(prog, step, "reg") \ {x}
              [] OTHER -> Held(prog, step', "reg") = Held(prog, step, "reg")
    BY <1>1, <1>3, <1>4, HeldNext
  <2> QED
    BY <1>3, <1>4, <2>1, <2>2 DEF Here
<1>5. ASSUME \/ UNCHANGED step
             \/ \E t \in Client : Advances(prog, step, step', t) /\ Instr(t).do # "reg"
      PROVE  H2 = H
  BY <1>1, <1>2, <1>3, <1>5, HeldSame DEF Here
<1>6. H \subseteq H2 /\ \A x \in H : operID'[x] = operID[x]
  BY <1>4, <1>5, OneAdvances, KeepsID
<1>7. /\ \A x \in Oper : operID[x] # None => x \in H
      /\ \A r \in SubRow : subTable[r] # None =>
            \E t \in Client, x \in H : \E i \in DOMAIN prog[t] :
                Is(prog, t, i, "sub", x) /\ subTable[r] = [suber |-> operID[x], ids |-> prog[t][i].ids]
  BY <1>1 DEF TableInv, RowFor
<1>8. SUFFICES
        /\ \A x \in Oper : operID'[x] # None => x \in H2
        /\ \A r \in SubRow : subTable'[r] # None =>
              \E t \in Client, x \in H2 : \E i \in DOMAIN prog[t] :
                  Is(prog, t, i, "sub", x)
                  /\ subTable'[r] = [suber |-> operID'[x], ids |-> prog[t][i].ids]
  BY <1>1 DEF TableInv, RowFor
<1> HIDE DEF H, H2
<1>9. ASSUME NEW x \in Oper, operID'[x] # None PROVE x \in H2
  <2>1. CASE UNCHANGED operID
    BY <1>6, <1>7, <1>9, <2>1
  <2>2. ASSUME NEW t \in Client, Advances(prog, step, step', t), Instr(t).do = "reg",
               doRegOper(t), opers' # opers => operID' =
                  [operID EXCEPT ![Instr(t).oper] = CHOOSE o \in opers' : o \notin opers]
        PROVE  x \in H2
    <3>1. opers' # opers
      <4>1. FreeOperIDs # {}
        BY <2>2, RegFits DEF Advances
      <4> QED
        BY <2>2, <4>1 DEF doRegOper, IsFirst, FreeOperIDs
    <3>2. x # Instr(t).oper => operID'[x] = operID[x]
      BY <1>1, <2>2, <3>1
    <3> QED
      BY <1>4, <1>6, <1>7, <1>9, <2>2, <3>2
  <2> QED
    BY <2>1, <2>2, OperSteps
<1>10. ASSUME NEW r \in SubRow, subTable'[r] # None, subTable'[r] = subTable[r]
       PROVE  \E t \in Client, x \in H2 : \E i \in DOMAIN prog[t] :
                  Is(prog, t, i, "sub", x)
                  /\ subTable'[r] = [suber |-> operID'[x], ids |-> prog[t][i].ids]
  BY <1>6, <1>7, <1>10
<1>11. ASSUME NEW t \in Client, Advances(prog, step, step', t), Instr(t).do = "sub",
              doSubEvts(t), NEW r \in SubRow, subTable'[r] # subTable[r]
       PROVE  \E x \in H2 : \E i \in DOMAIN prog[t] :
                  Is(prog, t, i, "sub", x)
                  /\ subTable'[r] = [suber |-> operID'[x], ids |-> prog[t][i].ids]
  <2>1. /\ step[t] \in DOMAIN prog[t] /\ Instr(t) = prog[t][step[t]]
        /\ Is(prog, t, step[t], "sub", Instr(t).oper)
    BY <1>11, TheInstr DEF Advances, Is
  <2>2. Instr(t).oper \in H
    BY <1>1, <2>1, UndoneByIs, WithOperHere DEF H
  <2>3. subTable'[r] = [suber |-> operID[Instr(t).oper], ids |-> Instr(t).ids]
    BY <1>11, RowAsAsked DEF SubsAsked, ID
  <2> QED
    BY <1>6, <2>1, <2>2, <2>3
<1> QED
  BY <1>2, <1>9, <1>10, <1>11, SubTableSteps

-----------------------------------------------------------------------------
(* The moves of events.                                                      *)

(* There is room in the queue for every post, and one place more when it     *)
(* comes while the EvtProcer holds an event.                                 *)
LEMMA FewPosters ==
    /\ IsFiniteSet(Posters) /\ Cardinality(Posters) \in Nat
    /\ \A t \in Posters : 1 <= Cardinality(Posters)
<1>1. IsFiniteSet(Client)
  <2>1. Client = {"main"} \cup {"A"} \cup {"B"} \cup {"C"} \cup {"D"} \cup {"E"}
                    \cup {"X1"} \cup {"X2"} \cup {"X3"} \cup {"X4"}
    BY TestAssumption
  <2> QED
    BY <2>1, FS_Singleton, FS_Union
<1>2. IsFiniteSet(Posters) /\ Cardinality(Posters) \in Nat
  <2>1. Posters \subseteq Client
    BY DEF Posters
  <2> QED
    BY <1>1, <2>1, FS_Subset, FS_CardinalityType
<1>3. ASSUME NEW t \in Posters PROVE 1 <= Cardinality(Posters)
  <2>1. Cardinality(Posters) # 0
    BY <1>2, <1>3, FS_EmptySet
  <2> QED
    BY <1>2, <2>1
<1> QED
  BY <1>2, <1>3

LEMMA RoomWhenTaken ==
    ASSUME IInv, LoadInv, HoldsEvent
    PROVE  num < Depth
BY FewPosters, Types, EvtMangerAssumption DEF LoadInv, OnTheWay, RingType

LEMMA EvtProcerAnswers ==
    ASSUME IInv, LoadInv, pc[EvtProcer] = "post"
    PROVE  AnswerDue /\ HoldsEvent
<1>1. PSType /\ ScanType /\ SubArgs \subseteq Seq(EvtID) /\ None \notin Subscription
  BY Types, EvtMangerAssumption
<1>2. HoldsEvent /\ InCallback
  BY DEF HoldsEvent, InCallback
<1>3. /\ row \in SubRow /\ subTable[row] # None /\ nth < Len(subTable[row].ids)
      /\ subTable[row].ids \in Seq(EvtID) /\ nth \in Nat
  BY <1>1, <1>2 DEF IInv, CallbackInv, PSType, ScanType, Subscription
<1>4. nth + 1 \in DOMAIN subTable[row].ids /\ (nth + 1) - 1 = nth
  BY <1>3
<1>5. TheSuber = SuberOf(row)
  BY DEF TheSuber, SuberOf
<1>6. Answers(row, nth + 1) /\ ToAnswer(row, nth + 1)
  BY <1>2, <1>4, <1>5 DEF LoadInv, Answers, ToAnswer
<1> QED
  BY <1>2, <1>3, <1>4, <1>6 DEF AnswerDue

LEMMA RoomAtPost ==
    ASSUME IInv, LoadInv, NEW t \in Thread, pc[t] = "post"
    PROVE  num < Depth /\ (HoldsEvent => num + 1 < Depth)
<1>1. num \in Nat /\ Depth \in Nat /\ OnTheWay <= Depth
  BY Types, EvtMangerAssumption DEF RingType, LoadInv
<1>2. CASE t \in Client
  <2>1. t \in Posters
    BY <1>2 DEF Posters
  <2> QED
    BY <1>1, <2>1, FewPosters DEF OnTheWay
<1>3. CASE t = EvtProcer
  BY <1>1, <1>3, EvtProcerAnswers, FewPosters DEF LoadInv, OnTheWay
<1> QED
  BY <1>2, <1>3 DEF Thread

LEMMA NoFullPost ==
    ASSUME IInv, LoadInv, NEW t \in Thread
    PROVE  ~PostFull(t)
<1>1. num \in Nat /\ Depth \in Nat
  BY Types, EvtMangerAssumption DEF RingType
<1> QED
  BY <1>1, RoomAtPost DEF PostFull, AtQueue, IsFull

(* A thread that is about to post does so until its event is in the queue.   *)
LEMMA PostsUntil ==
    ASSUME IInv, TestInv, LoadInv, [Next]_vars, NEW u \in Thread, pc[u] = "post"
    PROVE  PostEnqueue(u) \/ (pc'[u] = "post" /\ evt'[u] = evt[u])
<1>1. /\ PcType /\ PlaceInv /\ CallType /\ EvtProcer \notin Client /\ EvtProcer \in Thread
      /\ Client \subseteq Thread
  BY Types, EvtMangerAssumption DEF IInv, Thread
<1> USE <1>1 DEF PcType, PlaceInv, CallType, ClientPc, ProcPc, Goto
<1>2. ASSUME NEW c \in Client,
             \/ initEvtManger(c) \/ enableEvtManger(c) \/ DisableCancel(c) \/ DisableJoin(c)
             \/ RegCheck(c) \/ doRegOper(c)
      PROVE  pc'[u] = "post" /\ evt'[u] = evt[u]
  <2>1. procQueue # None
    BY FindsQueue
  <2>2. u = EvtProcer => ~HasEnded
    BY DEF HasEnded
  <2> QED
    BY <1>2, <2>1, <2>2 DEF initEvtManger, enableEvtManger, DisableCancel, DisableJoin, RegCheck,
       doRegOper, IsIdle
<1>3. ASSUME NEW c \in Client, NEW o \in OperID,
             \/ PubScan(c) \/ PubStore(c) \/ unregOper(c, o) \/ PubCheck(c, o) \/ unpubEvts(c, o)
      PROVE  pc'[u] = "post" /\ evt'[u] = evt[u]
  BY <1>3 DEF PubScan, PubStore, PubReturn, unregOper, PubCheck, unpubEvts, IsIdle
<1>4. ASSUME NEW c \in Client, NEW o \in OperID,
             doSubEvts(c) \/ unsubEvts(c) \/ SubCheck(c, o) \/ UnsubCall(c, o)
      PROVE  pc'[u] = "post" /\ evt'[u] = evt[u]
  BY <1>4 DEF doSubEvts, unsubEvts, FreeRow, SubReturn, SubCheck, UnsubCall, IsIdle
<1>5. ASSUME NEW t \in Thread, postEvtSRT(t)
      PROVE  PostEnqueue(u) \/ (pc'[u] = "post" /\ evt'[u] = evt[u])
  <2>1. PostEnqueue(t) \/ PostSignal(t) \/ \E m \in Msg : PostCheck(t, m)
    BY <1>5, NoBadPost, NoFullPost DEF postEvtSRT
  <2>2. ASSUME NEW m \in Msg, PostCheck(t, m) PROVE pc'[u] = "post" /\ evt'[u] = evt[u]
    BY <2>2 DEF PostCheck
  <2>3. ASSUME PostSignal(t) PROVE pc'[u] = "post" /\ evt'[u] = evt[u]
    BY <2>3 DEF PostSignal, PostReturn
  <2>4. ASSUME PostEnqueue(t), t # u PROVE pc'[u] = "post" /\ evt'[u] = evt[u]
    BY <2>4 DEF PostEnqueue
  <2> QED
    BY <2>1, <2>2, <2>3, <2>4
<1>6. ASSUME EvtProcer_Thread, ~ProcCancelledInCb PROVE pc'[u] = "post" /\ evt'[u] = evt[u]
  BY <1>6 DEF EvtProcer_Thread, ProcWait, ProcSpuriousWakeup, ProcTake, ProcLock, ProcCall,
     ProcSkip, ProcCbReturn, ProcDone, ProcCancelledInWait
<1>7. ASSUME ProcCancelledInCb PROVE pc'[u] = "post" /\ evt'[u] = evt[u]
  BY <1>7 DEF ProcCancelledInCb
<1>8. 0 \in OperID
  BY EvtMangerAssumption DEF OperID
<1> QED
  BY <1>2, <1>3, <1>4, <1>5, <1>6, <1>7, <1>8 DEF Next

(* A thread comes to post an event, the first of its own that is left; a     *)
(* post puts its event into the queue; and the EvtProcer takes the oldest.   *)
Comes(m) ==
    /\ m \in unposted /\ unposted' = unposted \ {m} /\ Posting' = Posting \cup {m}
    /\ PostedBy[m] \in Client => \A n \in unposted : PostedBy[n] = PostedBy[m] => m <= n
    /\ UNCHANGED <<InQueue, num, seqID, Taken>>
IsQueued(m) ==
    /\ m \in Posting /\ unposted' = unposted /\ Posting' = Posting \ {m}
    /\ InQueue' = Append(InQueue, m) /\ num' = num + 1 /\ seqID' = seqID + 1
    /\ Taken' = Taken
IsTaken ==
    /\ InQueue # <<>> /\ InQueue' = Tail(InQueue) /\ num' = num - 1 /\ seqID' = seqID
    /\ Taken = {} /\ Taken' = {Head(InQueue)}
    /\ UNCHANGED <<unposted, Posting>>

(* enable makes the queue and disable frees it; and all that other steps     *)
(* change is that the EvtProcer is through with its event.                   *)
IsMade ==
    /\ procQueue = None /\ step["main"] = EnabledAt(prog)
    /\ InQueue' = <<>> /\ num' = 0 /\ seqID' = 0 /\ Taken' = {}
    /\ UNCHANGED <<unposted, Posting>>
IsFreed ==
    /\ procQueue' = None
    /\ InQueue' = <<>> /\ num' = 0 /\ Taken' = {}
    /\ UNCHANGED <<unposted, Posting>>
Stays ==
    /\ UNCHANGED <<InQueue, num, seqID, unposted, Posting>>
    /\ Taken' = Taken \/ (pc[EvtProcer] = "scan" /\ row = SubMax /\ Taken' = {})

(* The threads of a test do not move the EvtProcer while it works on an      *)
(* event.                                                                    *)
LEMMA ProcerUndisturbed ==
    ASSUME IInv, TestInv, LoadInv, HoldsEvent, NEW t \in Client, Instructs(t) \/ Calls_EVT(t)
    PROVE  pc'[EvtProcer] = pc[EvtProcer] /\ UNCHANGED <<cur, row, nth>>
<1>1. /\ PcType /\ PlaceInv /\ EvtProcer \notin Client /\ EvtProcer \in Thread
      /\ t \in Thread /\ procQueue # None /\ ~HasEnded
  BY Types, EvtMangerAssumption
     DEF IInv, Thread, HoldsEvent, HasEnded, QueueOutlivesProcer, IsActive
<1> USE <1>1 DEF PcType, PlaceInv, ClientPc, ProcPc, Goto
<1>2. CASE Instructs(t)
  BY <1>2 DEF Instructs
<1>3. CASE Calls_EVT(t)
  <2>1. PLT_EVT(t) /\ ~PostNull(t) /\ ~PostToFreed(t) /\ ~PostFull(t)
    BY <1>1, <1>3, NoBadPost, NoFullPost DEF Calls_EVT, Call
  <2>2. ASSUME \/ initEvtManger(t) \/ enableEvtManger(t) \/ DisableCancel(t) \/ DisableJoin(t)
               \/ RegCheck(t) \/ doRegOper(t) \/ unregOper(t, ID(t))
        PROVE  pc'[EvtProcer] = pc[EvtProcer] /\ UNCHANGED <<cur, row, nth>>
    BY <2>2 DEF initEvtManger, enableEvtManger, DisableCancel, DisableJoin,
       RegCheck, doRegOper, unregOper
  <2>3. ASSUME \/ PubCheck(t, ID(t)) \/ PubScan(t) \/ PubStore(t) \/ unpubEvts(t, ID(t))
               \/ SubCheck(t, ID(t)) \/ doSubEvts(t) \/ UnsubCall(t, ID(t)) \/ unsubEvts(t)
        PROVE  pc'[EvtProcer] = pc[EvtProcer] /\ UNCHANGED <<cur, row, nth>>
    BY <2>3 DEF PubCheck, PubScan, PubStore, PubReturn, unpubEvts, SubCheck,
       doSubEvts, SubReturn, UnsubCall, unsubEvts, FreeRow
  <2>4. ASSUME \/ \E m \in Msg : PostCheck(t, m)
               \/ PostEnqueue(t) \/ PostSignal(t)
        PROVE  pc'[EvtProcer] = pc[EvtProcer] /\ UNCHANGED <<cur, row, nth>>
    BY <2>4 DEF PostCheck, PostEnqueue, PostSignal, PostReturn, ReturnTo, HoldsEvent
  <2> QED
    BY <2>1, <2>2, <2>3, <2>4 DEF PLT_EVT
<1> QED
  BY <1>2, <1>3

(* It works on it until it has called everybody.                             *)
LEMMA HoldsUntil ==
    ASSUME IInv, TestInv, LoadInv, TestNext, HoldsEvent
    PROVE  HoldsEvent' \/ (pc[EvtProcer] = "scan" /\ row = SubMax)
<1>1. PcType /\ EvtProcer \in Thread /\ EvtProcer \notin Client
  BY Types, EvtMangerAssumption DEF Thread
<1>2. ASSUME NEW t \in Client, Instructs(t) \/ Calls_EVT(t) PROVE HoldsEvent'
  BY <1>2, ProcerUndisturbed DEF HoldsEvent
<1>3. ASSUME ProcMoves PROVE HoldsEvent' \/ (pc[EvtProcer] = "scan" /\ row = SubMax)
  <2>1. ~PostNull(EvtProcer) /\ ~PostFull(EvtProcer)
    BY <1>1, NoBadPost, NoFullPost
  <2> QED
    BY <1>1, <1>3, <2>1 DEF PcType, HoldsEvent, ProcMoves, ProcCall, ProcCbReturn, ProcWait, ProcTake,
     ProcLock, ProcDone, ProcCancelledInWait, ProcSkip, ProcSpuriousWakeup, PostCheck,
     PostEnqueue, PostSignal, ReturnTo, Goto
<1> QED
  BY <1>2, <1>3, TestSteps

(* A post does not overwrite the event the EvtProcer works on.               *)
LEMMA PostKeepsTaken ==
    ASSUME IInv, TestInv, LoadInv, Next, NEW t \in Thread, PostEnqueue(t),
           HoldsEvent, HoldsEvent'
    PROVE  Taken' = Taken
<1>1. /\ RingType /\ RingInv /\ TakenInv /\ Depth \in Nat \ {0} /\ pc[t] = "post"
  BY Types, EvtMangerAssumption DEF IInv, PostEnqueue, AtQueue
<1>2. /\ cur' = cur /\ cur = (head + (Depth - 1)) % Depth /\ num < seqID
      /\ tail = (head + num) % Depth /\ head \in Index /\ num \in Nat /\ seqID \in Nat
  BY <1>1, HeldRing DEF TakenInv, RingInv, RingType
<1>3. num + 1 < Depth
  BY <1>1, RoomAtPost
<1>4. num # Depth - 1 /\ num \in 0 .. Depth - 1 /\ Depth - 1 \in 0 .. Depth - 1
  BY <1>1, <1>2, <1>3
<1>5. cur # tail /\ cur \in Index
  BY <1>2, <1>4, CellsDistinct
<1>6. buf'[cur] = buf[cur]
  BY <1>1, <1>5 DEF PostEnqueue, RingType
<1> QED
  BY <1>2, <1>6 DEF Taken

LEMMA PostingSame ==
    ASSUME IInv, TestInv, LoadInv, Next,
           \A t \in Thread : ~PostEnqueue(t), \A t \in Thread : \A m \in Msg : ~PostCheck(t, m)
    PROVE  Posting' = Posting
<1>1. \A u \in Thread : pc'[u] = "post" => pc[u] = "post" /\ evt'[u] = evt[u]
  BY PostsSince DEF InPost
<1>2. \A u \in Thread : pc[u] = "post" => pc'[u] = "post" /\ evt'[u] = evt[u]
  BY PostsUntil
<1> QED
  BY <1>1, <1>2 DEF Posting

\* Which event the EvtProcer has, when nobody changes the ring.
LEMMA TakenSame ==
    ASSUME IInv, TestInv, LoadInv, TestNext, Next, UNCHANGED ringVars
    PROVE  Taken' = Taken \/ (pc[EvtProcer] = "scan" /\ row = SubMax /\ Taken' = {})
<1>1. num \in Nat
  BY Types DEF RingType
<1>2. ~ProcTake
  BY <1>1 DEF ProcTake
<1>3. HoldsEvent' => HoldsEvent /\ cur' = cur
  BY <1>2, HoldsSince, HeldRing
<1>4. HoldsEvent => HoldsEvent' \/ (pc[EvtProcer] = "scan" /\ row = SubMax)
  BY HoldsUntil
<1> QED
  BY <1>3, <1>4 DEF Taken

LEMMA EventMoves ==
    ASSUME IInv, TestInv, LoadInv, PlacesInv, TestNext
    PROVE  \/ procQueue' = procQueue /\ \E m \in Msg : Comes(m) \/ IsQueued(m)
           \/ procQueue' = procQueue /\ (IsTaken \/ Stays)
           \/ IsMade \/ IsFreed
<1>1. /\ [Next]_vars /\ PosterInv /\ StepInv /\ CallInv
      /\ pc \in [Thread -> ClientPc \cup ProcPc] /\ evt \in [Thread -> Msg \cup {None}]
      /\ EvtProcer \in Thread /\ Client \subseteq Thread /\ EvtProcer \notin Client
      /\ num \in Nat /\ RingType
  BY TestRunsManger, Types, EvtMangerAssumption
     DEF TestInv, PcType, CallType, RingType, Thread
<1>2. CASE UNCHANGED vars
  BY <1>2 DEF Stays, InQueue, Posting, Taken, HoldsEvent
<1>3. ASSUME Next, NEW t \in Thread, NEW m \in Msg, PostCheck(t, m)
      PROVE  Comes(m) /\ procQueue' = procQueue
  <2>1. /\ UNCHANGED <<ringVars, procQueue>> /\ unposted' = unposted \ {m}
        /\ m \in unposted /\ PostedBy[m] = t /\ pc[t] # "post"
        /\ evt' = [evt EXCEPT ![t] = m] /\ pc' = [pc EXCEPT ![t] = "post"]
        /\ \A n \in unposted :
              PostedBy[n] = t /\ (t = EvtProcer => EvtOf[n] = EvtOf[m]) => m <= n
        /\ pc[t] = IF t \in Client THEN "idle" ELSE "cb"
    BY <1>3 DEF PostCheck, IsNextPost, Goto
  <2>2. Posting' = Posting \cup {m}
    BY <1>1, <2>1 DEF Posting
  <2>3. Taken' = Taken
    <3>1. cur' = cur /\ (HoldsEvent' <=> HoldsEvent)
      BY <1>1, <1>3, <2>1 DEF PostCheck, HoldsEvent
    <3> QED
      BY <2>1, <3>1 DEF Taken
  <2>4. PostedBy[m] \in Client => \A n \in unposted : PostedBy[n] = PostedBy[m] => m <= n
    BY <1>1, <2>1
  <2> QED
    BY <2>1, <2>2, <2>3, <2>4, SameRing DEF Comes
<1>4. ASSUME Next, NEW t \in Thread, PostEnqueue(t)
      PROVE  \E m \in Msg : IsQueued(m) /\ procQueue' = procQueue
  <2>1. /\ evt[t] \in Msg /\ InQueue' = Append(InQueue, evt[t])
        /\ pc[t] = "post" /\ UNCHANGED <<evt, unposted, procQueue>>
        /\ pc' = [pc EXCEPT ![t] = "signal"] /\ num' = num + 1 /\ seqID' = seqID + 1
    BY <1>4, PostAppends DEF PostEnqueue, AtQueue, Goto
  <2>2. Posting' = Posting \ {evt[t]}
    <3>1. \A u \in Thread : pc[u] = "post" => PostedBy[evt[u]] = u
      BY <1>1 DEF PosterInv
    <3>2. \A u \in Thread : pc'[u] = "post" <=> pc[u] = "post" /\ u # t
      BY <1>1, <2>1
    <3> QED
      BY <2>1, <3>1, <3>2 DEF Posting
  <2>3. Taken' = Taken
    <3>1. HoldsEvent' => HoldsEvent
      BY <1>1, <1>4, HoldsSince DEF PostEnqueue, ProcTake
    <3>2. HoldsEvent => HoldsEvent'
      BY <1>1, <2>1 DEF HoldsEvent
    <3> QED
      BY <1>4, <3>1, <3>2, PostKeepsTaken DEF Taken
  <2>4. evt[t] \in Posting
    BY <2>1 DEF Posting
  <2> QED
    BY <2>1, <2>2, <2>3, <2>4 DEF IsQueued
<1>5. ASSUME Next, ProcTake
      PROVE  IsTaken /\ procQueue' = procQueue
  <2>1. /\ UNCHANGED <<buf, seqID, procQueue, unposted, evt>> /\ cur' = head /\ num' = num - 1
        /\ pc' = [pc EXCEPT ![EvtProcer] = "lock"] /\ pc[EvtProcer] = "top"
    BY <1>5 DEF ProcTake, Goto
  <2>2. InQueue # <<>> /\ InQueue' = Tail(InQueue)
    BY <1>5, TakeRemovesHead
  <2>3. Posting' = Posting
    BY <1>1, <2>1 DEF Posting
  <2>4. Taken = {} /\ HoldsEvent'
    BY <1>1, <2>1 DEF Taken, HoldsEvent
  <2>5. Taken' = {Head(InQueue)}
    <3>1. num \in Nat \ {0} /\ head \in Index /\ Depth \in Nat \ {0}
      BY <1>1, <1>5, EvtMangerAssumption DEF ProcTake, RingType
    <3>2. (head + 1 - 1) % Depth = head
      BY <3>1 DEF Index
    <3>3. InQueue[1] = buf[head].msg
      BY <3>1, <3>2 DEF InQueue
    <3>4. InQueue \in Seq(Msg)
      BY QueueType
    <3>5. Head(InQueue) = InQueue[1]
      BY <2>2, <3>4
    <3> QED
      BY <2>1, <2>4, <3>3, <3>5 DEF Taken
  <2> QED
    BY <2>1, <2>2, <2>3, <2>4, <2>5 DEF IsTaken
<1>6. ASSUME Next, NEW c \in Client, Advances(prog, step, step', c),
             \/ Instr(c).do = "enable" /\ enableEvtManger(c)
             \/ Instr(c).do = "disable" /\ DisableJoin(c)
      PROVE  IsMade \/ IsFreed
  <2>1. /\ UNCHANGED <<unposted, evt>> /\ num' = 0 /\ seqID' = 0
    BY <1>6 DEF enableEvtManger, DisableJoin, FreshQueue
  <2>2. InQueue' = <<>>
    BY <2>1, NoEvents
  <2>3. \A u \in Thread : pc'[u] = "post" <=> pc[u] = "post"
    <3>1. CASE enableEvtManger(c)
      <4>1. pc[EvtProcer] # "post"
        BY <3>1, <1>1, FindsQueue DEF enableEvtManger
      <4> QED
        BY <1>1, <3>1, <4>1 DEF enableEvtManger, Goto
    <3>2. CASE DisableJoin(c)
      BY <1>1, <3>2 DEF DisableJoin, HasEnded
    <3> QED
      BY <1>6, <3>1, <3>2
  <2>4. Posting' = Posting
    BY <2>1, <2>3 DEF Posting
  <2>5. Taken' = {}
    BY <1>1, <1>6 DEF Taken, HoldsEvent, enableEvtManger, DisableJoin, Goto
  <2>6. enableEvtManger(c) => procQueue = None
    BY DEF enableEvtManger
  <2>7. DisableJoin(c) => procQueue' = None
    BY DEF DisableJoin
  <2>8. Instr(c).do = "enable" => step["main"] = EnabledAt(prog)
    BY <1>1, <1>6, MainAdvances
  <2> QED
    BY <1>6, <2>1, <2>2, <2>4, <2>5, <2>6, <2>7, <2>8 DEF IsMade, IsFreed
<1>7. ASSUME Next, UNCHANGED <<ringVars, procQueue>>,
             \A t \in Thread : ~PostEnqueue(t), \A t \in Thread : \A m \in Msg : ~PostCheck(t, m)
      PROVE  Stays
  <2>1. Posting' = Posting /\ InQueue' = InQueue
    BY <1>7, PostingSame, SameRing
  <2>2. unposted' = unposted
    BY <1>1, <1>7, EventSteps
  <2>3. Taken' = Taken \/ (pc[EvtProcer] = "scan" /\ row = SubMax /\ Taken' = {})
    BY <1>7, TakenSame
  <2> QED
    BY <1>7, <2>1, <2>2, <2>3 DEF Stays
<1>8. ASSUME Next, NEW c \in Client, enableEvtManger(c) \/ DisableJoin(c)
      PROVE  IsMade \/ IsFreed
  <2>1. procQueue' # procQueue
    BY <1>8, EvtMangerAssumption, FindsQueue, Types DEF enableEvtManger, DisableJoin, MgrType,
       IInv, DisableInv, QueueOutlivesProcer
  <2> QED
    BY <1>6, <1>8, <2>1, RunSteps
<1> QED
  <2>1. CASE Next
    <3>1. CASE \A c \in Client : ~enableEvtManger(c) /\ ~DisableJoin(c)
      <4>1. procQueue' = procQueue
        BY <3>1, RunSteps
      <4> QED
        BY <1>3, <1>4, <1>5, <1>7, <2>1, <3>1, <4>1, RingSteps
    <3> QED
      BY <1>8, <2>1, <3>1
  <2> QED
    BY <1>1, <1>2, <2>1

-----------------------------------------------------------------------------
(* Before the manager is enabled, nothing happens to the events.             *)

\* Without a queue nobody posts.
LEMMA NobodyPosts ==
    IInv /\ TestInv /\ procQueue = None => Posting = {}
BY FindsQueue DEF Posting

LEMMA NobodyPostsNext ==
    ASSUME IInv, TestInv, TestNext, procQueue' = None
    PROVE  Posting' = {}
<1>1. IInv' /\ TestInv'
  BY TestRunsManger, NextIInv, TestInvNext
<1>2. (IInv /\ TestInv /\ procQueue = None => Posting = {})'
  BY NobodyPosts, PTL
<1> QED
  BY <1>1, <1>2

\* The callbacks count when they are called, nobody else does.
LEMMA CountSteps ==
    ASSUME TestNext PROVE CallbackEnters \/ UNCHANGED count
BY DEF TestNext, TestThread, Call, Start, Join, SemPost, SemWait, Expect, OtherTestVars, Proc,
   CallbackReplies, CallbackPosts, CallbackReturns

\* The EvtProcer does not begin before enable.
LEMMA NotYetBegun ==
    ASSUME IInv, TestInv, LoadInv, TestNext, pc[EvtProcer] = "none", \A c \in Client : ~enableEvtManger(c)
    PROVE  pc'[EvtProcer] = "none"
<1>1. /\ PcType /\ EvtProcer \notin Client /\ EvtProcer \in Thread /\ ~HasEnded
      /\ Client \subseteq Thread /\ [Next]_vars
  BY Types, EvtMangerAssumption, TestRunsManger DEF Thread, HasEnded
<1> USE <1>1 DEF PcType, Goto
<1>2. ASSUME NEW c \in Client,
             \/ initEvtManger(c) \/ DisableCancel(c) \/ DisableJoin(c)
             \/ RegCheck(c) \/ doRegOper(c) \/ PubScan(c)
             \/ PubStore(c) \/ doSubEvts(c) \/ unsubEvts(c)
      PROVE  pc'[EvtProcer] = "none"
  BY <1>2 DEF initEvtManger, DisableCancel, DisableJoin, RegCheck,
     doRegOper, PubScan, PubStore, PubReturn, doSubEvts, unsubEvts, FreeRow, SubReturn
<1>3. ASSUME NEW c \in Client, NEW o \in OperID,
             \/ unregOper(c, o) \/ PubCheck(c, o) \/ unpubEvts(c, o)
             \/ SubCheck(c, o) \/ UnsubCall(c, o)
      PROVE  pc'[EvtProcer] = "none"
  BY <1>3 DEF unregOper, PubCheck, unpubEvts, SubCheck, UnsubCall
<1>4. ASSUME NEW t \in Thread, postEvtSRT(t) PROVE pc'[EvtProcer] = "none"
  <2>1. PostEnqueue(t) \/ PostSignal(t) \/ \E m \in Msg : PostCheck(t, m)
    BY <1>4, NoBadPost, NoFullPost DEF postEvtSRT
  <2> QED
    BY <2>1 DEF PostCheck, PostEnqueue, PostSignal, AtQueue
<1>5. ~EvtProcer_Thread
  BY DEF EvtProcer_Thread, ProcWait, ProcSpuriousWakeup, ProcTake, ProcLock, ProcCall,
     ProcSkip, ProcCbReturn, ProcDone, ProcCancelledInWait, ProcCancelledInCb
<1> QED
  BY <1>2, <1>3, <1>4, <1>5 DEF Next

LEMMA BeforeInvNext ==
    ASSUME IInv, TestInv, LoadInv, PlacesInv, BeforeInv, TestNext
    PROVE  BeforeInv'
<1> SUFFICES ASSUME step'["main"] <= EnabledAt(prog')
             PROVE  /\ unposted' = events' /\ num' = 0 /\ pc'[EvtProcer] = "none"
                    /\ \A x \in Oper, e \in EvtID : count'[<<x, e>>] = 0
  BY DEF BeforeInv
<1>1. /\ step["main"] <= EnabledAt(prog) /\ prog' = prog /\ events' = events
      /\ step["main"] \in Nat /\ EnabledAt(prog) \in Nat /\ StepInv
  BY UpBefore, SameTest, MainIsAt DEF TestInv
<1>2. /\ unposted = events /\ num = 0 /\ pc[EvtProcer] = "none"
      /\ \A x \in Oper, e \in EvtID : count[<<x, e>>] = 0
  BY <1>1 DEF BeforeInv
<1>3. procQueue = None /\ procQueue' = None
  <2>1. ~(EnabledAt(prog) < step["main"])
    BY <1>1
  <2>2. step'["main"] \in Nat
    BY UpBefore
  <2>3. ~(EnabledAt(prog) < step'["main"])
    BY <1>1, <2>2
  <2>4. RunsInv /\ RunsInv'
    BY RunsNext DEF TestInv
  <2> QED
    BY <1>1, <2>1, <2>3, <2>4 DEF RunsInv
<1>4. Posting = {} /\ Posting' = {} /\ InQueue = <<>>
  BY <1>2, <1>3, NobodyPosts, NobodyPostsNext, QueueType, EmptySeq
<1>5. unposted' = events /\ num' = 0
  BY <1>2, <1>4, EventMoves DEF Comes, IsQueued, IsTaken, Stays, IsMade, IsFreed
<1>6. pc'[EvtProcer] = "none"
  <2>1. ASSUME NEW c \in Client, enableEvtManger(c) PROVE FALSE
    BY <1>3, <2>1, EvtMangerAssumption DEF enableEvtManger
  <2> QED
    BY <1>2, <2>1, NotYetBegun
<1>7. UNCHANGED count
  BY <1>2, CountSteps DEF CallbackEnters, ProcCall
<1> QED
  BY <1>1, <1>2, <1>5, <1>6, <1>7

-----------------------------------------------------------------------------
(* Every event is at one place.                                              *)

(* What is behind a place of the queue, after a move.                        *)
LEMMA BehindComes ==
    ASSUME NEW m, Comes(m)
    PROVE  Entering' = Entering /\ Waiting' = Waiting /\ \A k \in Nat : Behind(k)' = Behind(k)
<1>1. Entering' = Entering
  BY DEF Comes, Entering
<1>2. InQueue' = InQueue
  BY DEF Comes
<1>3. ASSUME NEW k \in Nat PROVE Behind(k)' = Behind(k)
  BY <1>1, <1>2 DEF Behind
<1> QED
  BY <1>1, <1>3 DEF Waiting

LEMMA BehindStays ==
    ASSUME Stays
    PROVE  Entering' = Entering /\ Waiting' = Waiting /\ \A k \in Nat : Behind(k)' = Behind(k)
<1>1. Entering' = Entering
  BY DEF Stays, Entering
<1>2. InQueue' = InQueue
  BY DEF Stays
<1>3. ASSUME NEW k \in Nat PROVE Behind(k)' = Behind(k)
  BY <1>1, <1>2 DEF Behind
<1> QED
  BY <1>1, <1>3 DEF Waiting

LEMMA BehindQueued ==
    ASSUME IInv, TestInv, NEW m \in Msg, IsQueued(m)
    PROVE  /\ m \in Entering /\ Entering' = Entering \ {m}
           /\ Len(InQueue') = Len(InQueue) + 1 /\ InQueue'[Len(InQueue) + 1] = m
           /\ \A i \in 1 .. Len(InQueue) : InQueue'[i] = InQueue[i]
           /\ \A k \in 1 .. Len(InQueue) + 1 : Behind(k)' = Behind(k)
           /\ \A k \in Nat : k = Len(InQueue) + 2 => Behind(k)' = Entering \ {m}
           /\ Waiting' = Waiting
<1>1. InQueue \in Seq(Msg) /\ Len(InQueue) \in Nat
  BY QueueType
<1>2. m \in Posting /\ InQueue' = Append(InQueue, m) /\ unposted' = unposted
      /\ Posting' = Posting \ {m}
  BY DEF IsQueued
<1>3. m \notin unposted
  BY <1>2 DEF TestInv, PosterInv, Posting
<1>4. m \in Entering /\ Entering' = Entering \ {m}
  BY <1>2, <1>3 DEF Entering
<1>5. /\ Len(InQueue') = Len(InQueue) + 1 /\ InQueue'[Len(InQueue) + 1] = m
      /\ \A i \in 1 .. Len(InQueue) : InQueue'[i] = InQueue[i]
  BY <1>1, <1>2, AppendProperties
<1> DEFINE q == InQueue
           n == Len(InQueue)
           q2 == InQueue'
<1>6. ASSUME NEW k \in 1 .. n + 1 PROVE Behind(k)' = Behind(k)
  <2>1. Behind(k)' = (Entering \ {m}) \cup {q2[i] : i \in k .. n + 1}
    BY <1>4, <1>5 DEF Behind
  <2>2. Behind(k) = Entering \cup {q[i] : i \in k .. n}
    BY DEF Behind
  <2>3. n \in Nat /\ q2[n + 1] = m /\ \A i \in 1 .. n : q2[i] = q[i]
    BY <1>1, <1>5
  <2> HIDE DEF q, n, q2
  <2>4. {q2[i] : i \in k .. n + 1} = {q[i] : i \in k .. n} \cup {m}
    <3>1. \A i \in k .. n + 1 : i = n + 1 \/ (i \in k .. n /\ q2[i] = q[i])
      BY <2>3
    <3>2. \A i \in k .. n : i \in k .. n + 1 /\ q2[i] = q[i]
      BY <2>3
    <3>3. n + 1 \in k .. n + 1
      BY <2>3
    <3> QED
      BY <2>3, <3>1, <3>2, <3>3
  <2> QED
    BY <1>4, <2>1, <2>2, <2>4
<1>7. ASSUME NEW k \in Nat, k = n + 2 PROVE Behind(k)' = Entering \ {m}
  <2>1. Len(q2) = n + 1 /\ n \in Nat
    BY <1>1, <1>5
  <2>2. k .. Len(q2) = {}
    BY <1>7, <2>1
  <2> QED
    BY <1>4, <2>2 DEF Behind
<1>8. Waiting' = Waiting
  BY <1>1, <1>6 DEF Waiting
<1> QED
  BY <1>4, <1>5, <1>6, <1>7, <1>8

LEMMA BehindTaken ==
    ASSUME IInv, IsTaken
    PROVE  /\ Entering' = Entering /\ Len(InQueue) \in Nat \ {0}
           /\ Len(InQueue') = Len(InQueue) - 1
           /\ \A i \in 1 .. Len(InQueue) - 1 : InQueue'[i] = InQueue[i + 1]
           /\ \A k \in Nat \ {0} : Behind(k)' = Behind(k + 1)
           /\ Waiting' = Behind(2) /\ Waiting = Behind(2) \cup {InQueue[1]}
           /\ Taken = {} /\ Taken' = {InQueue[1]}
<1>1. InQueue \in Seq(Msg) /\ InQueue # <<>> /\ InQueue' = Tail(InQueue)
      /\ Taken = {} /\ Taken' = {Head(InQueue)}
  BY QueueType DEF IsTaken
<1>2. /\ Len(InQueue) \in Nat \ {0} /\ Len(InQueue') = Len(InQueue) - 1
      /\ \A i \in 1 .. Len(InQueue) - 1 : InQueue'[i] = InQueue[i + 1]
      /\ Head(InQueue) = InQueue[1]
  BY <1>1, HeadTailProperties, EmptySeq, LenProperties
<1>3. Entering' = Entering
  BY DEF IsTaken, Entering
<1> DEFINE q == InQueue
           n == Len(InQueue)
           q2 == InQueue'
<1>4. ASSUME NEW k \in Nat \ {0} PROVE Behind(k)' = Behind(k + 1)
  <2>1. Behind(k)' = Entering \cup {q2[i] : i \in k .. n - 1}
    BY <1>2, <1>3 DEF Behind
  <2>2. Behind(k + 1) = Entering \cup {q[i] : i \in k + 1 .. n}
    BY DEF Behind
  <2>3. n \in Nat /\ \A i \in 1 .. n - 1 : q2[i] = q[i + 1]
    BY <1>2
  <2> HIDE DEF q, n, q2
  <2>4. {q2[i] : i \in k .. n - 1} = {q[i] : i \in k + 1 .. n}
    <3>1. \A i \in k .. n - 1 : i + 1 \in k + 1 .. n /\ q2[i] = q[i + 1]
      BY <2>3
    <3>2. \A i \in k + 1 .. n : i - 1 \in k .. n - 1 /\ q2[i - 1] = q[i]
      BY <2>3
    <3> QED
      BY <3>1, <3>2
  <2> QED
    BY <2>1, <2>2, <2>4
<1>5. Waiting' = Behind(2)
  <2>1. Behind(1)' = Behind(1 + 1)
    BY <1>4
  <2> QED
    BY <2>1 DEF Waiting
<1>6. Waiting = Behind(2) \cup {InQueue[1]}
  <2>1. \A i \in 1 .. n : i = 1 \/ i \in 2 .. n
    BY <1>2
  <2>2. 1 \in 1 .. n /\ \A i \in 2 .. n : i \in 1 .. n
    BY <1>2
  <2> QED
    BY <2>1, <2>2 DEF Waiting, Behind
<1> QED
  BY <1>1, <1>2, <1>3, <1>4, <1>5, <1>6

LEMMA BehindNone ==
    ASSUME InQueue' = <<>>, UNCHANGED <<unposted, Posting>>
    PROVE  /\ Entering' = Entering /\ Waiting' = Entering
           /\ \A k \in Nat \ {0} : Behind(k)' = Entering
<1>1. Entering' = Entering
  BY DEF Entering
<1>2. ASSUME NEW k \in Nat \ {0} PROVE Behind(k)' = Entering
  <2>1. k .. Len(InQueue') = {}
    BY EmptySeq
  <2> QED
    BY <1>1, <2>1 DEF Behind
<1> QED
  BY <1>1, <1>2 DEF Waiting

LEMMA PlacesInvNext ==
    ASSUME IInv, TestInv, LoadInv, PlacesInv, BeforeInv, TestNext
    PROVE  PlacesInv'
<1>1. /\ Waiting \cup Taken \subseteq events /\ Taken \cap Waiting = {}
      /\ \A i \in 1 .. Len(InQueue) : InQueue[i] \notin Behind(i + 1)
      /\ Cardinality(Waiting) = num + Cardinality(Entering)
      /\ procQueue # None => seqID + Cardinality(Entering) = Cardinality(events)
  BY DEF PlacesInv
<1>2. /\ events' = events /\ IsFiniteSet(events) /\ Cardinality(events) \in Nat
      /\ num \in Nat /\ seqID \in Nat /\ Len(InQueue) = num
  BY SameTest, EventsOfTest, Types, QueueType DEF TestInv, RingType
<1>3. /\ IsFiniteSet(Entering) /\ Cardinality(Entering) \in Nat /\ Entering \subseteq Waiting
      /\ IsFiniteSet(Waiting) /\ Cardinality(Waiting) \in Nat
  <2>1. Entering \subseteq Waiting
    BY DEF Waiting, Behind
  <2> QED
    BY <1>1, <1>2, <2>1, FS_Subset, FS_CardinalityType
<1>4. ASSUME Entering' = Entering, Waiting' = Waiting, \A k \in Nat : Behind(k)' = Behind(k),
             UNCHANGED <<InQueue, num, seqID, procQueue>>, Taken' \subseteq Taken
      PROVE  PlacesInv'
  <2>1. \A i \in 1 .. Len(InQueue') : InQueue'[i] \notin Behind(i + 1)'
    BY <1>1, <1>2, <1>4
  <2> QED
    BY <1>1, <1>2, <1>4, <2>1 DEF PlacesInv
<1>5. ASSUME procQueue' = procQueue, NEW m \in Msg, Comes(m) PROVE PlacesInv'
  BY <1>4, <1>5, BehindComes DEF Comes
<1>6. ASSUME procQueue' = procQueue, Stays PROVE PlacesInv'
  BY <1>4, <1>6, BehindStays DEF Stays
<1>7. ASSUME procQueue' = procQueue, NEW m \in Msg, IsQueued(m) PROVE PlacesInv'
  <2>1. /\ m \in Entering /\ Entering' = Entering \ {m} /\ Len(InQueue') = num + 1
        /\ InQueue'[num + 1] = m /\ \A i \in 1 .. num : InQueue'[i] = InQueue[i]
        /\ \A k \in 1 .. num + 1 : Behind(k)' = Behind(k)
        /\ \A k \in Nat : k = num + 2 => Behind(k)' = Entering \ {m}
        /\ Waiting' = Waiting
    BY <1>2, <1>7, BehindQueued
  <2>2. Taken' = Taken /\ num' = num + 1 /\ seqID' = seqID + 1
    BY <1>7 DEF IsQueued
  <2>3. Cardinality(Entering') = Cardinality(Entering) - 1
    BY <1>3, <2>1, FS_RemoveElement
  <2>4. ASSUME NEW i \in 1 .. num + 1 PROVE InQueue'[i] \notin Behind(i + 1)'
    <3>1. CASE i = num + 1
      <4>1. i + 1 = num + 2 /\ i + 1 \in Nat
        BY <1>2, <3>1
      <4> QED
        BY <2>1, <3>1, <4>1
    <3>2. CASE i # num + 1
      <4>1. i \in 1 .. num /\ i + 1 \in 1 .. num + 1
        BY <1>2, <3>2
      <4> QED
        BY <1>1, <1>2, <2>1, <4>1
    <3> QED
      BY <3>1, <3>2
  <2>5. /\ Cardinality(Waiting') = num' + Cardinality(Entering')
        /\ procQueue' # None => seqID' + Cardinality(Entering') = Cardinality(events)
    BY <1>1, <1>2, <1>3, <1>7, <2>1, <2>2, <2>3
  <2> QED
    BY <1>1, <1>2, <2>1, <2>2, <2>4, <2>5 DEF PlacesInv
<1>8. ASSUME procQueue' = procQueue, IsTaken PROVE PlacesInv'
  <2>1. /\ Entering' = Entering /\ num \in Nat \ {0} /\ Len(InQueue') = num - 1
        /\ \A i \in 1 .. num - 1 : InQueue'[i] = InQueue[i + 1]
        /\ \A k \in Nat \ {0} : Behind(k)' = Behind(k + 1)
        /\ Waiting' = Behind(2) /\ Waiting = Behind(2) \cup {InQueue[1]}
        /\ Taken = {} /\ Taken' = {InQueue[1]}
    BY <1>2, <1>8, BehindTaken
  <2>2. num' = num - 1 /\ seqID' = seqID
    BY <1>8 DEF IsTaken
  <2>3. InQueue[1] \notin Behind(2)
    BY <1>1, <1>2, <2>1
  <2>4. Cardinality(Waiting') = Cardinality(Waiting) - 1
    <3>1. Waiting' = Waiting \ {InQueue[1]} /\ InQueue[1] \in Waiting
      BY <2>1, <2>3
    <3> QED
      BY <1>3, <3>1, FS_RemoveElement
  <2>5. ASSUME NEW i \in 1 .. num - 1 PROVE InQueue'[i] \notin Behind(i + 1)'
    <3>1. i + 1 \in 1 .. num /\ i + 1 \in Nat \ {0}
      BY <2>1
    <3> QED
      BY <1>1, <1>2, <2>1, <3>1
  <2>6. /\ Cardinality(Waiting') = num' + Cardinality(Entering')
        /\ procQueue' # None => seqID' + Cardinality(Entering') = Cardinality(events)
    BY <1>1, <1>2, <1>3, <1>8, <2>1, <2>2, <2>4
  <2>7. Waiting' \cup Taken' \subseteq events /\ Taken' \cap Waiting' = {}
    BY <1>1, <2>1, <2>3
  <2> QED
    BY <1>2, <2>1, <2>5, <2>6, <2>7 DEF PlacesInv
<1>9. ASSUME IsMade \/ IsFreed PROVE PlacesInv'
  <2>1. InQueue' = <<>> /\ num' = 0 /\ Taken' = {} /\ UNCHANGED <<unposted, Posting>>
    BY <1>9 DEF IsMade, IsFreed
  <2>2. Entering' = Entering /\ Waiting' = Entering
    BY <2>1, BehindNone
  <2>3. procQueue' # None => seqID' + Cardinality(Entering') = Cardinality(events)
    <3>1. ASSUME IsMade PROVE seqID' = 0 /\ Entering = events
      <4>1. step["main"] <= EnabledAt(prog)
        BY <3>1, MainIsAt DEF IsMade
      <4>2. unposted = events /\ Posting = {}
        BY <3>1, <4>1, NobodyPosts DEF BeforeInv, IsMade
      <4> QED
        BY <3>1, <4>2 DEF IsMade, Entering
    <3>2. ASSUME IsFreed PROVE procQueue' = None
      BY <3>2 DEF IsFreed
    <3> QED
      BY <1>2, <1>9, <2>2, <3>1, <3>2
  <2>4. Len(InQueue') = 0
    BY <2>1, EmptySeq
  <2>5. \A i \in 1 .. Len(InQueue') : InQueue'[i] \notin Behind(i + 1)'
    BY <2>4
  <2> QED
    BY <1>1, <1>2, <1>3, <2>1, <2>2, <2>3, <2>5 DEF PlacesInv
<1> QED
  BY <1>5, <1>6, <1>7, <1>8, <1>9, EventMoves

(* The events of a thread of the test keep their order.                      *)
LEMMA LateInvNext ==
    ASSUME IInv, TestInv, LoadInv, PlacesInv, LateInv, TestNext
    PROVE  LateInv'
<1>1. /\ Late(unposted) /\ \A k \in 1 .. Len(InQueue) + 1 : Late(Behind(k))
      /\ Late(Waiting \cup Taken) /\ Len(InQueue) \in Nat
      /\ events' = events /\ events \subseteq Msg /\ Msg \subseteq Nat
  BY SameTest, EventsOfTest, QueueType, EvtMangerAssumption DEF LateInv, TestInv
<1>2. Late(Entering) /\ Late(Waiting)
  <2>1. Len(InQueue) + 1 \in 1 .. Len(InQueue) + 1 /\ 1 \in 1 .. Len(InQueue) + 1
    BY <1>1
  <2>2. Behind(Len(InQueue) + 1) = Entering
    <3>1. Len(InQueue) + 1 .. Len(InQueue) = {}
      BY <1>1
    <3> QED
      BY <3>1 DEF Behind
  <2> QED
    BY <1>1, <2>1, <2>2 DEF Waiting
<1>3. ASSUME Late(unposted'), Late(Waiting' \cup Taken'),
             \A k \in 1 .. Len(InQueue') + 1 : Late(Behind(k)')
      PROVE  LateInv'
  BY <1>1, <1>3 DEF LateInv, Late
<1>4. ASSUME Waiting' = Waiting, Taken' = Taken \/ Taken' = {}
      PROVE  Late(Waiting' \cup Taken')
  BY <1>1, <1>2, <1>4
<1>5. ASSUME Stays PROVE LateInv'
  <2>1. \A k \in 1 .. Len(InQueue') + 1 : Behind(k)' = Behind(k) /\ k \in 1 .. Len(InQueue) + 1
    BY <1>1, <1>5, BehindStays DEF Stays
  <2> QED
    BY <1>1, <1>3, <1>4, <1>5, <2>1, BehindStays DEF Stays
<1>6. ASSUME NEW m \in Msg, Comes(m) PROVE LateInv'
  <2>1. \A k \in 1 .. Len(InQueue') + 1 : Behind(k)' = Behind(k) /\ k \in 1 .. Len(InQueue) + 1
    BY <1>1, <1>6, BehindComes DEF Comes
  <2>2. Late(unposted \ {m})
    <3> SUFFICES ASSUME NEW a \in unposted \ {m}, NEW n \in events,
                        PostedBy[a] = PostedBy[n], PostedBy[a] \in Client, a <= n
                 PROVE  n \in unposted \ {m}
      BY DEF Late
    <3>1. n \in unposted
      BY <1>1 DEF Late
    <3>2. ASSUME n = m PROVE FALSE
      <4>1. m <= a /\ a <= m
        BY <1>6, <3>2 DEF Comes
      <4>2. a \in Nat /\ m \in Nat
        BY <1>1 DEF TestInv, PosterInv
      <4> QED
        BY <4>1, <4>2
    <3> QED
      BY <3>1, <3>2
  <2> QED
    BY <1>3, <1>4, <1>6, <1>1, <2>1, <2>2, BehindComes DEF Comes
<1>7. ASSUME NEW m \in Msg, IsQueued(m) PROVE LateInv'
  <2>1. /\ \A k \in 1 .. Len(InQueue) + 1 : Behind(k)' = Behind(k)
        /\ \A k \in Nat : k = Len(InQueue) + 2 => Behind(k)' = Entering \ {m}
        /\ Len(InQueue') = Len(InQueue) + 1 /\ Waiting' = Waiting
    BY <1>7, BehindQueued
  <2>2. Late(Entering \ {m})
    <3> SUFFICES ASSUME NEW a \in Entering \ {m}, NEW n \in events,
                        PostedBy[a] = PostedBy[n], PostedBy[a] \in Client, a <= n
                 PROVE  n \in Entering \ {m}
      BY DEF Late
    <3>1. n \in Entering
      BY <1>2 DEF Late
    <3>2. ASSUME n = m PROVE FALSE
      <4>1. \A x \in Posting : \E t \in Thread : pc[t] = "post" /\ x = evt[t] /\ PostedBy[x] = t
                                                 /\ x \notin unposted
        BY DEF TestInv, PosterInv, Posting
      <4>2. m \in Posting
        BY <1>7 DEF IsQueued
      <4>3. CASE a \in unposted
        <5>1. m \in unposted
          BY <1>1, <3>2, <4>3 DEF Late
        <5> QED
          BY <4>1, <4>2, <5>1
      <4>4. CASE a \in Posting
        BY <3>2, <4>1, <4>2, <4>4
      <4> QED
        BY <4>3, <4>4 DEF Entering
    <3> QED
      BY <3>1, <3>2
  <2>3. ASSUME NEW k \in 1 .. Len(InQueue') + 1 PROVE Late(Behind(k)')
    <3>1. k \in 1 .. Len(InQueue) + 1 \/ (k = Len(InQueue) + 2 /\ k \in Nat)
      BY <1>1, <2>1
    <3> QED
      BY <1>1, <2>1, <2>2, <3>1
  <2> QED
    BY <1>1, <1>3, <1>4, <1>7, <2>1, <2>3 DEF IsQueued
<1>8. ASSUME IsTaken PROVE LateInv'
  <2>1. /\ Len(InQueue') = Len(InQueue) - 1 /\ \A k \in Nat \ {0} : Behind(k)' = Behind(k + 1)
        /\ Waiting' \cup Taken' = Waiting
    BY <1>8, BehindTaken
  <2>2. ASSUME NEW k \in 1 .. Len(InQueue') + 1 PROVE Late(Behind(k)')
    <3>1. k + 1 \in 1 .. Len(InQueue) + 1 /\ k \in Nat \ {0}
      BY <1>1, <2>1
    <3> QED
      BY <1>1, <2>1, <3>1
  <2> QED
    BY <1>1, <1>2, <1>3, <1>8, <2>1, <2>2 DEF IsTaken
<1>9. ASSUME IsMade \/ IsFreed PROVE LateInv'
  <2>1. InQueue' = <<>> /\ UNCHANGED <<unposted, Posting>> /\ Taken' = {}
    BY <1>9 DEF IsMade, IsFreed
  <2>2. Waiting' = Entering /\ \A k \in Nat \ {0} : Behind(k)' = Entering
    BY <2>1, BehindNone
  <2>3. \A k \in 1 .. Len(InQueue') + 1 : k \in Nat \ {0}
    OBVIOUS
  <2> QED
    BY <1>1, <1>2, <1>3, <2>1, <2>2, <2>3
<1> QED
  BY <1>5, <1>6, <1>7, <1>8, <1>9, EventMoves

-----------------------------------------------------------------------------
(* Every callback has counted what is not on its way to it.                  *)

(* What a row of the SubTable says, while the manager is up.                 *)
LEMMA TheRow ==
    ASSUME IInv, TestInv, TableInv, IsUp, NEW r \in SubRow, subTable[r] # None
    PROVE  /\ subTable[r].suber \in OperID
           /\ subTable[r].ids \in Seq(EvtID)
           /\ DOMAIN subTable[r].ids = 1 .. Len(subTable[r].ids)
           /\ Len(subTable[r].ids) \in Nat
           /\ \A k, l \in DOMAIN subTable[r].ids : subTable[r].ids[k] = subTable[r].ids[l] => k = l
           /\ \A k \in DOMAIN subTable[r].ids : \A m \in events :
                 IsMatch(subTable[r].ids[k], EvtOf[m]) <=> subTable[r].ids[k] = EvtOf[m]
           /\ \E x \in Oper : operID[x] = subTable[r].suber
           /\ \A x, y \in Oper :
                 operID[x] = subTable[r].suber /\ operID[y] = subTable[r].suber => x = y
<1>1. subTable[r] \in Subscription /\ SubArgs \subseteq Seq(EvtID) /\ None \notin OperID
  BY Types, EvtMangerAssumption DEF PSType, OperID
<1>2. subTable[r].suber \in OperID /\ subTable[r].ids \in Seq(EvtID)
  BY <1>1 DEF Subscription
<1>3. PICK t \in Client, z \in Here(prog, step) : \E i \in DOMAIN prog[t] :
          Is(prog, t, i, "sub", z) /\ subTable[r] = RowFor(z, prog[t][i])
  BY DEF TableInv
<1>4. PICK i \in DOMAIN prog[t] :
          Is(prog, t, i, "sub", z) /\ subTable[r] = RowFor(z, prog[t][i])
  BY <1>3
<1>5. prog[t][i].do = "sub" /\ subTable[r].ids = prog[t][i].ids /\ subTable[r].suber = operID[z]
  BY <1>4 DEF Is, RowFor
<1>6. NamesEvents(prog, events)
  BY EventsOfTest DEF TestInv
<1>7. /\ \A k, l \in DOMAIN subTable[r].ids : subTable[r].ids[k] = subTable[r].ids[l] => k = l
      /\ \A k \in DOMAIN subTable[r].ids : \A m \in events :
            IsMatch(subTable[r].ids[k], EvtOf[m]) <=> subTable[r].ids[k] = EvtOf[m]
  BY <1>5, <1>6 DEF NamesEvents
<1>8. z \in Oper
  BY DEF Here, Held
<1>9. ASSUME NEW x \in Oper, NEW y \in Oper,
             operID[x] = subTable[r].suber, operID[y] = subTable[r].suber
      PROVE  x = y
  <2>1. x \in Here(prog, step) /\ y \in Here(prog, step)
    BY <1>1, <1>2, <1>9 DEF TableInv
  <2> QED
    BY <1>9, <2>1 DEF TestInv, OperInv
<1> QED
  BY <1>2, <1>5, <1>7, <1>8, <1>9

\* Before the first event moves, all of them are left for every callback.
NoneMoved ==
    /\ IInv /\ TestInv /\ PlacesInv /\ TableInv /\ IsUp
    /\ events \subseteq Waiting /\ Taken = {}
    /\ \A x \in Oper, e \in EvtID : count[<<x, e>>] = 0
AllAccounted ==
    \A x \in Oper : \A r \in RowsOf(operID[x]) : \A k \in DOMAIN subTable[r].ids :
        Accounted(x, r, k)

LEMMA AllLeft == NoneMoved => AllAccounted
<1> SUFFICES ASSUME IInv, TestInv, PlacesInv, TableInv, events \subseteq Waiting, Taken = {},
                    \A x \in Oper, e \in EvtID : count[<<x, e>>] = 0, IsUp,
                    NEW x \in Oper, NEW r \in RowsOf(operID[x]), NEW k \in DOMAIN subTable[r].ids
             PROVE  Accounted(x, r, k)
  BY DEF NoneMoved, AllAccounted
<1>1. r \in SubRow /\ subTable[r] # None
  BY DEF RowsOf
<1>2. subTable[r].ids[k] \in EvtID
  BY <1>1, TheRow
<1>3. Waiting = events
  BY DEF PlacesInv
<1>4. LeftFor(r, k) = {m \in events : EvtOf[m] = subTable[r].ids[k]}
  BY <1>3 DEF LeftFor
<1>5. Total(subTable[r].ids[k]) = Cardinality({m \in events : EvtOf[m] = subTable[r].ids[k]})
  BY <1>2 DEF Total, TotalOf, events, TestInv, StepInv, ObjsOf, Programs
<1>6. Cardinality(LeftFor(r, k)) \in Nat
  <2>1. LeftFor(r, k) \subseteq events /\ IsFiniteSet(events)
    BY <1>4, EventsOfTest DEF TestInv
  <2> QED
    BY <2>1, FS_Subset, FS_CardinalityType
<1> QED
  BY <1>2, <1>4, <1>5, <1>6 DEF Accounted

(* What the EvtProcer does but call a callback.                              *)
ProcWorks ==
    \/ ProcCbReturn \/ ProcWait \/ ProcTake \/ ProcLock \/ ProcDone
    \/ ProcCancelledInWait \/ ProcSkip \/ ProcSpuriousWakeup
    \/ \E m \in Msg : PostCheck(EvtProcer, m)
    \/ PostEnqueue(EvtProcer) \/ PostSignal(EvtProcer)

LEMMA CountsWhenCalled ==
    ASSUME IInv, TestInv, LoadInv, TestNext
    PROVE  \/ CallbackEnters
           \/ UNCHANGED count /\ \/ ProcWorks
                                 \/ \E t \in Client : Instructs(t) \/ Calls_EVT(t)
<1>1. ASSUME NEW t \in Client, TestThread(t)
      PROVE  UNCHANGED count /\ (Instructs(t) \/ Calls_EVT(t))
  <2>1. step[t] \in DOMAIN prog[t] /\ StepInv /\ ThreadsInv
    BY <1>1, TheInstr DEF TestThread, TestInv
  <2>2. Instructs(t) \/ Calls_EVT(t)
    BY <1>1, <2>1, InstructSteps, CallStep DEF TestThread
  <2>3. UNCHANGED count
    BY <1>1 DEF TestThread, Call, Start, Join, SemPost, SemWait, Expect, OtherTestVars
  <2> QED
    BY <2>2, <2>3
<1>2. ASSUME Proc, ~CallbackEnters PROVE UNCHANGED count /\ ProcWorks
  <2>1. ~PostNull(EvtProcer) /\ ~PostFull(EvtProcer)
    BY NoBadPost, NoFullPost DEF Thread
  <2> QED
    BY <1>2, <2>1 DEF Proc, CallbackReplies, CallbackPosts, CallbackReturns, ProcWorks
<1>3. ASSUME ProcSkip \/ ProcSpuriousWakeup, UNCHANGED testVars PROVE UNCHANGED count /\ ProcWorks
  BY <1>3 DEF ProcWorks
<1> QED
  BY <1>1, <1>2, <1>3 DEF TestNext

(* As long as the EvtProcer works on an event, it goes from row to row and   *)
(* from EvtID to EvtID, and passes over those that do not match.             *)
LEMMA ScanGoesOn ==
    ASSUME IInv, TestInv, PlacesInv, TableInv, IsUp, HoldsEvent, ProcWorks,
           NEW r \in SubRow, subTable[r] # None, NEW k \in DOMAIN subTable[r].ids,
           NEW m \in Taken, EvtOf[m] = subTable[r].ids[k]
    PROVE  IF HoldsEvent' THEN NotYetCalled(r, k)' <=> NotYetCalled(r, k)
           ELSE ~NotYetCalled(r, k)
<1>1. /\ PcType /\ EvtProcer \in Thread /\ EvtProcer \notin Client /\ ScanType
      /\ SubMax \in Nat /\ r \in 0 .. SubMax - 1 /\ r \in Nat /\ row \in Nat /\ nth \in Nat
      /\ CallbackInv /\ SubRow = 0 .. SubMax - 1
  BY Types, EvtMangerAssumption DEF Thread, SubRow, ScanType, IInv
<1>2. /\ k \in 1 .. Len(subTable[r].ids) /\ Len(subTable[r].ids) \in Nat /\ k \in Nat /\ 1 <= k
      /\ k <= Len(subTable[r].ids)
  <2>1. DOMAIN subTable[r].ids = 1 .. Len(subTable[r].ids) /\ Len(subTable[r].ids) \in Nat
    BY TheRow
  <2> QED
    BY <2>1
<1> USE <1>1 DEF PcType, Goto, HoldsEvent
<1>3. CASE ProcLock
  BY <1>2, <1>3 DEF ProcLock, NotYetCalled
<1>4. CASE ProcDone
  BY <1>2, <1>4 DEF ProcDone, NotYetCalled
<1>5. CASE ProcSkip
  <2>1. /\ pc[EvtProcer] = "scan" /\ pc'[EvtProcer] = "scan" /\ row \in SubRow
        /\ ~MatchesHere /\ NextEvtID
    BY <1>5 DEF ProcSkip
  <2>2. CASE subTable[row] # None /\ nth < Len(subTable[row].ids)
    <3>1. row' = row /\ nth' = nth + 1
      BY <2>1, <2>2 DEF NextEvtID
    <3>2. ASSUME r = row, k = nth + 1 PROVE FALSE
      <4>1. m = buf[cur].msg /\ m \in events
        BY DEF Taken, PlacesInv
      <4>2. IsMatch(subTable[r].ids[k], EvtOf[m])
        BY <4>1, TheRow
      <4> QED
        BY <2>1, <2>2, <3>2, <4>1, <4>2 DEF MatchesHere
    <3>3. ~(r = row /\ k = nth + 1)
      BY <3>2
    <3> QED
      BY <1>2, <2>1, <3>1, <3>3 DEF NotYetCalled
  <2>3. CASE ~(subTable[row] # None /\ nth < Len(subTable[row].ids))
    <3>1. row' = row + 1 /\ nth' = 0
      BY <2>1, <2>3 DEF NextEvtID
    <3>2. r = row => ~(nth < Len(subTable[r].ids))
      BY <2>3
    <3> QED
      BY <1>2, <2>1, <3>1, <3>2 DEF NotYetCalled
  <2> QED
    BY <2>2, <2>3
<1>6. CASE ProcCbReturn
  <2>1. pc[EvtProcer] = "cb" /\ pc'[EvtProcer] = "scan" /\ NextEvtID
    BY <1>6 DEF ProcCbReturn
  <2>2. subTable[row] # None /\ nth < Len(subTable[row].ids)
    BY <2>1 DEF CallbackInv, InCallback
  <2>3. row' = row /\ nth' = nth + 1
    BY <2>1, <2>2 DEF NextEvtID
  <2> QED
    BY <1>2, <2>1, <2>3 DEF NotYetCalled
<1>7. ASSUME \/ \E n \in Msg : PostCheck(EvtProcer, n)
             \/ PostEnqueue(EvtProcer) \/ PostSignal(EvtProcer)
      PROVE  /\ UNCHANGED <<row, nth>> /\ HoldsEvent'
             /\ pc[EvtProcer] \notin {"lock", "scan"} /\ pc'[EvtProcer] \notin {"lock", "scan"}
  BY <1>7 DEF PostCheck, PostEnqueue, PostSignal, PostReturn, ReturnTo, AtQueue
<1>8. CASE \/ \E n \in Msg : PostCheck(EvtProcer, n)
           \/ PostEnqueue(EvtProcer) \/ PostSignal(EvtProcer)
  BY <1>7, <1>8 DEF NotYetCalled
<1>9. ~ProcWait /\ ~ProcTake /\ ~ProcCancelledInWait /\ ~ProcSpuriousWakeup
  BY DEF ProcWait, ProcTake, ProcCancelledInWait, ProcSpuriousWakeup
<1> QED
  BY <1>3, <1>4, <1>5, <1>6, <1>8, <1>9 DEF ProcWorks

\* Unless a callback is called, nothing changes in what is left for one.
LEMMA LeftSame ==
    ASSUME IInv, TestInv, LoadInv, PlacesInv, TableInv, TestNext, procQueue # None, procQueue' # None,
           ProcWorks \/ \E t \in Client : Instructs(t) \/ Calls_EVT(t),
           NEW r \in SubRow, subTable[r] # None, NEW k \in DOMAIN subTable[r].ids
    PROVE  LeftFor(r, k)' = LeftFor(r, k)
<1>1. /\ IsUp /\ subTable' = subTable /\ PcType /\ EvtProcer \in Thread
  BY MainIsAt, TablesStand, Types DEF Thread
<1> DEFINE e     == subTable[r].ids[k]
           now   == IF NotYetCalled(r, k) THEN Taken ELSE {}
           after == IF NotYetCalled(r, k)' THEN Taken' ELSE {}
<1>2. /\ LeftFor(r, k) = {m \in Waiting \cup now : EvtOf[m] = e}
      /\ LeftFor(r, k)' = {m \in Waiting' \cup after : EvtOf[m] = e}
  BY <1>1 DEF LeftFor
<1>3. SUFFICES {m \in Waiting' \cup after : EvtOf[m] = e} = {m \in Waiting \cup now : EvtOf[m] = e}
  BY <1>2
<1>4. CASE IsTaken
  <2>1. Waiting' \cup Taken' = Waiting /\ Taken = {} /\ Taken' # {}
    BY <1>4, BehindTaken
  <2>2. HoldsEvent' /\ ~HoldsEvent
    BY <2>1 DEF Taken
  <2>3. [Next]_vars
    BY TestRunsManger
  <2>4. pc'[EvtProcer] = "lock"
    <3>1. CASE Next
      BY <1>1, <2>2, <3>1, HoldsSince DEF ProcTake, Goto, PcType
    <3>2. CASE UNCHANGED vars
      BY <2>2, <3>2 DEF HoldsEvent
    <3> QED
      BY <2>3, <3>1, <3>2
  <2>5. NotYetCalled(r, k)'
    BY <2>4 DEF NotYetCalled
  <2> QED
    BY <2>1, <2>5
<1>5. CASE Waiting' = Waiting /\ (Taken' = Taken \/ Taken' = {})
  <2>1. CASE ~HoldsEvent
    <3>1. Taken = {}
      BY <2>1 DEF Taken
    <3> QED
      BY <1>5, <3>1
  <2>2. CASE HoldsEvent
    <3>1. ASSUME NEW t \in Client, Instructs(t) \/ Calls_EVT(t)
          PROVE  HoldsEvent' /\ (NotYetCalled(r, k)' <=> NotYetCalled(r, k))
      BY <2>2, <3>1, ProcerUndisturbed DEF HoldsEvent, NotYetCalled
    <3>2. ASSUME NEW m \in Taken, EvtOf[m] = e
          PROVE  IF HoldsEvent' THEN NotYetCalled(r, k)' <=> NotYetCalled(r, k)
                 ELSE ~NotYetCalled(r, k)
      BY <1>1, <2>2, <3>1, <3>2, ScanGoesOn
    <3>3. ASSUME HoldsEvent' PROVE Taken' = Taken
      <4>1. Taken' # {}
        BY <3>3 DEF Taken
      <4> QED
        BY <1>5, <4>1
    <3>4. ~HoldsEvent' => Taken' = {}
      BY DEF Taken
    <3> QED
      BY <1>5, <3>2, <3>3, <3>4
  <2> QED
    BY <2>1, <2>2
<1>6. \/ \E m \in Msg : Comes(m) \/ IsQueued(m)
      \/ IsTaken \/ Stays
  BY EventMoves DEF IsMade, IsFreed
<1>7. ASSUME NEW m \in Msg, Comes(m) \/ IsQueued(m)
      PROVE  Waiting' = Waiting /\ Taken' = Taken
  BY <1>7, BehindComes, BehindQueued DEF Comes, IsQueued
<1>8. ASSUME Stays PROVE Waiting' = Waiting /\ (Taken' = Taken \/ Taken' = {})
  BY <1>8, BehindStays DEF Stays
<1> QED
  BY <1>4, <1>5, <1>6, <1>7, <1>8

\* A callback is called for the event the EvtProcer holds, which its row names.
LEMMA CalledFor ==
    ASSUME IInv, TestInv, PlacesInv, TableInv, CallbackEnters, IsUp
    PROVE  /\ row \in SubRow /\ subTable[row] # None /\ nth \in Nat
           /\ nth + 1 \in DOMAIN subTable[row].ids /\ subTable[row].ids[nth + 1] = Current
           /\ TheSuber \in Oper /\ subTable[row].suber = operID[TheSuber]
           /\ pc[EvtProcer] = "scan" /\ HoldsEvent /\ Taken = {buf[cur].msg}
           /\ buf[cur].msg \in events /\ buf[cur].msg \notin Waiting
<1>1. row \in SubRow /\ MatchesHere /\ pc[EvtProcer] = "scan" /\ nth \in Nat
  BY Types DEF CallbackEnters, ProcCall, ScanType
<1>2. HoldsEvent
  BY <1>1 DEF HoldsEvent
<1>3. Taken = {buf[cur].msg} /\ buf[cur].msg \in events /\ buf[cur].msg \notin Waiting
  BY <1>2 DEF Taken, PlacesInv
<1>4. /\ subTable[row] # None /\ nth < Len(subTable[row].ids)
      /\ IsMatch(subTable[row].ids[nth + 1], Current)
  BY <1>1 DEF MatchesHere, Current
<1>5. \E y \in Oper : operID[y] = subTable[row].suber
  BY <1>1, <1>4, TheRow
<1>6. subTable[row].suber = operID[TheSuber] /\ TheSuber \in Oper
  BY <1>5 DEF TheSuber
<1>7. nth + 1 \in DOMAIN subTable[row].ids
  <2>1. DOMAIN subTable[row].ids = 1 .. Len(subTable[row].ids) /\ Len(subTable[row].ids) \in Nat
    BY <1>1, <1>4, TheRow
  <2> QED
    BY <1>1, <1>4, <2>1
<1>8. subTable[row].ids[nth + 1] = Current
  BY <1>1, <1>3, <1>4, <1>7, TheRow DEF Current
<1> QED
  BY <1>1, <1>2, <1>3, <1>4, <1>6, <1>7, <1>8

\* A callback counts the event it is called for, which is no more left for it.
LEMMA CallbackCounts ==
    ASSUME IInv, TestInv, PlacesInv, TableInv, CallbackEnters, IsUp,
           NEW x \in Oper, NEW r \in RowsOf(operID[x]), NEW k \in DOMAIN subTable[r].ids
    PROVE  LET e == subTable[r].ids[k]
           IN  IF x = TheSuber /\ e = Current
               THEN \E m \in LeftFor(r, k) : LeftFor(r, k)' = LeftFor(r, k) \ {m}
               ELSE LeftFor(r, k)' = LeftFor(r, k)
<1>1. /\ PcType /\ EvtProcer \in Thread /\ ScanType /\ row \in SubRow /\ MatchesHere
      /\ pc[EvtProcer] = "scan" /\ pc' = [pc EXCEPT ![EvtProcer] = "cb"]
      /\ UNCHANGED <<mgrVars, psVars, procQueue, ringVars, scanVars, callVars, step, operID>>
      /\ EvtProcer \notin Client /\ nth \in Nat /\ row \in Nat /\ SubRow = 0 .. SubMax - 1
  BY Types, EvtMangerAssumption DEF Thread, CallbackEnters, ProcCall, Goto, ScanType, SubRow
<1>2. r \in SubRow /\ subTable[r] # None /\ subTable[r].suber = operID[x] /\ r \in Nat
  BY <1>1 DEF RowsOf
<1>3. HoldsEvent /\ HoldsEvent'
  BY <1>1 DEF HoldsEvent, PcType
<1>4. Taken = {buf[cur].msg} /\ Taken' = Taken /\ buf[cur].msg \in events
      /\ buf[cur].msg \notin Waiting
  BY <1>1, <1>3, CalledFor DEF Taken
<1>5. Posting' = Posting
  BY <1>1 DEF Posting, PcType
<1>6. Waiting' = Waiting
  BY <1>1, <1>5 DEF Waiting, Behind, Entering, InQueue
<1>7. subTable[row] # None /\ subTable[row].suber = operID[TheSuber] /\ TheSuber \in Oper
  BY CalledFor
<1>8. nth + 1 \in DOMAIN subTable[row].ids /\ subTable[row].ids[nth + 1] = Current
  BY CalledFor
<1>9. k \in Nat
  <2>1. DOMAIN subTable[r].ids = 1 .. Len(subTable[r].ids)
        /\ Len(subTable[r].ids) \in Nat
    BY <1>2, TheRow
  <2> QED
    BY <2>1
<1>10. LeftFor(r, k)' = {m \in Waiting \cup (IF NotYetCalled(r, k)' THEN Taken ELSE {}) :
                            EvtOf[m] = subTable[r].ids[k]}
  BY <1>1, <1>4, <1>6 DEF LeftFor
<1>11. pc'[EvtProcer] = "cb" /\ row' = row /\ nth' = nth
  BY <1>1 DEF PcType
<1>12. CASE r = row /\ k = nth + 1
  <2>1. x = TheSuber
    BY <1>1, <1>2, <1>7, <1>12, TheRow
  <2>2. NotYetCalled(r, k) /\ ~NotYetCalled(r, k)'
    BY <1>1, <1>9, <1>11, <1>12 DEF NotYetCalled
  <2>3. subTable[r].ids[k] = Current /\ EvtOf[buf[cur].msg] = Current
    BY <1>8, <1>12 DEF Current
  <2>4. LeftFor(r, k) = {m \in Waiting \cup Taken : EvtOf[m] = Current}
    BY <2>2, <2>3 DEF LeftFor
  <2>5. LeftFor(r, k)' = {m \in Waiting : EvtOf[m] = Current}
    BY <1>10, <2>2, <2>3
  <2>6. buf[cur].msg \in LeftFor(r, k) /\ LeftFor(r, k)' = LeftFor(r, k) \ {buf[cur].msg}
    BY <1>4, <2>3, <2>4, <2>5
  <2> QED
    BY <2>1, <2>3, <2>6
<1>13. CASE ~(r = row /\ k = nth + 1)
  <2>1. ~(x = TheSuber /\ subTable[r].ids[k] = Current)
    <3>1. ASSUME x = TheSuber PROVE r = row
      <4>1. subTable[r].suber = subTable[row].suber
        BY <1>2, <1>7, <3>1
      <4> QED
        BY <1>1, <1>2, <1>7, <4>1 DEF TestInv, SubInv
    <3>2. ASSUME r = row, subTable[r].ids[k] = Current PROVE k = nth + 1
      BY <1>1, <1>2, <1>8, <3>2, TheRow
    <3> QED
      BY <1>13, <3>1, <3>2
  <2>2. NotYetCalled(r, k)' <=> NotYetCalled(r, k)
    BY <1>1, <1>2, <1>9, <1>11, <1>13 DEF NotYetCalled
  <2>3. LeftFor(r, k)' = LeftFor(r, k)
    BY <1>10, <2>2 DEF LeftFor
  <2> QED
    BY <2>1, <2>3
<1> QED
  BY <1>12, <1>13

LEMMA CountInvNext ==
    ASSUME IInv, TestInv, LoadInv, BeforeInv, PlacesInv, TableInv, CountInv, TestNext
    PROVE  CountInv'
<1>1. /\ IInv' /\ TestInv' /\ PlacesInv' /\ TableInv' /\ BeforeInv'
      /\ prog' = prog /\ events' = events /\ StepInv
  BY TestRunsManger, NextIInv, TestInvNext, PlacesInvNext, TableInvNext, BeforeInvNext, SameTest
     DEF TestInv
<1>2. count' \in [Oper \X EvtID -> Nat]
  <2>1. count \in [Oper \X EvtID -> Nat]
    BY DEF CountInv
  <2>2. CASE UNCHANGED count
    BY <2>1, <2>2
  <2>3. CASE CallbackEnters
    <3>1. count' = [count EXCEPT ![<<TheSuber, Current>>] = @ + 1]
      BY <2>3 DEF CallbackEnters
    <3>2. PICK i : count' = [count EXCEPT ![i] = @ + 1]
      BY <3>1
    <3>3. \A j \in Oper \X EvtID : count'[j] \in Nat
      BY <2>1, <3>2
    <3> QED
      BY <2>1, <3>2, <3>3
  <2> QED
    BY <2>2, <2>3, CountSteps
<1>3. SUFFICES ASSUME IsUp', NEW x \in Oper, NEW r \in RowsOf(operID[x])',
                      NEW k \in DOMAIN (subTable[r].ids)'
               PROVE  Accounted(x, r, k)'
  BY <1>2 DEF CountInv
<1>4. IsUp
  BY <1>3, UpBefore
<1>5. ASSUME events' \subseteq Waiting', Taken' = {},
             \A y \in Oper, e \in EvtID : count'[<<y, e>>] = 0
      PROVE  Accounted(x, r, k)'
  <2>1. (NoneMoved => AllAccounted)'
    BY AllLeft, PTL
  <2> QED
    BY <1>1, <1>3, <1>5, <2>1 DEF NoneMoved, AllAccounted
<1>6. CASE step'["main"] <= EnabledAt(prog')
  <2>1. /\ unposted' = events' /\ pc'[EvtProcer] = "none"
        /\ \A y \in Oper, e \in EvtID : count'[<<y, e>>] = 0
    BY <1>1, <1>6 DEF BeforeInv
  <2>2. Taken' = {}
    BY <2>1 DEF Taken, HoldsEvent
  <2>3. events' \subseteq Waiting'
    BY <2>1 DEF Waiting, Behind, Entering
  <2> QED
    BY <1>5, <2>1, <2>2, <2>3
<1>7. CASE IsMade
  <2>1. step["main"] <= EnabledAt(prog)
    BY <1>7, MainIsAt DEF IsMade
  <2>2. /\ unposted = events /\ pc[EvtProcer] = "none"
        /\ \A y \in Oper, e \in EvtID : count[<<y, e>>] = 0
    BY <2>1 DEF BeforeInv
  <2>3. UNCHANGED count
    BY <2>2, CountSteps DEF CallbackEnters, ProcCall
  <2>4. Taken' = {} /\ InQueue' = <<>> /\ UNCHANGED <<unposted, Posting>>
    BY <1>7 DEF IsMade
  <2>5. Waiting' = Entering
    BY <2>4, BehindNone
  <2>6. events' \subseteq Waiting'
    BY <1>1, <2>2, <2>5 DEF Entering
  <2> QED
    BY <1>5, <2>2, <2>3, <2>4, <2>6
<1>8. CASE ~(step'["main"] <= EnabledAt(prog')) /\ ~IsMade
  <2>1. (TestInv => (procQueue # None <=> EnabledAt(prog) < step["main"] /\ IsUp))'
    BY MainIsAt, PTL
  <2>2. procQueue' # None
    BY <1>1, <1>3, <1>8, <2>1, UpBefore, MainIsAt
  <2>3. procQueue # None
    <3>1. procQueue' = procQueue \/ IsFreed
      BY <1>8, EventMoves
    <3> QED
      BY <2>2, <3>1 DEF IsFreed
  <2>4. UNCHANGED <<subTable, operID, case, objs>>
    BY <2>3, TablesStand, SameTest DEF TestInv
  <2>5. r \in RowsOf(operID[x]) /\ k \in DOMAIN subTable[r].ids
    BY <1>3, <2>4 DEF RowsOf
  <2>6. r \in SubRow /\ subTable[r] # None
    BY <2>5 DEF RowsOf
  <2> DEFINE e == subTable[r].ids[k]
  <2>7. (subTable[r].ids[k])' = e /\ e \in EvtID
    BY <1>4, <2>4, <2>5, <2>6, TheRow
  <2>8. /\ count[<<x, e>>] + Cardinality(LeftFor(r, k)) = Total(e)
        /\ count \in [Oper \X EvtID -> Nat]
    BY <1>4, <2>5 DEF CountInv, Accounted
  <2>9. ASSUME count'[<<x, e>>] + Cardinality(LeftFor(r, k)') = Total(e)
        PROVE  Accounted(x, r, k)'
    BY <2>4, <2>9 DEF Accounted, Total
  <2>10. CASE CallbackEnters
    <3>1. count' = [count EXCEPT ![<<TheSuber, Current>>] = @ + 1]
      BY <2>10 DEF CallbackEnters
    <3>2. IF x = TheSuber /\ e = Current
          THEN \E m \in LeftFor(r, k) : LeftFor(r, k)' = LeftFor(r, k) \ {m}
          ELSE LeftFor(r, k)' = LeftFor(r, k)
      BY <1>4, <2>5, <2>10, CallbackCounts
    <3>3. IsFiniteSet(LeftFor(r, k)) /\ Cardinality(LeftFor(r, k)) \in Nat
      <4>1. LeftFor(r, k) \subseteq events /\ IsFiniteSet(events)
        BY EventsOfTest DEF LeftFor, PlacesInv, TestInv
      <4> QED
        BY <4>1, FS_Subset, FS_CardinalityType
    <3> HIDE DEF TheSuber, Current, e
    <3>4. <<x, e>> \in Oper \X EvtID
      BY <2>7
    <3>5. CASE x = TheSuber /\ e = Current
      <4>1. count'[<<x, e>>] = count[<<x, e>>] + 1
        BY <2>8, <3>1, <3>4, <3>5
      <4>2. Cardinality(LeftFor(r, k)') = Cardinality(LeftFor(r, k)) - 1
        BY <3>2, <3>3, <3>5, FS_RemoveElement
      <4>3. count[<<x, e>>] \in Nat
        BY <2>8, <3>4
      <4> QED
        BY <2>8, <2>9, <3>3, <4>1, <4>2, <4>3
    <3>6. CASE ~(x = TheSuber /\ e = Current)
      <4>1. count'[<<x, e>>] = count[<<x, e>>]
        BY <2>8, <3>1, <3>4, <3>6
      <4> QED
        BY <2>8, <2>9, <3>2, <3>6, <4>1
    <3> QED
      BY <3>5, <3>6
  <2>11. CASE UNCHANGED count /\ (ProcWorks \/ \E t \in Client : Instructs(t) \/ Calls_EVT(t))
    <3>1. LeftFor(r, k)' = LeftFor(r, k)
      BY <2>2, <2>3, <2>5, <2>6, <2>11, LeftSame
    <3> QED
      BY <2>8, <2>9, <2>11, <3>1
  <2> QED
    BY <2>10, <2>11, CountsWhenCalled
<1> QED
  BY <1>6, <1>7, <1>8

-----------------------------------------------------------------------------
(* The threads leave room in the queue for the answers.                      *)

Load == num + Cardinality(Posters)

LEMMA LoadMoves ==
    ASSUME IInv, TestInv, LoadInv, [Next]_vars
    PROVE  /\ Load \in Nat /\ Load' \in Nat /\ num \in Nat /\ num' \in Nat
           /\ \/ \E t \in Client : \E m \in Msg : PostCheck(t, m) /\ Load' = Load + 1
              \/ PostEnqueue(EvtProcer) /\ Load' = Load + 1
              \/ Load' <= Load /\ (ProcTake => Load' <= Load - 1)
<1>1. /\ IsFiniteSet(Posters) /\ Cardinality(Posters) \in Nat /\ num \in Nat
      /\ pc \in [Thread -> ClientPc \cup ProcPc] /\ EvtProcer \notin Client
      /\ Client \subseteq Thread /\ EvtProcer \in Thread
  BY FewPosters, Types, EvtMangerAssumption DEF RingType, PcType, Thread
<1>2. num' \in Nat /\ Cardinality(Posters') \in Nat
  <2>1. (IInv => RingType)'
    BY Types, PTL
  <2>2. IInv'
    BY NextIInv
  <2>3. (Cardinality(Posters) \in Nat)'
    BY FewPosters, PTL
  <2> QED
    BY <2>1, <2>2, <2>3 DEF RingType
<1>3. ASSUME NEW t \in Thread, NEW m \in Msg, PostCheck(t, m)
      PROVE  IF t \in Client THEN Load' = Load + 1 ELSE Load' = Load
  <2>1. num' = num /\ pc' = [pc EXCEPT ![t] = "post"] /\ (t \in Client => pc[t] = "idle")
    BY <1>3 DEF PostCheck, Goto
  <2>2. CASE t \in Client
    <3>1. t \notin Posters /\ Posters' = Posters \cup {t}
      BY <1>1, <2>1, <2>2 DEF Posters
    <3>2. Cardinality(Posters') = Cardinality(Posters) + 1
      BY <1>1, <3>1, FS_AddElement
    <3> QED
      BY <1>1, <1>2, <2>1, <2>2, <3>2 DEF Load
  <2>3. CASE t \notin Client
    <3>1. Posters' = Posters
      BY <1>1, <2>1, <2>3 DEF Posters
    <3> QED
      BY <1>1, <2>1, <2>3, <3>1 DEF Load
  <2> QED
    BY <2>2, <2>3
<1>4. ASSUME NEW t \in Thread, PostEnqueue(t)
      PROVE  IF t \in Client THEN Load' = Load ELSE t = EvtProcer /\ Load' = Load + 1
  <2>1. num' = num + 1 /\ pc' = [pc EXCEPT ![t] = "signal"] /\ pc[t] = "post"
    BY <1>4 DEF PostEnqueue, Goto, AtQueue
  <2>2. CASE t \in Client
    <3>1. t \in Posters /\ Posters' = Posters \ {t}
      BY <1>1, <2>1, <2>2 DEF Posters
    <3>2. Cardinality(Posters') = Cardinality(Posters) - 1
      BY <1>1, <3>1, FS_RemoveElement
    <3> QED
      BY <1>1, <1>2, <2>1, <2>2, <3>2 DEF Load
  <2>3. CASE t \notin Client
    <3>1. Posters' = Posters /\ t = EvtProcer
      BY <1>1, <2>1, <2>3 DEF Posters, Thread
    <3> QED
      BY <1>1, <2>1, <2>3, <3>1 DEF Load
  <2> QED
    BY <2>2, <2>3
<1>5. ASSUME \A t \in Thread : ~PostEnqueue(t), \A t \in Thread : \A m \in Msg : ~PostCheck(t, m)
      PROVE  Load' <= Load /\ (ProcTake => Load' <= Load - 1)
  <2>1. num' <= num
    BY <1>5, EventSteps
  <2>2. Posters' \subseteq Posters
    BY <1>1, <1>5, PostsSince DEF Posters, InPost
  <2>3. Cardinality(Posters') <= Cardinality(Posters)
    BY <1>1, <2>2, FS_Subset
  <2>4. ProcTake => num' = num - 1
    BY DEF ProcTake
  <2> QED
    BY <1>1, <1>2, <2>1, <2>3, <2>4 DEF Load
<1>6. ProcTake => (\A t \in Thread : ~PostEnqueue(t)) /\ \A t \in Thread : \A m \in Msg : ~PostCheck(t, m)
  <2>1. ASSUME ProcTake PROVE num' = num - 1
    BY <2>1 DEF ProcTake
  <2> QED
    BY <1>1, <2>1 DEF PostEnqueue, PostCheck
<1> QED
  BY <1>1, <1>2, <1>3, <1>4, <1>5, <1>6 DEF Load

(* A thread posts when the EvtProcer keeps up.                               *)
LEMMA PostsInTime ==
    ASSUME IInv, TestInv, TestNext, NEW t \in Client, NEW m \in Msg, PostCheck(t, m)
    PROVE  KeepsUp
<1>1. pc[t] = "idle" /\ pc'[t] = "post"
  <2>1. pc \in [Thread -> ClientPc \cup ProcPc] /\ t \in Thread
    BY Types DEF PcType, Thread
  <2> QED
    BY <2>1 DEF PostCheck, Goto
<1>2. Calls_EVT(t)
  BY <1>1, OwnCalls
<1>3. Instr(t).do = "post"
  BY <1>1, <1>2, CallMoves
<1>4. PLT_EVT(t)
  BY <1>2 DEF Calls_EVT, Call
<1> QED
  BY <1>1, <1>3, <1>4 DEF PLT_EVT, At, PostNull, PostToFreed, PostFull, PostEnqueue, PostSignal,
     AtQueue

(* While the EvtProcer holds an event, this and the rows stay.               *)
LEMMA HeldStays ==
    ASSUME IInv, TestInv, LoadInv, PlacesInv, TestNext, HoldsEvent, HoldsEvent'
    PROVE  /\ IsUp /\ Taken' = Taken /\ Current' = Current /\ buf[cur].msg \in events
           /\ UNCHANGED <<subTable, operID, case, objs>>
           /\ \A r, k : Answers(r, k)' <=> Answers(r, k)
<1>1. procQueue # None
  BY DEF IInv, QueueOutlivesProcer, HoldsEvent, IsActive
<1>2. IsUp /\ UNCHANGED <<subTable, operID, case, objs>>
  BY <1>1, MainIsAt, TablesStand, SameTest
<1>3. Taken = {buf[cur].msg} /\ Taken' = {buf'[cur'].msg}
  BY DEF Taken
<1>4. Taken' = Taken
  BY <1>1, <1>3, EventMoves DEF Comes, IsQueued, IsTaken, Stays, IsMade, IsFreed
<1>5. Current' = Current
  BY <1>3, <1>4 DEF Current
<1>6. buf[cur].msg \in events
  BY <1>3 DEF PlacesInv
<1>7. \A r, k : Answers(r, k)' <=> Answers(r, k)
  BY <1>2, <1>5 DEF Answers, SuberOf
<1> QED
  BY <1>2, <1>4, <1>5, <1>6, <1>7

(* Only one of the callbacks has an answer to an event.                      *)
LEMMA OneToAnswer ==
    ASSUME IInv, TestInv, TableInv, IsUp,
           NEW q \in SubRow, subTable[q] # None, NEW l \in DOMAIN subTable[q].ids, Answers(q, l),
           NEW r \in SubRow, subTable[r] # None, NEW k \in DOMAIN subTable[r].ids, Answers(r, k)
    PROVE  q = r /\ l = k
<1>1. /\ subTable[q].ids[l] = Current /\ Reply(case, SuberOf(q), Current) # None
      /\ subTable[r].ids[k] = Current /\ Reply(case, SuberOf(r), Current) # None
  BY DEF Answers
<1>2. /\ SuberOf(q) \in Oper /\ operID[SuberOf(q)] = subTable[q].suber
      /\ SuberOf(r) \in Oper /\ operID[SuberOf(r)] = subTable[r].suber
  BY TheRow DEF SuberOf
<1>3. Current \in EvtID
  BY <1>1, TheRow
<1>4. SuberOf(q) = SuberOf(r)
  BY <1>1, <1>2, <1>3, EventsOfTest DEF OneAnswers, TestInv
<1>5. q = r
  BY <1>2, <1>4 DEF TestInv, SubInv
<1> QED
  BY <1>1, <1>5, TheRow

\* The steps while it holds one.
LEMMA HeldSteps ==
    ASSUME IInv, TestInv, LoadInv, TestNext, HoldsEvent, HoldsEvent'
    PROVE  \/ CallbackEnters \/ CallbackReplies
           \/ UNCHANGED replied /\ \/ PostEnqueue(EvtProcer) \/ PostSignal(EvtProcer)
                                   \/ ProcCbReturn \/ ProcLock \/ ProcSkip
                                   \/ \E t \in Client : Instructs(t) \/ Calls_EVT(t)
<1>1. ASSUME NEW t \in Client, TestThread(t)
      PROVE  UNCHANGED replied /\ (Instructs(t) \/ Calls_EVT(t))
  <2>1. step[t] \in DOMAIN prog[t] /\ StepInv /\ ThreadsInv
    BY <1>1, TheInstr DEF TestThread, TestInv
  <2>2. Instructs(t) \/ Calls_EVT(t)
    BY <1>1, <2>1, InstructSteps, CallStep DEF TestThread
  <2>3. UNCHANGED replied
    BY <1>1 DEF TestThread, Call, Start, Join, SemPost, SemWait, Expect, OtherTestVars
  <2> QED
    BY <2>2, <2>3
<1>2. ~PostNull(EvtProcer) /\ ~PostFull(EvtProcer)
  BY NoBadPost, NoFullPost DEF Thread
<1>3. ~ProcDone
  <2>1. PcType /\ EvtProcer \in Thread
    BY Types DEF Thread
  <2> QED
    BY <2>1 DEF ProcDone, Goto, PcType, HoldsEvent
<1>4. ~ProcWait /\ ~ProcTake /\ ~ProcCancelledInWait /\ ~ProcSpuriousWakeup
  BY DEF ProcWait, ProcTake, ProcCancelledInWait, ProcSpuriousWakeup, HoldsEvent
<1> QED
  BY <1>1, <1>2, <1>3, <1>4 DEF TestNext, Proc, CallbackPosts, CallbackReturns

(* What the EvtProcer does with an event makes no callback owe an answer     *)
(* again; and its answer is no more due when it is in the queue.             *)
IsDue(r, k) == r \in SubRow /\ subTable[r] # None /\ k \in DOMAIN subTable[r].ids /\ Answers(r, k)
Answering ==
    /\ InCallback => subTable[row].ids[nth + 1] = Current
    /\ pc[EvtProcer] \in {"post", "signal"} => replied
    /\ pc[EvtProcer] = "post" => Reply(case, TheSuber, Current) # None

LEMMA NoNewAnswer ==
    ASSUME IInv, TestInv, LoadInv, PlacesInv, TableInv, TestNext, HoldsEvent, HoldsEvent'
    PROVE  /\ AnswerDue' => AnswerDue
           /\ PostEnqueue(EvtProcer) => ~AnswerDue'
           /\ Answering'
<1>1. /\ IsUp /\ Taken' = Taken /\ Current' = Current /\ buf[cur].msg \in events
      /\ UNCHANGED <<subTable, operID, case, objs>>
      /\ \A r, k : Answers(r, k)' <=> Answers(r, k)
  BY HeldStays
<1>2. /\ PcType /\ EvtProcer \in Thread /\ EvtProcer \notin Client /\ row \in Nat /\ nth \in Nat
      /\ \A r \in SubRow : r \in Nat
  BY Types, EvtMangerAssumption DEF Thread, ScanType, SubRow
<1>3. \A r, k : IsDue(r, k) => k \in Nat /\ 1 <= k
  <2>1. \A r \in SubRow : subTable[r] # None => DOMAIN subTable[r].ids = 1 .. Len(subTable[r].ids)
    BY <1>1, TheRow
  <2> QED
    BY <2>1 DEF IsDue
<1>4. Answering
  BY DEF LoadInv, Answering
<1>5. Taken = {buf[cur].msg} /\ Current = EvtOf[buf[cur].msg]
  BY DEF Taken, Current
<1>6. ASSUME \A r, k : IsDue(r, k) /\ ToAnswer(r, k)' => ToAnswer(r, k)
      PROVE  AnswerDue' => AnswerDue
  BY <1>1, <1>6 DEF AnswerDue, IsDue
<1>7. ASSUME row' = row PROVE TheSuber' = TheSuber
  BY <1>1, <1>7 DEF TheSuber
<1>8. ASSUME ProcWorks, NEW r, NEW k, IsDue(r, k) PROVE NotYetCalled(r, k)' <=> NotYetCalled(r, k)
  BY <1>1, <1>5, <1>8, ScanGoesOn DEF IsDue, Answers
<1> USE <1>2 DEF PcType, Goto
<1>9. ASSUME NEW t \in Client, Instructs(t) \/ Calls_EVT(t), UNCHANGED replied
      PROVE  (AnswerDue' => AnswerDue) /\ ~PostEnqueue(EvtProcer) /\ Answering'
  <2>1. pc'[EvtProcer] = pc[EvtProcer] /\ UNCHANGED <<cur, row, nth>>
    BY <1>9, ProcerUndisturbed
  <2>2. \A r, k : ToAnswer(r, k)' <=> ToAnswer(r, k)
    BY <1>9, <2>1 DEF ToAnswer, NotYetCalled
  <2>3. ~PostEnqueue(EvtProcer)
    BY <2>1 DEF PostEnqueue, AtQueue
  <2>4. Answering'
    BY <1>1, <1>4, <1>7, <1>9, <2>1 DEF Answering, InCallback
  <2> QED
    BY <1>6, <2>2, <2>3, <2>4
<1>10. ASSUME CallbackEnters
       PROVE  (AnswerDue' => AnswerDue) /\ ~PostEnqueue(EvtProcer) /\ Answering'
  <2>1. /\ pc[EvtProcer] = "scan" /\ pc'[EvtProcer] = "cb" /\ UNCHANGED <<row, nth>>
        /\ subTable[row].ids[nth + 1] = Current
    BY <1>1, <1>10, CalledFor DEF CallbackEnters, ProcCall
  <2>2. \A r, k : ToAnswer(r, k)' => ToAnswer(r, k)
    BY <2>1 DEF ToAnswer, NotYetCalled
  <2>3. Answering'
    BY <1>1, <2>1 DEF Answering
  <2> QED
    BY <1>6, <2>1, <2>2, <2>3 DEF PostEnqueue, AtQueue
<1>11. ASSUME CallbackReplies
       PROVE  (AnswerDue' => AnswerDue) /\ ~PostEnqueue(EvtProcer) /\ Answering'
  <2>1. /\ pc[EvtProcer] = "cb" /\ pc'[EvtProcer] = "post" /\ UNCHANGED <<row, nth>>
        /\ ~replied /\ replied' = TRUE /\ Reply(case, TheSuber, Current) # None
    BY <1>11 DEF CallbackReplies, PostCheck, OwesReply
  <2>2. \A r, k : ToAnswer(r, k)' => ToAnswer(r, k)
    BY <2>1 DEF ToAnswer, NotYetCalled
  <2>3. Answering'
    BY <1>1, <1>4, <1>7, <2>1 DEF Answering, InCallback
  <2> QED
    BY <1>6, <2>1, <2>2, <2>3 DEF PostEnqueue, AtQueue
<1>12. ASSUME PostEnqueue(EvtProcer), UNCHANGED replied
       PROVE  ~AnswerDue' /\ Answering'
  <2>1. /\ pc[EvtProcer] = "post" /\ pc'[EvtProcer] = "signal" /\ UNCHANGED <<row, nth>>
    BY <1>12 DEF PostEnqueue, AtQueue
  <2>2. Answering'
    BY <1>1, <1>4, <1>12, <2>1 DEF Answering, InCallback
  <2>3. /\ row \in SubRow /\ subTable[row] # None /\ nth < Len(subTable[row].ids)
        /\ subTable[row].ids[nth + 1] = Current /\ Reply(case, TheSuber, Current) # None
    BY <1>4, <2>1 DEF IInv, CallbackInv, InCallback, Answering
  <2>4. nth + 1 \in DOMAIN subTable[row].ids
    <3>1. DOMAIN subTable[row].ids = 1 .. Len(subTable[row].ids) /\ Len(subTable[row].ids) \in Nat
      BY <1>1, <2>3, TheRow
    <3> QED
      BY <2>3, <3>1
  <2>5. Answers(row, nth + 1)
    BY <2>3 DEF Answers, TheSuber, SuberOf
  <2>6. ASSUME NEW r, NEW k, IsDue(r, k), ToAnswer(r, k)' PROVE FALSE
    <3>1. r = row /\ k = nth + 1
      BY <1>1, <2>3, <2>4, <2>5, <2>6, OneToAnswer DEF IsDue
    <3> QED
      BY <2>1, <2>6, <3>1 DEF ToAnswer, NotYetCalled
  <2>7. ~AnswerDue'
    BY <1>1, <2>6 DEF AnswerDue, IsDue
  <2> QED
    BY <2>2, <2>7
<1>13. ASSUME PostSignal(EvtProcer), UNCHANGED replied
       PROVE  (AnswerDue' => AnswerDue) /\ ~PostEnqueue(EvtProcer) /\ Answering'
  <2>1. /\ pc[EvtProcer] = "signal" /\ pc'[EvtProcer] = "cb" /\ UNCHANGED <<row, nth>>
    BY <1>13 DEF PostSignal
  <2>2. \A r, k : ToAnswer(r, k)' => ToAnswer(r, k)
    BY <1>4, <1>13, <2>1 DEF ToAnswer, NotYetCalled, Answering
  <2>3. Answering'
    BY <1>1, <1>4, <2>1 DEF Answering, InCallback
  <2> QED
    BY <1>6, <2>1, <2>2, <2>3 DEF PostEnqueue, AtQueue
<1>14. ASSUME ProcCbReturn \/ ProcLock \/ ProcSkip
       PROVE  (AnswerDue' => AnswerDue) /\ ~PostEnqueue(EvtProcer) /\ Answering'
  <2>1. ProcWorks /\ pc'[EvtProcer] = "scan" /\ pc[EvtProcer] # "post"
    BY <1>14 DEF ProcWorks, ProcCbReturn, ProcLock, ProcSkip
  <2>2. \A r, k : IsDue(r, k) /\ ToAnswer(r, k)' => ToAnswer(r, k)
    BY <1>8, <2>1 DEF ToAnswer
  <2>3. Answering'
    BY <2>1 DEF Answering, InCallback
  <2> QED
    BY <1>6, <2>1, <2>2, <2>3 DEF PostEnqueue, AtQueue
<1> QED
  BY <1>9, <1>10, <1>11, <1>12, <1>13, <1>14, HeldSteps

LEMMA LoadInvNext ==
    ASSUME IInv, TestInv, LoadInv, PlacesInv, TableInv, TestNext
    PROVE  LoadInv'
<1>1. /\ PcType /\ EvtProcer \in Thread /\ EvtProcer \notin Client /\ Depth \in Nat
      /\ [Next]_vars
  BY Types, EvtMangerAssumption, TestRunsManger DEF Thread
<1>2. /\ HoldsEvent => OnTheWay = Load + 1
      /\ ~HoldsEvent => OnTheWay = Load
      /\ HoldsEvent' => OnTheWay' = Load' + 1
      /\ ~HoldsEvent' => OnTheWay' = Load'
  <2>1. Load \in Nat /\ Load' \in Nat /\ num \in Nat /\ num' \in Nat
    BY <1>1, LoadMoves
  <2>2. Cardinality(Posters) \in Nat /\ (Cardinality(Posters) \in Nat)'
    BY FewPosters, PTL
  <2> QED
    BY <2>1, <2>2 DEF OnTheWay, Load
<1>3. /\ Load \in Nat /\ Load' \in Nat /\ OnTheWay <= Depth
      /\ AnswerDue \/ ~HoldsEvent => OnTheWay < Depth
  BY <1>1, LoadMoves DEF LoadInv
<1>4. \/ \E t \in Client : \E m \in Msg :
            /\ PostCheck(t, m) /\ Load' = Load + 1 /\ Load + 2 <= Depth
            /\ HoldsEvent => Load + 3 <= Depth
      \/ PostEnqueue(EvtProcer) /\ Load' = Load + 1 /\ HoldsEvent /\ HoldsEvent'
      \/ Load' <= Load /\ (ProcTake => Load' <= Load - 1)
  <2>1. ASSUME NEW t \in Client, NEW m \in Msg, PostCheck(t, m)
        PROVE  Load + 2 <= Depth /\ (HoldsEvent => Load + 3 <= Depth)
    BY <1>1, <1>2, <1>3, <2>1, PostsInTime DEF KeepsUp
  <2>2. ASSUME PostEnqueue(EvtProcer) PROVE HoldsEvent /\ HoldsEvent'
    BY <1>1, <2>2 DEF PostEnqueue, AtQueue, HoldsEvent, Goto, PcType
  <2> QED
    BY <1>1, <2>1, <2>2, LoadMoves
<1>5. CASE ~HoldsEvent'
  <2>1. OnTheWay' < Depth
    BY <1>1, <1>2, <1>3, <1>4, <1>5
  <2>2. pc'[EvtProcer] \notin {"cb", "post", "signal"} /\ ~InCallback' /\ ~AnswerDue'
    BY <1>5 DEF HoldsEvent, InCallback, AnswerDue
  <2> QED
    BY <1>1, <1>2, <1>3, <2>1, <2>2 DEF LoadInv
<1>6. CASE HoldsEvent' /\ ~HoldsEvent
  <2>1. ProcTake
    BY <1>1, <1>6, HoldsSince DEF HoldsEvent
  <2>2. pc'[EvtProcer] = "lock"
    BY <1>1, <2>1 DEF ProcTake, Goto, PcType
  <2>3. ~PostEnqueue(EvtProcer) /\ \A t \in Client : \A m \in Msg : ~PostCheck(t, m)
    BY <1>1, <2>1 DEF ProcTake, PostEnqueue, PostCheck, AtQueue, RingType
  <2>4. OnTheWay' < Depth /\ OnTheWay' <= Depth
    <3>1. Load' <= Load - 1
      BY <1>4, <2>1, <2>3
    <3>2. OnTheWay = Load /\ OnTheWay' = Load' + 1 /\ OnTheWay < Depth
      BY <1>2, <1>3, <1>6
    <3>3. Depth \in Nat /\ Load \in Nat /\ Load' \in Nat
      BY <1>1, <1>3
    <3> QED
      <4>1. \A a, b, d \in Nat : a <= b - 1 /\ b < d => a + 1 < d /\ a + 1 <= d
        OBVIOUS
      <4> QED
        BY <3>1, <3>2, <3>3, <4>1
  <2>5. pc'[EvtProcer] \notin {"post", "signal"} /\ ~InCallback'
    BY <2>2 DEF InCallback
  <2> QED
    BY <2>4, <2>5 DEF LoadInv
<1>7. CASE HoldsEvent /\ HoldsEvent'
  <2>1. /\ AnswerDue' => AnswerDue
        /\ PostEnqueue(EvtProcer) => ~AnswerDue' /\ AnswerDue
        /\ Answering'
    <3>1. ASSUME PostEnqueue(EvtProcer) PROVE AnswerDue
      BY <3>1, <1>1, EvtProcerAnswers DEF PostEnqueue, AtQueue
    <3> QED
      BY <1>7, <3>1, NoNewAnswer
  <2>2. OnTheWay = Load + 1 /\ OnTheWay' = Load' + 1
    BY <1>2, <1>7
  <2>3. OnTheWay' <= Depth /\ (AnswerDue' => OnTheWay' < Depth)
    <3>1. CASE Load' = Load + 1 /\ Load + 3 <= Depth
      BY <1>1, <1>3, <2>2, <3>1
    <3>2. CASE PostEnqueue(EvtProcer) /\ Load' = Load + 1
      BY <1>1, <1>3, <2>1, <2>2, <3>2
    <3>3. CASE Load' <= Load
      <4>1. \A a, b, d \in Nat : a <= b =>
               (b + 1 <= d => a + 1 <= d) /\ (b + 1 < d => a + 1 < d)
        OBVIOUS
      <4>2. Load' + 1 <= Depth /\ (Load + 1 < Depth => Load' + 1 < Depth)
        BY <1>1, <1>3, <2>2, <3>3, <4>1
      <4>3. AnswerDue' => Load + 1 < Depth
        BY <1>3, <2>1, <2>2
      <4> QED
        BY <2>2, <4>2, <4>3
    <3> QED
      BY <1>4, <1>7, <3>1, <3>2, <3>3
  <2> QED
    BY <1>7, <2>1, <2>3 DEF LoadInv, Answering
<1> QED
  BY <1>5, <1>6, <1>7

-----------------------------------------------------------------------------
(* Who waits for a callback, waits for its events.                           *)

\* Only a callback that returns tells that it has got all its events.
LEMMA ToldSince ==
    ASSUME IInv, TestInv, TestNext, NEW x \in Oper, Told(x)', ~Told(x)
    PROVE  CallbackReturns /\ GotAll(x) /\ x = TheSuber
<1>1. /\ StepInv /\ ThreadsInv /\ AreSequences(prog) /\ InPrograms(prog, step)
      /\ AwaitsEvents(prog, events) /\ prog' = prog
  BY TestPrograms, EventsOfTest, SameTest DEF TestInv
<1> DEFINE s == <<"AllProced", x>>
<1>2. s \notin DOMAIN sem /\ \A t \in Client : \A i \in Passed(step, t) : ~WaitsFor(prog, t, i, x)
  BY DEF Told
<1>3. \/ s \in DOMAIN sem'
      \/ \E t \in Client : \E i \in Passed(step', t) : WaitsFor(prog, t, i, x)
  BY <1>1 DEF Told
<1>4. ASSUME NEW t \in Client, TestThread(t) PROVE FALSE
  <2>1. step[t] \in DOMAIN prog[t] /\ Instr(t) = prog[t][step[t]]
    BY <1>4, TheInstr DEF TestThread
  <2>2. ~WaitsFor(prog, t, step[t], x)
    <3>1. ASSUME WaitsFor(prog, t, step[t], x) PROVE FALSE
      <4>1. Instr(t).do = "semWait" /\ Instr(t).sem = s
        BY <2>1, <3>1 DEF WaitsFor
      <4>2. SemWait(t)
        BY <1>4, <4>1 DEF TestThread, Call, PLT_EVT, At, Start, Join, SemPost, Expect
      <4> QED
        BY <1>2, <4>1, <4>2 DEF SemWait, BagIn, BagToSet
    <3> QED
      BY <3>1
  <2>3. Advances(prog, step, step', t) \/ UNCHANGED step
    BY <1>1, <1>4, <2>1, InstructSteps, CallStep DEF TestThread, Instructs, Calls_EVT
  <2>4. \A u \in Client : \A i \in Passed(step', u) : ~WaitsFor(prog, u, i, x)
    <3>1. CASE UNCHANGED step
      BY <1>2, <3>1 DEF Passed
    <3>2. CASE Advances(prog, step, step', t)
      <4>1. /\ Passed(step', t) = Passed(step, t) \cup {step[t]}
            /\ \A u \in Client \ {t} : Passed(step', u) = Passed(step, u)
        BY <1>1, <3>2, PassedNext
      <4> QED
        BY <1>2, <2>2, <4>1
    <3> QED
      BY <2>3, <3>1, <3>2
  <2>5. s \notin DOMAIN sem'
    <3>1. ASSUME SemPost(t) PROVE s \notin DOMAIN sem'
      <4>1. Instr(t).do = "semPost" /\ sem' = sem (+) SetToBag({Instr(t).sem})
        BY <3>1 DEF SemPost, At
      <4>2. IsHandover(Instr(t).sem)
        BY <1>1, <2>1, <4>1 DEF AwaitsEvents
      <4>3. s # Instr(t).sem
        BY <4>2 DEF IsHandover
      <4> QED
        BY <1>2, <4>1, <4>3 DEF (+), SetToBag
    <3>2. ASSUME SemWait(t) PROVE s \notin DOMAIN sem'
      BY <1>2, <3>2 DEF SemWait, (-), SetToBag
    <3>3. ASSUME Call(t) \/ Start(t) \/ Join(t) \/ Expect(t) PROVE s \notin DOMAIN sem'
      BY <1>2, <3>3 DEF Call, Start, Join, Expect, OtherTestVars
    <3> QED
      BY <1>4, <3>1, <3>2, <3>3 DEF TestThread
  <2> QED
    BY <1>3, <2>4, <2>5
<1>5. s \in DOMAIN sem' /\ ~\E t \in Client : TestThread(t)
  <2>1. UNCHANGED step
    BY <1>4 DEF TestNext, Proc, CallbackEnters, CallbackReplies, CallbackPosts, CallbackReturns
  <2> QED
    BY <1>2, <1>3, <1>4, <2>1 DEF Passed
<1>6. CallbackReturns
  BY <1>2, <1>5 DEF TestNext, Proc, CallbackEnters, CallbackReplies, CallbackPosts
<1>7. GotAll(TheSuber) /\ sem' = sem (+) SetToBag({<<"AllProced", TheSuber>>})
  BY <1>2, <1>5, <1>6 DEF CallbackReturns
<1>8. s = <<"AllProced", TheSuber>>
  BY <1>2, <1>5, <1>7 DEF (+), SetToBag
<1>9. x = TheSuber
  BY <1>8
<1> QED
  BY <1>6, <1>7, <1>9

LEMMA ToldInvNext ==
    ASSUME IInv, TestInv, LoadInv, BeforeInv, PlacesInv, TableInv, CountInv, ToldInv, TestNext
    PROVE  ToldInv'
<1> SUFFICES ASSUME IsUp', NEW x \in Oper, Told(x)'
             PROVE  procQueue' # None /\ RowsOf(operID[x])' # {} /\ GotAll(x)'
  BY DEF ToldInv
<1>1. IsUp /\ StepInv /\ UNCHANGED <<case, objs>>
  BY UpBefore, SameTest DEF TestInv
<1>2. procQueue # None /\ RowsOf(operID[x]) # {} /\ GotAll(x)
  <2>1. CASE Told(x)
    BY <1>1, <2>1 DEF ToldInv
  <2>2. CASE ~Told(x)
    <3>1. /\ CallbackReturns /\ GotAll(x) /\ x = TheSuber
      BY <2>2, ToldSince
    <3>2. HoldsEvent /\ InCallback
      BY <3>1 DEF CallbackReturns, ProcCbReturn, HoldsEvent, InCallback
    <3>3. procQueue # None /\ row \in SubRow /\ subTable[row] # None
      BY <3>2 DEF IInv, QueueOutlivesProcer, CallbackInv, HoldsEvent, IsActive
    <3>4. \E y \in Oper : operID[y] = subTable[row].suber
      BY <1>1, <3>3, TheRow
    <3>5. operID[TheSuber] = subTable[row].suber
      BY <3>4 DEF TheSuber
    <3> QED
      BY <3>1, <3>3, <3>5 DEF RowsOf
  <2> QED
    BY <2>1, <2>2
<1>3. procQueue' # None
  <2>1. (TestInv => (procQueue # None <=> EnabledAt(prog) < step["main"] /\ IsUp))'
    BY MainIsAt, PTL
  <2>2. TestInv' /\ EnabledAt(prog) < step["main"] /\ prog' = prog
    BY <1>2, TestInvNext, MainIsAt, SameTest
  <2>3. step["main"] \in Nat /\ EnabledAt(prog) \in Nat /\ step'["main"] \in Nat
    BY MainIsAt, UpBefore
  <2>4. ~(step'["main"] <= EnabledAt(prog'))
    BY <2>2, <2>3, UpBefore
  <2> QED
    BY <2>1, <2>2, <2>3, <2>4
<1>4. UNCHANGED <<subTable, operID>>
  BY <1>2, TablesStand
<1>5. RowsOf(operID[x])' # {}
  BY <1>2, <1>4 DEF RowsOf
<1>6. ASSUME NEW e \in IDsOf(x)' PROVE (count[<<x, e>>])' = Total(e)'
  <2>1. Total(e)' = Total(e) /\ IDsOf(x)' = IDsOf(x)
    BY <1>1, <1>4 DEF Total, IDsOf, RowsOf
  <2>2. PICK r \in RowsOf(operID[x]) : e \in ToSet(subTable[r].ids)
    BY <2>1 DEF IDsOf
  <2>3. PICK k \in DOMAIN subTable[r].ids : e = subTable[r].ids[k]
    BY <2>2 DEF ToSet
  <2>4. r \in SubRow /\ subTable[r] # None
    BY DEF RowsOf
  <2>5. e \in EvtID
    BY <1>1, <2>3, <2>4, TheRow
  <2>6. CountInv' /\ PlacesInv' /\ TestInv' /\ events' = events /\ IsFiniteSet(events)
    BY CountInvNext, PlacesInvNext, TestInvNext, SameTest, EventsOfTest DEF TestInv
  <2>7. Accounted(x, r, k)'
    <3>1. r \in RowsOf(operID[x])' /\ k \in DOMAIN (subTable[r].ids)'
      BY <1>4 DEF RowsOf
    <3> QED
      BY <2>6, <3>1 DEF CountInv
  <2>8. Cardinality(LeftFor(r, k)') \in Nat
    <3>1. LeftFor(r, k)' \subseteq events
      BY <2>6 DEF LeftFor, PlacesInv
    <3> QED
      BY <2>6, <3>1, FS_Subset, FS_CardinalityType
  <2>9. count'[<<x, e>>] + Cardinality(LeftFor(r, k)') = Total(e)
    BY <1>4, <2>1, <2>3, <2>7 DEF Accounted
  <2>10. count[<<x, e>>] = Total(e)
    BY <1>2, <2>1 DEF GotAll
  <2>11. /\ count \in [Oper \X EvtID -> Nat] /\ count' \in [Oper \X EvtID -> Nat]
         /\ <<x, e>> \in Oper \X EvtID
    BY <2>5, <2>6 DEF CountInv
  <2>12. count'[<<x, e>>] = count[<<x, e>>] \/ count'[<<x, e>>] = count[<<x, e>>] + 1
    <3>1. CASE CallbackEnters
      <4>1. PICK i : count' = [count EXCEPT ![i] = @ + 1]
        BY <3>1 DEF CallbackEnters
      <4> QED
        BY <2>11, <4>1
    <3> QED
      BY <3>1, CountSteps
  <2>13. count[<<x, e>>] \in Nat /\ count'[<<x, e>>] \in Nat
    BY <2>11
  <2>14. count'[<<x, e>>] = Total(e)
    BY <2>8, <2>9, <2>10, <2>12, <2>13
  <2> QED
    BY <2>1, <2>14
<1>7. GotAll(x)'
  BY <1>6 DEF GotAll
<1> QED
  BY <1>3, <1>5, <1>7

-----------------------------------------------------------------------------
(* So nothing of what EventsAsAsserted rules out can happen.                 *)

\* Where there is one kind of event, its callback counts their SeqIDs.
LEMMA InSequence ==
    ASSUME IInv, TestInv, LoadInv, PlacesInv, TableInv, CountInv, CallbackEnters, IsUp,
           \A m, n \in events : EvtOf[m] = EvtOf[n]
    PROVE  buf[cur].seq = Gotten
<1>1. /\ row \in SubRow /\ subTable[row] # None /\ nth \in Nat
      /\ nth + 1 \in DOMAIN subTable[row].ids /\ subTable[row].ids[nth + 1] = Current
      /\ TheSuber \in Oper /\ subTable[row].suber = operID[TheSuber]
      /\ pc[EvtProcer] = "scan" /\ HoldsEvent /\ Taken = {buf[cur].msg}
      /\ buf[cur].msg \in events /\ buf[cur].msg \notin Waiting
  BY CalledFor
<1>2. Gotten + Cardinality(LeftFor(row, nth + 1)) = Total(Current)
  <2>1. row \in RowsOf(operID[TheSuber])
    BY <1>1 DEF RowsOf
  <2>2. Accounted(TheSuber, row, nth + 1)
    BY <1>1, <2>1 DEF CountInv
  <2> QED
    BY <1>1, <2>2 DEF Accounted, Gotten
<1>3. Waiting \cup Taken \subseteq events /\ \A m \in events : EvtOf[m] = Current
  BY <1>1 DEF PlacesInv, Current
<1>4. LeftFor(row, nth + 1) = Waiting \cup {buf[cur].msg}
  <2>1. NotYetCalled(row, nth + 1)
    BY <1>1 DEF NotYetCalled
  <2> QED
    BY <1>1, <1>3, <2>1 DEF LeftFor
<1>5. IsFiniteSet(events) /\ IsFiniteSet(Waiting) /\ Cardinality(Waiting) \in Nat
      /\ IsFiniteSet(Entering) /\ Cardinality(Entering) \in Nat /\ Cardinality(events) \in Nat
  <2>1. IsFiniteSet(events) /\ Entering \subseteq Waiting
    BY EventsOfTest DEF TestInv, Waiting, Behind
  <2> QED
    BY <1>3, <2>1, FS_Subset, FS_CardinalityType
<1>6. Cardinality(LeftFor(row, nth + 1)) = Cardinality(Waiting) + 1
  BY <1>1, <1>4, <1>5, FS_AddElement
<1>7. Total(Current) = Cardinality(events)
  <2>1. Current \in EvtID
    BY <1>1, TheRow
  <2>2. Total(Current) = Cardinality({m \in events : EvtOf[m] = Current})
    BY <2>1 DEF Total, TotalOf, events, TestInv, StepInv, ObjsOf, Programs
  <2>3. {m \in events : EvtOf[m] = Current} = events
    BY <1>3
  <2> QED
    BY <2>2, <2>3
<1>8. /\ Cardinality(Waiting) = num + Cardinality(Entering)
      /\ seqID + Cardinality(Entering) = Cardinality(events)
  BY <1>1 DEF PlacesInv, IInv, QueueOutlivesProcer, HoldsEvent, IsActive
<1>9. num \in Nat /\ seqID \in Nat /\ num < seqID /\ Depth \in Nat /\ TakenEventKept
      /\ num < Depth
  BY <1>1, Types, EvtMangerAssumption, RoomWhenTaken DEF IInv, TakenInv, RingType
<1>10. buf[cur].seq = seqID - num - 1
  BY <1>1, <1>9 DEF TakenEventKept
<1>11. Gotten \in Nat
  <2>1. <<TheSuber, Current>> \in Oper \X EvtID
    BY <1>1, TheRow
  <2> QED
    BY <2>1 DEF Gotten, CountInv
<1> QED
  BY <1>2, <1>5, <1>6, <1>7, <1>8, <1>9, <1>10, <1>11

\* Where one thread posts the events of a kind, a callback gets them in its order.
LEMMA InOrderPosted ==
    ASSUME IInv, TestInv, PlacesInv, LateInv, TableInv, CountInv, CallbackEnters, IsUp,
           \A m, n \in events : EvtOf[m] = Current /\ EvtOf[n] = Current =>
               PostedBy[m] = PostedBy[n] /\ PostedBy[m] \in Client
    PROVE  Data(buf[cur].msg) = Gotten
<1> DEFINE mm    == buf[cur].msg
           kind  == {m \in events : EvtOf[m] = Current}
           older == {n \in events : EvtOf[n] = Current /\ n < mm}
           left  == LeftFor(row, nth + 1)
<1>1. /\ row \in SubRow /\ subTable[row] # None /\ nth \in Nat
      /\ nth + 1 \in DOMAIN subTable[row].ids /\ subTable[row].ids[nth + 1] = Current
      /\ TheSuber \in Oper /\ subTable[row].suber = operID[TheSuber]
      /\ pc[EvtProcer] = "scan" /\ HoldsEvent /\ Taken = {mm}
      /\ mm \in events /\ mm \notin Waiting /\ EvtOf[mm] = Current
  BY CalledFor DEF Current
<1>2. Current \in EvtID
  BY <1>1, TheRow
<1>3. count[<<TheSuber, Current>>] + Cardinality(left) = Total(Current)
      /\ count[<<TheSuber, Current>>] \in Nat
  <2>1. row \in RowsOf(operID[TheSuber])
    BY <1>1 DEF RowsOf
  <2>2. Accounted(TheSuber, row, nth + 1)
    BY <1>1, <2>1 DEF CountInv
  <2>3. <<TheSuber, Current>> \in Oper \X EvtID
    BY <1>1, <1>2
  <2> QED
    BY <1>1, <2>2, <2>3 DEF Accounted, CountInv
<1>4. Data(mm) = Cardinality(older) /\ Total(Current) = Cardinality(kind)
  <2>1. Data(mm) = Cardinality(older)
    BY <1>1 DEF Data, events
  <2>2. Total(Current) = Cardinality(kind)
    BY <1>2 DEF Total, TotalOf, events, TestInv, StepInv, ObjsOf, Programs
  <2> QED
    BY <2>1, <2>2
<1>5. /\ Waiting \cup Taken \subseteq events /\ Late(Waiting) /\ Late(Waiting \cup Taken)
      /\ events \subseteq Nat
  <2>1. Len(InQueue) \in Nat
    BY QueueType
  <2>2. 1 \in 1 .. Len(InQueue) + 1
    BY <2>1
  <2>3. Late(Waiting) /\ Late(Waiting \cup Taken)
    BY <2>2 DEF LateInv, Waiting
  <2> QED
    BY <2>3, EventsOfTest, EvtMangerAssumption DEF PlacesInv, TestInv
<1>6. left = {m \in Waiting \cup Taken : EvtOf[m] = Current}
  <2>1. NotYetCalled(row, nth + 1)
    BY <1>1 DEF NotYetCalled
  <2> QED
    BY <1>1, <2>1 DEF LeftFor
<1>7. ASSUME NEW n \in kind PROVE n \in left <=> ~(n < mm)
  <2>1. /\ n \in events /\ EvtOf[n] = Current /\ n \in Nat /\ mm \in Nat
        /\ PostedBy[n] = PostedBy[mm] /\ PostedBy[n] \in Client
    BY <1>1, <1>5
  <2>2. ASSUME ~(n < mm) PROVE n \in left
    <3>1. mm <= n
      BY <2>1, <2>2
    <3>2. n \in Waiting \cup Taken
      BY <1>1, <1>5, <2>1, <3>1 DEF Late
    <3> QED
      BY <1>6, <2>1, <3>2
  <2>3. ASSUME n \in left, n < mm PROVE FALSE
    <3>1. n # mm /\ n <= mm
      BY <2>1, <2>3
    <3>2. n \in Waiting
      BY <1>1, <1>6, <2>3, <3>1
    <3>3. mm \in Waiting
      BY <1>1, <1>5, <2>1, <3>1, <3>2 DEF Late
    <3> QED
      BY <1>1, <3>3
  <2> QED
    BY <2>2, <2>3
<1>8. kind = older \cup left /\ older \cap left = {}
  <2>1. left \subseteq kind /\ older \subseteq kind
    BY <1>5, <1>6
  <2> QED
    BY <1>7, <2>1
<1>9. IsFiniteSet(older) /\ IsFiniteSet(left) /\ Cardinality(older) \in Nat
      /\ Cardinality(left) \in Nat
  <2>1. older \subseteq events /\ left \subseteq events /\ IsFiniteSet(events)
    BY <1>5, <1>6, EventsOfTest DEF TestInv
  <2> HIDE DEF older, left
  <2> QED
    BY <2>1, FS_Subset, FS_CardinalityType
<1>10. Cardinality(kind) = Cardinality(older) + Cardinality(left)
  <2> HIDE DEF older, left, kind
  <2>1. Cardinality(older \cup left)
           = Cardinality(older) + Cardinality(left) - Cardinality(older \cap left)
    BY <1>9, FS_Union
  <2>2. Cardinality(older \cap left) = 0
    BY <1>8, FS_EmptySet
  <2> QED
    BY <1>8, <1>9, <2>1, <2>2
<1> HIDE DEF older, left, kind, mm
<1>11. Cardinality(older) = count[<<TheSuber, Current>>]
  BY <1>3, <1>4, <1>9, <1>10
<1> QED
  BY <1>4, <1>11 DEF Gotten, mm

LEMMA EnterAsExpected ==
    ASSUME IInv, TestInv, LoadInv, PlacesInv, LateInv, TableInv, CountInv, CallbackEnters
    PROVE  AsExpected
<1>1. pc[EvtProcer] = "scan"
  BY DEF CallbackEnters, ProcCall
<1>2. procQueue # None
  BY <1>1 DEF IInv, QueueOutlivesProcer, IsActive
<1>3. IsUp
  BY <1>2, MainIsAt
<1>4. TellOrder(case, events)
  BY EventsOfTest DEF TestInv
<1>5. Current \in ToSet(subTable[row].ids)
  BY <1>3, CalledFor DEF ToSet
<1>6. case \in {"Case01", "CaseC01"} => buf[cur].seq = Gotten
  BY <1>3, <1>4, InSequence DEF TellOrder
<1>7. case = "Case02" /\ Current = MSGDATA => Data(buf[cur].msg) = Gotten
  BY <1>3, <1>4, InOrderPosted DEF TellOrder
<1> QED
  BY <1>5, <1>6, <1>7 DEF AsExpected

\* Who counts a callback's events, has waited for it.
LEMMA ExpectsAll ==
    ASSUME IInv, TestInv, ToldInv, NEW t \in Client, Expect(t)
    PROVE  GotAll(Instr(t).oper)
<1>1. /\ step[t] \in DOMAIN prog[t] /\ Instr(t) = prog[t][step[t]] /\ Instr(t).do = "expect"
      /\ AwaitsEvents(prog, events)
  BY TheInstr, EventsOfTest DEF Expect, At, TestInv
<1>2. IsUp
  BY <1>1, InSetUp
<1>3. /\ Instr(t).oper \in Oper
      /\ \E j \in 1 .. step[t] - 1 : WaitsFor(prog, t, j, Instr(t).oper)
  BY <1>1 DEF AwaitsEvents
<1>4. Told(Instr(t).oper)
  BY <1>3 DEF Told, Passed
<1> QED
  BY <1>2, <1>3, <1>4 DEF ToldInv

\* main disables the manager when everybody who waits for a callback has done so.
LEMMA WaitedFor ==
    ASSUME TestInv, step["main"] = DisabledAt(prog),
           NEW u \in Client, NEW j \in DOMAIN prog[u], NEW x,
           WaitsFor(prog, u, j, x), Precedes(prog, u, j, DisabledAt(prog))
    PROVE  Told(x)
<1>1. /\ AreSequences(prog) /\ RunByMain(prog) /\ InPrograms(prog, step) /\ InStep(prog, step)
      /\ DisabledAt(prog) \in DOMAIN prog["main"]
      /\ j \in Nat /\ step[u] \in Nat /\ 1 <= j
      /\ j \in 1 .. Len(prog[u]) /\ Len(prog[u]) \in Nat
  BY TestPrograms, MainsPlaces DEF TestInv, ThreadsInv, AreSequences, InPrograms
<1>2. ASSUME ~(j < step[u]) PROVE FALSE
  <2>1. step[u] <= j /\ ~IsPast(prog, step, u)
    BY <1>1, <1>2 DEF IsPast
  <2>2. u = "main"
    <3>1. step["main"] <= DisabledAt(prog) /\ (step["main"] < DisabledAt(prog) \/ u = "main")
      BY <1>1, <2>1, ComesBefore
    <3> QED
      BY <3>1, MainIsAt
  <2>3. step["main"] \in DOMAIN prog["main"] /\ step["main"] \in Nat
    BY <1>1, <2>2
  <2>4. prog["main"][step["main"]].do = "disable"
    BY <1>1, <2>2 DEF RunByMain
  <2>5. j # step["main"]
    BY <2>2, <2>4 DEF WaitsFor
  <2>6. CASE j <= DisabledAt(prog)
    BY <1>1, <2>1, <2>2, <2>3, <2>5, <2>6
  <2>7. ASSUME NEW i \in 1 .. DisabledAt(prog) - 1 PROVE i \in Passed(step, "main")
    BY <2>7 DEF Passed
  <2>8. ASSUME NEW i \in 1 .. DisabledAt(prog) - 1, Joins(prog, "main", i, u) PROVE FALSE
    BY <1>1, <2>1, <2>2, <2>7, <2>8 DEF InStep
  <2>9. ASSUME NEW i \in 1 .. DisabledAt(prog) - 1, Takes(prog, "main", i),
               \A v \in Client : \A l \in DOMAIN prog[v] :
                   Gives(prog, v, l, prog["main"][i].sem) => v = u /\ j <= l
        PROVE  FALSE
    <3>1. Given(prog, step, prog["main"][i].sem)
      BY <1>1, <2>2, <2>7, <2>9 DEF InStep
    <3>2. PICK v \in Client, l \in Nat : l \in Passed(step, v) /\ Gives(prog, v, l, prog["main"][i].sem)
      BY <3>1 DEF Given, Passed
    <3>3. l \in DOMAIN prog[v] /\ l < step[v] /\ l \in Nat
      BY <1>1, <3>2 DEF Passed, AreSequences, InPrograms
    <3> QED
      BY <1>1, <2>1, <2>9, <3>2, <3>3
  <2> QED
    BY <2>2, <2>6, <2>8, <2>9, <1>2 DEF Precedes
<1>3. j \in Passed(step, u)
  BY <1>1, <1>2 DEF Passed
<1> QED
  BY <1>3 DEF Told

LEMMA NoneDiscarded ==
    ASSUME IInv, TestInv, PlacesInv, TableInv, CountInv, ToldInv, NEW t \in Client,
           step[t] \in DOMAIN prog[t], Call(t), cancel', ~cancel, num > 0
    PROVE  FALSE
<1>1. /\ Instr(t) = prog[t][step[t]] /\ Instr(t).do = "disable"
  BY TheInstr DEF Call, PLT_EVT, At, initEvtManger, RegCheck, doRegOper, PubCheck, PubScan,
     PubStore, PubReturn, SubCheck, doSubEvts, SubReturn, enableEvtManger, FreshQueue,
     PostCheck, PostNull, PostToFreed, PostFull, PostEnqueue, PostSignal, Crash,
     unpubEvts, UnsubCall, unsubEvts, FreeRow, unregOper
<1>2. /\ RunByMain(prog) /\ AreSequences(prog) /\ TidyWithOpers(prog)
      /\ AwaitsEvents(prog, events) /\ events \subseteq Msg /\ IsFiniteSet(events)
  BY TestPrograms, EventsOfTest DEF TestInv
<1>3. step["main"] = DisabledAt(prog)
  BY <1>1, <1>2 DEF RunByMain
<1>4. IsUp
  BY <1>3, MainIsAt DEF IsUp
<1> DEFINE m == InQueue[1]
<1>5. m \in Waiting /\ m \in events
  <2>1. Len(InQueue) = num /\ num \in Nat
    BY QueueType, Types DEF RingType
  <2>2. 1 \in 1 .. Len(InQueue)
    BY <2>1
  <2>3. m \in Waiting
    BY <2>2 DEF Waiting, Behind
  <2> QED
    BY <2>3 DEF PlacesInv
<1> HIDE DEF m
<1>6. PICK x \in Oper, s \in Client, u \in Client :
          /\ \E i \in DOMAIN prog[s] : Is(prog, s, i, "sub", x) /\ EvtOf[m] \in ToSet(prog[s][i].ids)
          /\ \E j \in DOMAIN prog[u] : WaitsFor(prog, u, j, x) /\ Precedes(prog, u, j, DisabledAt(prog))
  BY <1>2, <1>5 DEF AwaitsEvents
<1>7. Told(x)
  BY <1>3, <1>6, WaitedFor
<1>8. RowsOf(operID[x]) # {} /\ GotAll(x)
  BY <1>4, <1>7 DEF ToldInv
<1>9. PICK r \in SubRow : subTable[r] # None /\ subTable[r].suber = operID[x]
  BY <1>8 DEF RowsOf
<1>10. PICK i \in DOMAIN prog[s] :
          Is(prog, s, i, "sub", x) /\ EvtOf[m] \in ToSet(prog[s][i].ids)
  BY <1>6
<1>11. subTable[r].ids = prog[s][i].ids
  <2>1. PICK t3 \in Client, z \in Here(prog, step) : \E i3 \in DOMAIN prog[t3] :
            Is(prog, t3, i3, "sub", z) /\ subTable[r] = RowFor(z, prog[t3][i3])
    BY <1>4, <1>9 DEF TableInv
  <2>2. PICK i3 \in DOMAIN prog[t3] :
            Is(prog, t3, i3, "sub", z) /\ subTable[r] = RowFor(z, prog[t3][i3])
    BY <2>1
  <2>3. subTable[r].suber = operID[z] /\ subTable[r].ids = prog[t3][i3].ids
    BY <2>2 DEF RowFor
  <2>4. z \in Oper
    BY DEF Here, Held
  <2>5. z = x
    <3>1. \A y, w \in Oper : operID[y] = subTable[r].suber /\ operID[w] = subTable[r].suber => y = w
      BY <1>4, <1>9, TheRow
    <3> QED
      BY <1>9, <2>3, <2>4, <3>1
  <2>6. "sub" \in OperCalls
    BY DEF OperCalls
  <2>7. t3 = s /\ i3 = i
    BY <1>2, <1>10, <2>2, <2>5, <2>6, OnePlace
  <2> QED
    BY <2>3, <2>7
<1>12. PICK k \in DOMAIN subTable[r].ids : EvtOf[m] = subTable[r].ids[k]
  BY <1>10, <1>11 DEF ToSet
<1>13. r \in RowsOf(operID[x])
  BY <1>9 DEF RowsOf
<1>14. Accounted(x, r, k)
  BY <1>4, <1>13 DEF CountInv
<1>15. count[<<x, EvtOf[m]>>] = Total(EvtOf[m])
  <2>1. EvtOf[m] \in IDsOf(x)
    BY <1>12, <1>13 DEF IDsOf, ToSet
  <2> QED
    BY <1>8, <2>1 DEF GotAll
<1>16. count[<<x, EvtOf[m]>>] \in Nat
  <2>1. EvtOf[m] \in EvtID
    BY <1>2, <1>5, EvtMangerAssumption
  <2>2. <<x, EvtOf[m]>> \in Oper \X EvtID
    BY <2>1
  <2> QED
    BY <2>2 DEF CountInv
<1>17. m \in LeftFor(r, k)
  BY <1>5, <1>12 DEF LeftFor
<1>18. IsFiniteSet(LeftFor(r, k)) /\ Cardinality(LeftFor(r, k)) \in Nat
  <2>1. LeftFor(r, k) \subseteq events
    BY DEF LeftFor, PlacesInv
  <2> QED
    BY <1>2, <2>1, FS_Subset, FS_CardinalityType
<1>19. Cardinality(LeftFor(r, k)) = 0
  BY <1>12, <1>14, <1>15, <1>16, <1>18 DEF Accounted
<1> QED
  BY <1>17, <1>18, <1>19, FS_EmptySet

LEMMA AssertedNext ==
    ASSUME IInv, TestInv, EventsInv, TestNext
    PROVE  EventsAsAsserted'
<1>1. {"event", "count", "discarded"} \cap failed = {}
  BY DEF EventsInv, EventsAsAsserted
<1>2. PlacesInv /\ LateInv /\ TableInv /\ LoadInv /\ CountInv /\ ToldInv
  BY DEF EventsInv
<1>3. ASSUME NEW t \in Client, TestThread(t) PROVE EventsAsAsserted'
  <2>1. step[t] \in DOMAIN prog[t]
    BY <1>3, TheInstr DEF TestThread
  <2>2. CASE Call(t)
    <3>1. ~(cancel' /\ ~cancel /\ num > 0)
      BY <1>2, <2>1, <2>2, NoneDiscarded
    <3>2. failed' = failed
            \cup (IF pc'[t] = "dead" \/ (pc'[t] = "idle" /\ Refused(t)) THEN {"call"} ELSE {})
            \cup (IF cancel' /\ ~cancel /\ num > 0 THEN {"discarded"} ELSE {})
      BY <2>2 DEF Call
    <3>3. failed' \subseteq failed \cup {"call"}
      BY <3>1, <3>2
    <3> QED
      BY <1>1, <3>3 DEF EventsAsAsserted
  <2>3. CASE Expect(t)
    BY <1>1, <1>2, <2>3, ExpectsAll DEF Expect, EventsAsAsserted
  <2>4. CASE Start(t) \/ Join(t) \/ SemPost(t) \/ SemWait(t)
    BY <1>1, <2>4 DEF Start, Join, SemPost, SemWait, OtherTestVars, EventsAsAsserted
  <2> QED
    BY <1>3, <2>2, <2>3, <2>4 DEF TestThread
<1>4. CASE CallbackEnters
  <2>1. AsExpected
    BY <1>2, <1>4, EnterAsExpected
  <2>2. failed' = failed
    BY <1>4, <2>1 DEF CallbackEnters
  <2> QED
    BY <1>1, <2>2 DEF EventsAsAsserted
<1>5. CASE CallbackPosts
  <2>1. failed' \subseteq failed \cup {"call"}
    BY <1>5 DEF CallbackPosts
  <2> QED
    BY <1>1, <2>1 DEF EventsAsAsserted
<1>6. CASE UNCHANGED failed
  BY <1>1, <1>6 DEF EventsAsAsserted
<1> QED
  BY <1>3, <1>4, <1>5, <1>6 DEF TestNext, Proc, CallbackReplies, CallbackReturns

LEMMA CallsReturnNext ==
    ASSUME IInv, TestInv, LoadInv, CallsReturnAsAsserted, TestNext
    PROVE  CallsReturnAsAsserted'
<1>1. "call" \notin failed /\ \A t \in Thread : ~PostFull(t) /\ ~PostNull(t) /\ ~PostToFreed(t)
  BY NoBadPost, NoFullPost DEF CallsReturnAsAsserted
<1>2. /\ pc \in [Thread -> ClientPc \cup ProcPc] /\ EvtProcer \in Thread /\ Client \subseteq Thread
      /\ EvtProcer \notin Client /\ CallInv /\ CallInv'
  BY Types, CallInvNext, EvtMangerAssumption DEF PcType, Thread, TestInv
<1>3. ASSUME NEW t \in Client, Instructs(t) PROVE "call" \notin failed'
  BY <1>1, <1>3 DEF Instructs
<1>4. ASSUME ProcMoves PROVE "call" \notin failed'
  <2>1. ASSUME pc[EvtProcer] = "post", pc'[EvtProcer] # "signal" PROVE FALSE
    <3>1. PostEnqueue(EvtProcer)
      BY <1>1, <1>2, <1>4, <2>1 DEF ProcMoves, ProcCall, ProcCbReturn, ProcWait, ProcTake,
         ProcLock, ProcDone, ProcCancelledInWait, ProcSkip, ProcSpuriousWakeup, PostCheck,
         PostSignal
    <3> QED
      BY <1>2, <2>1, <3>1 DEF PostEnqueue, Goto
  <2> QED
    BY <1>1, <1>4, <2>1 DEF ProcMoves
<1>5. ASSUME NEW t \in Client, Calls_EVT(t) PROVE "call" \notin failed'
  <2>1. PLT_EVT(t) /\ failed' = failed
           \cup (IF pc'[t] = "dead" \/ (pc'[t] = "idle" /\ Refused(t)) THEN {"call"} ELSE {})
           \cup (IF cancel' /\ ~cancel /\ num > 0 THEN {"discarded"} ELSE {})
    BY <1>5 DEF Calls_EVT, Call
  <2>2. pc'[t] # "dead"
    BY <1>2 DEF CallInv
  <2>3. ASSUME pc'[t] = "idle" PROVE ~Refused(t)
    <3>1. ~(pc[t] = "reg" /\ FreeOperIDs = {})
      BY RegFits DEF TestInv, CallInv
    <3>2. ~(pc[t] = "sub" /\ FreeSubRows = {})
      BY SubFits DEF TestInv, CallInv
    <3>3. ASSUME pc[t] = "pub" PROVE FALSE
      <4>1. PubScan(t)
        BY <1>2, <2>1, <3>3 DEF PLT_EVT, At, CallInv, PubCheck, PubStore, IsIdle
      <4>2. FreePubRows # {}
        BY <3>3, PubFits DEF TestInv, CallInv
      <4> QED
        BY <1>2, <2>3, <4>1, <4>2 DEF PubScan, Goto
    <3>4. ASSUME pc[t] = "post" PROVE FALSE
      <4>1. PostEnqueue(t)
        BY <1>1, <1>2, <2>1, <3>4 DEF PLT_EVT, At, CallInv, PostCheck, PostSignal
      <4> QED
        BY <1>2, <2>3, <4>1 DEF PostEnqueue, Goto
    <3> QED
      BY <3>1, <3>2, <3>3, <3>4 DEF Refused
  <2> QED
    BY <1>1, <2>1, <2>2, <2>3
<1> QED
  BY <1>3, <1>4, <1>5, TestSteps DEF CallsReturnAsAsserted

-----------------------------------------------------------------------------
LEMMA EventsInvNext ==
    ASSUME IInv, TestInv, EventsInv, [TestNext]_<<vars, testVars>>
    PROVE  EventsInv'
<1>1. CASE TestNext
  <2>1. /\ BeforeInv /\ PlacesInv /\ LateInv /\ TableInv /\ LoadInv /\ CountInv /\ ToldInv
        /\ CallsReturnAsAsserted
    BY DEF EventsInv
  <2> QED
    BY <1>1, <2>1, BeforeInvNext, PlacesInvNext, LateInvNext, TableInvNext, LoadInvNext,
       CountInvNext, ToldInvNext, CallsReturnNext, AssertedNext DEF EventsInv
<1>2. CASE UNCHANGED <<vars, testVars>>
  <2>1. prog' = prog /\ events' = events
    BY <1>2 DEF prog, events
  <2>2. InQueue' = InQueue /\ Posting' = Posting /\ Taken' = Taken
    BY <1>2 DEF InQueue, Posting, Taken, HoldsEvent
  <2>3. Entering' = Entering /\ Waiting' = Waiting /\ \A k : Behind(k)' = Behind(k)
    BY <1>2, <2>2 DEF Entering, Waiting, Behind
  <2>4. BeforeInv'
    BY <1>2, <2>1 DEF EventsInv, BeforeInv
  <2>5. PlacesInv' /\ LateInv'
    BY <1>2, <2>1, <2>2, <2>3 DEF EventsInv, PlacesInv, LateInv, Late
  <2>6. TableInv'
    BY <1>2, <2>1 DEF EventsInv, TableInv, IsUp, RowFor
  <2>7. CountInv'
    <3>1. \A r, k : LeftFor(r, k)' = LeftFor(r, k)
      BY <1>2, <2>2, <2>3 DEF LeftFor, NotYetCalled
    <3> QED
      BY <1>2, <2>1, <3>1 DEF EventsInv, CountInv, Accounted, IsUp, RowsOf, Total
  <2>8. ToldInv'
    BY <1>2, <2>1 DEF EventsInv, ToldInv, Told, Passed, IsUp, RowsOf, GotAll, IDsOf, Total
  <2>9. LoadInv'
    <3>1. /\ HoldsEvent' = HoldsEvent /\ InCallback' = InCallback /\ Current' = Current
          /\ TheSuber' = TheSuber /\ Posters' = Posters
      BY <1>2 DEF HoldsEvent, InCallback, Current, TheSuber, Posters
    <3>2. \A r, k : ToAnswer(r, k)' = ToAnswer(r, k) /\ Answers(r, k)' = Answers(r, k)
      BY <1>2, <3>1 DEF ToAnswer, NotYetCalled, Answers, SuberOf
    <3>3. AnswerDue' = AnswerDue /\ OnTheWay' = OnTheWay
      BY <1>2, <3>1, <3>2 DEF AnswerDue, OnTheWay
    <3> QED
      BY <1>2, <3>1, <3>3 DEF EventsInv, LoadInv
  <2> QED
    BY <1>2, <2>4, <2>5, <2>6, <2>7, <2>8, <2>9
    DEF EventsInv, EventsAsAsserted, CallsReturnAsAsserted
<1> QED
  BY <1>1, <1>2

LEMMA EventsInvInit ==
    ASSUME TestInit
    PROVE  EventsInv
<1>1. /\ Idle /\ unposted = events /\ sem = EmptyBag /\ failed = {}
      /\ step = [t \in Client |-> IF t = "main" THEN 1 ELSE 0]
      /\ operID = [x \in Oper |-> None]
      /\ count = [x \in Oper \X EvtID |-> 0]
  BY DEF TestInit, events
<1>2. /\ pc[EvtProcer] = "none" /\ \A t \in Thread : pc[t] # "post"
      /\ procQueue = None /\ num = 0 /\ \A r \in SubRow : subTable[r] = None
  BY <1>1, EvtMangerAssumption DEF Idle, EmptyRing, Thread
<1>3. IInv /\ TestInv /\ IsFiniteSet(events) /\ Cardinality(events) \in Nat
  BY TestStarts, TestInvInit, EventsOfTest DEF TestInv
<1>4. Posting = {} /\ Taken = {}
  BY <1>2 DEF Posting, Taken, HoldsEvent
<1>5. InQueue = <<>> /\ Len(InQueue) = 0
  BY <1>2, <1>3, QueueType, EmptySeq
<1>6. Entering = events /\ Waiting = events /\ \A k \in Nat \ {0} : Behind(k) = events
  <2>1. Entering = events
    BY <1>1, <1>4 DEF Entering
  <2>2. ASSUME NEW k \in Nat \ {0} PROVE Behind(k) = events
    <3>1. k .. Len(InQueue) = {}
      BY <1>5
    <3> QED
      BY <2>1, <3>1 DEF Behind
  <2> QED
    BY <2>1, <2>2 DEF Waiting
<1>7. BeforeInv
  BY <1>1, <1>2 DEF BeforeInv
<1>8. PlacesInv
  BY <1>2, <1>3, <1>4, <1>5, <1>6 DEF PlacesInv
<1>9. LateInv
  BY <1>1, <1>4, <1>5, <1>6 DEF LateInv, Late
<1>10. TableInv
  BY <1>1, <1>2 DEF TableInv
<1>11. CountInv
  BY <1>1, <1>2 DEF CountInv, RowsOf
<1>12. ToldInv
  <2>1. DOMAIN sem = {}
    BY <1>1 DEF EmptyBag, SetToBag
  <2>2. \A t \in Client : Passed(step, t) = {}
    BY <1>1 DEF Passed
  <2> QED
    BY <2>1, <2>2 DEF ToldInv, Told
<1>13. LoadInv
  <2>1. Posters = {} /\ ~HoldsEvent /\ ~InCallback /\ pc[EvtProcer] \notin {"post", "signal"}
    BY <1>2, EvtMangerAssumption DEF Posters, HoldsEvent, InCallback, Thread
  <2>2. Cardinality(Posters) = 0
    BY <2>1, FS_EmptySet
  <2>3. OnTheWay = 0 /\ Depth \in Nat \ {0}
    BY <1>2, <2>1, <2>2, EvtMangerAssumption DEF OnTheWay
  <2> QED
    BY <2>1, <2>3 DEF LoadInv
<1> QED
  BY <1>1, <1>7, <1>8, <1>9, <1>10, <1>11, <1>12, <1>13
  DEF EventsInv, EventsAsAsserted, CallsReturnAsAsserted

LEMMA EventsInductive == TestSpec => [](IInv /\ TestInv /\ EventsInv)
<1>1. TestInit => IInv /\ TestInv /\ EventsInv
  BY TestStarts, TestInvInit, EventsInvInit
<1>2. IInv /\ TestInv /\ EventsInv /\ [TestNext]_<<vars, testVars>>
        => (IInv /\ TestInv /\ EventsInv)'
  BY TestRunsManger, NextIInv, TestInvNext, EventsInvNext
<1> QED
  BY <1>1, <1>2, PTL DEF TestSpec

(* In every test, however its threads and the EvtProcer interleave, every    *)
(* call returns SUCCESS: no concurrent registration, pubEvts or subEvts      *)
(* finds its table full, and no post finds the queue missing, freed, or,     *)
(* for any number of events, full. The threads post while the EvtProcer      *)
(* keeps up (KeepsUp), and leave it one place of the queue; that the replies *)
(* of the callbacks, which nothing paces, need no more than that, and always *)
(* find it free, is what the proof shows.                                    *)
THEOREM EvtCallsReturn == TestSpec => []CallsReturnAsAsserted
<1>1. EventsInv => CallsReturnAsAsserted
  BY DEF EventsInv
<1> QED
  BY <1>1, EventsInductive, PTL

(* In every test, every callback gets the events its operator has subscribed *)
(* and no others, each of them once, with consecutive SeqIDs where the test  *)
(* looks at them and in the order of its poster where it looks at the data;  *)
(* its counts are complete when they are asserted, and disable finds the     *)
(* queue empty: the semaphores hold it back until everything is processed.   *)
(* The events may be any number of times as many as the queue has places, as *)
(* long as the threads post while the EvtProcer keeps up (KeepsUp).          *)
THEOREM EventsCorrect == TestSpec => []EventsAsAsserted
<1>1. EventsInv => EventsAsAsserted
  BY DEF EventsInv
<1> QED
  BY <1>1, EventsInductive, PTL

=============================================================================
