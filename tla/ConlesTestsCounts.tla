----------------------------- MODULE ConlesTestsCounts ------------------------------
(* CountsInv is inductive: each claim a test checks stays balanced. A post that     *)
(* goes on is queued or counted where it reaches the callback; one that returns has *)
(* been there, or returns a result that is counted; the callback counts what it     *)
(* takes out of its queue; and what subscribes, unsubscribes or checks moves        *)
(* nothing. At a check nothing is on its way, so the counts are as the test asserts.*)
EXTENDS ConlesTestsProofs

USE DEF vars, ctxVars, tableVars, slotVars, frameVars, envVars, testVars
USE DEF Thread, Slot, InCall, InScan, InUnsub, InCtx, ClientPc, AsyncPc

(* The sets the claims are about are finite.                                        *)
LEMMA ClientsFinite == IsFiniteSet(Client)
<1>1. IsFiniteSet({main}) /\ IsFiniteSet({T1}) /\ IsFiniteSet({T2}) /\ IsFiniteSet({T3})
  BY FS_Singleton
<1>2. IsFiniteSet({main} \cup {T1}) /\ IsFiniteSet({T2} \cup {T3})
  BY <1>1, FS_Union
<1>3. Client = ({main} \cup {T1}) \cup ({T2} \cup {T3})
  BY TestAssumption
<1> QED
  BY <1>2, <1>3, FS_Union

LEMMA PostsOfWhat ==
    ASSUME case \in Cases, NEW e
    PROVE  /\ IsFiniteSet(PostsOf(case, e))
           /\ \A x : x \in PostsOf(case, e) <=>
                 /\ x = <<x[1], x[2]>> /\ x[1] \in Client /\ x[2] \in DOMAIN Program(x[1])
                 /\ Program(x[1])[x[2]].do = "post" /\ Program(x[1])[x[2]].evt = e
<1> DEFINE P(t) == {i \in DOMAIN Program(t) :
                       Program(t)[i].do = "post" /\ Program(t)[i].evt = e}
<1>1. PostsOf(case, e) = UNION {{t} \X P(t) : t \in Client}
  BY DEF PostsOf, Program
<1>2. ASSUME NEW t \in Client PROVE IsFiniteSet({t} \X P(t))
  <2>1. IsFiniteSet(DOMAIN Program(t))
    BY ProgramShape, FS_Interval
  <2>2. IsFiniteSet(P(t))
    BY <2>1, FS_Subset
  <2> QED
    BY <2>2, FS_Product, FS_Singleton
<1>3. IsFiniteSet({main} \X P(main)) /\ IsFiniteSet({T1} \X P(T1))
      /\ IsFiniteSet({T2} \X P(T2)) /\ IsFiniteSet({T3} \X P(T3))
  <2>1. main \in Client /\ T1 \in Client /\ T2 \in Client /\ T3 \in Client
    BY TestAssumption
  <2> QED
    BY <1>2, <2>1
<1>4. IsFiniteSet(PostsOf(case, e))
  <2> DEFINE A == ({main} \X P(main)) \cup ({T1} \X P(T1))
             B == ({T2} \X P(T2)) \cup ({T3} \X P(T3))
  <2>1. IsFiniteSet(A) /\ IsFiniteSet(B)
    BY <1>3, FS_Union
  <2>2. PostsOf(case, e) \subseteq A \cup B
    BY <1>1, TestAssumption
  <2> HIDE DEF A, B
  <2> QED
    BY <2>1, <2>2, FS_Union, FS_Subset
<1>5. ASSUME NEW x
      PROVE  x \in UNION {{t} \X P(t) : t \in Client} <=>
                /\ x = <<x[1], x[2]>> /\ x[1] \in Client /\ x[2] \in P(x[1])
  OBVIOUS
<1> QED
  BY <1>1, <1>4, <1>5

LEMMA RelevantFinite ==
    ASSUME case \in Cases, NEW q
    PROVE  /\ IsFiniteSet(Relevant(case, q)) /\ Relevant(case, q) \subseteq PostsOf(case, q.evt)
           /\ IsFiniteSet(Returned(q)) /\ Cardinality(Returned(q)) \in Nat
<1>1. Relevant(case, q) \subseteq PostsOf(case, q.evt) /\ Returned(q) \subseteq Relevant(case, q)
  BY DEF Relevant, Returned
<1> QED
  BY <1>1, PostsOfWhat, FS_Subset, FS_CardinalityType

LEMMA ReachedFinite ==
    ASSUME NEW k, NEW e
    PROVE  IsFiniteSet(Reached(k, e)) /\ Cardinality(Reached(k, e)) \in Nat
<1>1. Reached(k, e) \subseteq Client
  BY DEF Reached
<1> QED
  BY <1>1, ClientsFinite, FS_Subset, FS_CardinalityType

LEMMA QueuedWhat ==
    ASSUME NEW k, NEW e
    PROVE  \A n : n \in Queued(k, e) <=> \E s \in Slot : cbProc[s] = k /\ n \in Backlog(s, e)
BY DEF Queued

(* A callback has one slot, so what is queued for it is what is queued there.       *)
LEMMA QueuedAtSlot ==
    ASSUME SlotsInv, NEW k, k # None, NEW e, NEW s \in Slot, cbProc[s] = k
    PROVE  Queued(k, e) = Backlog(s, e)
<1>1. \A r \in Slot : cbProc[r] = k => r = s
  BY DEF SlotsInv, IsFree
<1>2. {r \in Slot : cbProc[r] = k} = {s}
  BY <1>1
<1> QED
  BY <1>2 DEF Queued

LEMMA QueuedFinite ==
    ASSUME LinkInv, SlotsInv, NEW k, k # None, NEW e
    PROVE  IsFiniteSet(Queued(k, e)) /\ Cardinality(Queued(k, e)) \in Nat
<1>1. ASSUME NEW s \in Slot, cbProc[s] = k PROVE IsFiniteSet(Queued(k, e))
  <2>1. Len(handled[s]) + 1 \in Int /\ Len(accepted[s]) \in Int
    BY DEF LinkInv, QueueType
  <2>2. IsFiniteSet(Len(handled[s]) + 1 .. Len(accepted[s]))
    BY <2>1, FS_Interval
  <2>3. Backlog(s, e) \subseteq Len(handled[s]) + 1 .. Len(accepted[s])
    BY DEF Backlog
  <2> QED
    BY <1>1, <2>2, <2>3, QueuedAtSlot, FS_Subset
<1>2. ASSUME \A s \in Slot : cbProc[s] # k PROVE Queued(k, e) = {}
  BY <1>2, QueuedWhat
<1> QED
  BY <1>1, <1>2, FS_EmptySet, FS_CardinalityType

(* The sum of a check over no result, or over one.                                  *)
LEMMA CountedOne ==
    ASSUME CountersType, NEW q, q.evt \in EvtID,
           q.results = {} \/ \E r \in {"TIMEOUT", "NO_EVT_SUBER"} : q.results = {r}
    PROVE  /\ Counted(q) <=> q.n = count[q.key][q.evt] + Tallied(q)
           /\ Tallied(q) \in Nat
           /\ \A r : q.results = {r} => Tallied(q) = tally[q.evt][r]
<1>1. CASE q.results = {}
  <2>1. FoldSet(LAMBDA r, n : tally[q.evt][r] + n, 0, {}) = 0
    BY DEF FoldSet, MapThenFoldSet
  <2> QED
    BY <1>1, <2>1 DEF Counted, Tallied
<1>2. ASSUME NEW r \in {"TIMEOUT", "NO_EVT_SUBER"}, q.results = {r}
      PROVE  /\ Counted(q) <=> q.n = count[q.key][q.evt] + Tallied(q)
             /\ Tallied(q) = tally[q.evt][r] /\ tally[q.evt][r] \in Nat
  <2>1. tally[q.evt][r] \in Nat
    BY DEF CountersType
  <2>2. FoldSet(LAMBDA x, n : tally[q.evt][x] + n, 0, {r}) = tally[q.evt][r]
    <3> DEFINE Sums(f) == [s \in SUBSET {r} |->
                             IF s = {} THEN 0
                             ELSE LET x == CHOOSE x \in s : TRUE
                                  IN  tally[q.evt][x] + f[s \ {x}]]
               sum == CHOOSE f : f = Sums(f)
               w == [s \in SUBSET {r} |-> IF s = {} THEN 0 ELSE tally[q.evt][r]]
    <3>1. FoldSet(LAMBDA x, n : tally[q.evt][x] + n, 0, {r}) = sum[{r}]
      BY DEF FoldSet, MapThenFoldSet
    <3>2. w = Sums(w)
      <4>1. \A s \in SUBSET {r} : s # {} =>
               s = {r} /\ (CHOOSE x \in s : TRUE) = r /\ s \ {r} = {}
        OBVIOUS
      <4>2. ASSUME NEW s \in SUBSET {r} PROVE w[s] = Sums(w)[s]
        BY <2>1, <4>1
      <4> QED
        BY <4>2
    <3>3. sum = Sums(sum)
      BY <3>2
    <3>4. sum[{r}] = tally[q.evt][r] + sum[{}] /\ sum[{}] = 0
      BY <3>3
    <3>5. sum[{r}] = tally[q.evt][r]
      BY <2>1, <3>4
    <3> HIDE DEF sum
    <3> QED
      BY <3>1, <3>5, Zenon
  <2> QED
    BY <1>2, <2>1, <2>2 DEF Counted, Tallied
<1> QED
  BY <1>1, <1>2

\* What is known of every state of a test that the lemmas below use.
Facts ==
    /\ LinkInv /\ HistInv /\ LifeInv
    /\ StepInv /\ PlaceInv /\ ThreadsInv /\ SlotsInv /\ ResultInv /\ ModeInv
    /\ CountersType /\ DeliveryInv

(* A callback has one slot.                                                         *)
LEMMA OnlySlot ==
    ASSUME SlotsInv, NEW r \in Slot, NEW s \in Slot, cbProc[r] = cbProc[s], cbProc[s] # None
    PROVE  r = s
BY DEF SlotsInv, IsFree

(* The post a client makes is one of its program.                                   *)
LEMMA PostMade ==
    ASSUME Facts, NEW t \in Client, pc[t] \in InCall
    PROVE  /\ step[t] \in DOMAIN Program(t) /\ Instr(t) = Program(t)[step[t]]
           /\ Instr(t).do = "post" /\ Instr(t).evt = EvtOf[evt[t]] /\ opt[t] = Instr(t).opt
           /\ <<t, step[t]>> \in PostsOf(case, EvtOf[evt[t]])
           /\ case \in Cases /\ step[main] \in DOMAIN Program(main)
           /\ IF t = main THEN step[main] = step[t] ELSE RunsAt(Program(main), t, step[main])
<1>1. StepInv /\ PlaceInv /\ ThreadsInv /\ case \in Cases
  BY DEF Facts, StepInv
<1>2. /\ step[t] \in DOMAIN Program(t) /\ Instr(t) = Program(t)[step[t]]
      /\ Instr(t).do = "post" /\ Instr(t).evt = EvtOf[evt[t]] /\ opt[t] = Instr(t).opt
  BY <1>1 DEF PlaceInv, Instr
<1> DEFINE x == <<t, step[t]>>
<1>3. x = <<x[1], x[2]>> /\ x[1] = t /\ x[2] = step[t]
  OBVIOUS
<1> HIDE DEF x
<1>4. x \in PostsOf(case, EvtOf[evt[t]])
  BY <1>1, <1>2, <1>3, PostsOfWhat
<1> QED
  BY <1>1, <1>2, <1>4, MainMeanwhile DEF x

(* While a client posts, what is subscribed is what the program has subscribed.     *)
LEMMA SlotsMeanwhile ==
    ASSUME Facts, NEW t \in Client, pc[t] \in InCall
    PROVE  /\ \A s \in Slot : ~IsFree(s) => \E j \in live : Subscribed(s, j)
           /\ \A j \in live :
                 \/ \E s \in Slot : Subscribed(s, j)
                 \/ pc[suber] \in InUnsub /\ Drops(Instr(suber), Program(suber)[j].key)
           /\ (\E j \in 1 .. step[suber] - 1 : Asks(Program(suber)[j])) => inited
           /\ \A j \in live : j \in DOMAIN Program(suber) /\ Asks(Program(suber)[j])
<1>1. step[main] \in DOMAIN Program(main) /\ case \in Cases /\ main \in Client
  BY PostMade, TestAssumption
<1>2. suber # main \/ step[suber] # Len(Program(suber)) + 1
  BY <1>1, ProgramShape
<1>3. /\ suber \in Client /\ Len(Program(suber)) \in Nat
      /\ DOMAIN Program(suber) = 1 .. Len(Program(suber))
      /\ step[suber] \in Nat /\ step[suber] <= Len(Program(suber)) + 1
  BY <1>1, SuberIsClient, ProgramShape DEF Facts, StepInv
<1>4. \A j \in live : j \in DOMAIN Program(suber) /\ Asks(Program(suber)[j])
  BY <1>3 DEF live, LiveAt
<1> QED
  BY <1>2, <1>4 DEF Facts, SlotsInv

(* Where a check counts a result, its callback alone wants the event.               *)
LEMMA WantedByOne ==
    ASSUME Facts, NEW q, CountsOneWay(case, q), q.results # {},
           NEW t \in Client, pc[t] \in InCall, EvtOf[evt[t]] = q.evt,
           NEW s \in Slot, IsMatch(s, evt[t])
    PROVE  cbProc[s] = q.key
<1>1. PICK j \in live : Subscribed(s, j)
  BY SlotsMeanwhile DEF IsMatch, IsFree
<1>2. j \in DOMAIN Program(suber) /\ Asks(Program(suber)[j])
  BY SlotsMeanwhile
<1>3. \A i \in DOMAIN Program(suber) :
          Asks(Program(suber)[i]) /\ q.evt \in Program(suber)[i].ids
              => Program(suber)[i].key = q.key
  BY DEF CountsOneWay, Program, suber
<1> QED
  BY <1>1, <1>2, <1>3 DEF Subscribed, IsMatch

(* A post has reached the callback where it has passed its slot; where a check      *)
(* counts a result, it has not when it is at another slot that wants its event.     *)
LEMMA PastWanted ==
    ASSUME Facts, NEW q, CountsOneWay(case, q),
           NEW t \in Client, pc[t] \in InScan, EvtOf[evt[t]] = q.evt,
           NEW s \in Slot, s < idx[t], cbProc[s] = q.key, IsMatch(s, evt[t]),
           q.results = {} \/ (idx[t] \in Slot /\ IsMatch(idx[t], evt[t]))
    PROVE  q.results = {} /\ res[t] = "SUCCESS" /\ opt[t].wait = "block"
<1>1. CASE q.results = {}
  <2>1. <<t, step[t]>> \in PostsOf(case, q.evt) /\ opt[t] = Program(t)[step[t]].opt
    BY PostMade
  <2>2. opt[t].wait = "block"
    BY <1>1, <2>1 DEF CountsOneWay, Program
  <2>3. res[t] # "TIMEOUT"
    BY <2>2 DEF Facts, ResultInv
  <2>4. res[t] # None /\ res[t] \in Results \cup {None}
    BY DEF Facts, LinkInv, NoSuberIsTrue, FrameType
  <2> QED
    BY <1>1, <2>2, <2>3, <2>4 DEF Results
<1>2. CASE q.results # {}
  <2>1. idx[t] \in Slot /\ cbProc[idx[t]] = q.key /\ idx[t] \in Int
    BY <1>2, WantedByOne DEF Facts, LinkInv, FrameType
  <2>2. idx[t] = s
    BY <2>1, OnlySlot DEF Facts, IsMatch
  <2> QED
    BY <2>1, <2>2
<1> QED
  BY <1>1, <1>2

\* In this step the post of t finds room for its event at q's callback, or calls it.
Comes(t, q) ==
    /\ pc[t] = "post" /\ pc'[t] \in {"signal", "syncCb"}
    /\ cbProc[idx[t]] = q.key /\ EvtOf[evt[t]] = q.evt

(* A client's post that does not return yet is called, locks the mutex, or goes on  *)
(* with its scan.                                                                   *)
LEMMA PostKinds ==
    ASSUME ConlesAssumption, Facts, NEW t \in Client, postEVT(t), pc'[t] # "idle"
    PROVE  \/ \E m \in Msg, o \in Options : PostCall(t, m, o)
           \/ PostLock(t)
           \/ /\ pc[t] \in InScan /\ pc'[t] \in InScan /\ evt'[t] = evt[t]
              /\ \/ PostSkip(t) \/ PostSync(t) \/ PostSyncReturn(t) \/ PostEnqueue(t)
                 \/ PostSignal(t) \/ PostFullNonBlock(t) \/ PostFullRetry(t)
<1>1. /\ LinkInv /\ ModeInv /\ FrameInv /\ t \in Thread /\ t \notin Slot
      /\ pc \in [Thread -> ClientPc \cup AsyncPc] /\ ~(faults < MaxFaults)
  BY TestAssumption, ConlesAssumption DEF Facts, LinkInv, PcType, EnvType
<1>2. CASE pc[t] \in InCall /\ pc'[t] \in InScan /\ evt'[t] = evt[t]
  <2>1. evt[t] # None
    BY <1>1, <1>2, ConlesAssumption DEF FrameInv
  <2>2. \A r : PostReturn(t, r) => evt'[t] = None
    BY <1>1 DEF PostReturn, LinkInv, FrameType
  <2>3. CASE pc[t] = "lock"
    <3>1. ~PostScan(t)
      BY <2>3 DEF PostScan, PostSkip, PostSync, PostSyncReturn, PostEnqueue, PostSignal,
         PostCreateFails, PostFullNonBlock, PostFullTimeout, PostFullRetry, PostDone,
         AtFullQueue, AtMatch
    <3> QED
      BY <1>1, <1>2, <2>1, <2>2, <2>3, <3>1 DEF postEVT, PostCall, PostNoTable,
         PostLockTimeout, postEVT_ASyncThreadCached
  <2>4. CASE pc[t] \in InScan
    <3>1. ~PostCreateFails(t)
      BY <1>1 DEF PostCreateFails
    <3>2. ~PostFullTimeout(t)
      BY <1>1, <2>4 DEF PostFullTimeout, AtFullQueue, AtMatch, ModeInv
    <3>3. ~PostDone(t)
      BY <1>2, <2>1, <2>2 DEF PostDone
    <3>4. PostScan(t)
      BY <1>1, <2>4 DEF postEVT, PostCall, PostLock, PostNoTable, PostLockTimeout,
         postEVT_ASyncThreadCached
    <3> QED
      BY <1>2, <2>4, <3>1, <3>2, <3>3, <3>4 DEF PostScan
  <2> QED
    BY <1>2, <2>3, <2>4
<1>3. ret[t] = "idle" \/ pc[t] = "idle"
  BY <1>1, PostMoves DEF FrameInv
<1> QED
  BY <1>1, <1>2, <1>3, PostMoves

(* A post reaches a callback in one step, and stays there until it returns.         *)
LEMMA PostComes ==
    ASSUME ConlesAssumption, Facts, NEW q, CountsOneWay(case, q),
           NEW t \in Client, postEVT(t), pc'[t] # "idle"
    PROVE  IF Comes(t, q)
           THEN t \in Reached(q.key, q.evt)' /\ t \notin Reached(q.key, q.evt)
           ELSE t \in Reached(q.key, q.evt)' <=> t \in Reached(q.key, q.evt)
<1> DEFINE Met(s, i, p, r) == \/ s < i /\ r = "SUCCESS"
                              \/ s = i /\ p \in {"signal", "syncCb"}
<1>1. /\ LinkInv /\ ModeInv /\ FrameInv /\ SlotsInv
      /\ pc \in [Thread -> ClientPc \cup AsyncPc] /\ idx \in [Thread -> 0 .. MaxSuberNum + 1]
      /\ res \in [Thread -> Results \cup {None}]
      /\ t \in Thread /\ t \notin Slot /\ MaxSuberNum \in Nat
      /\ ~(faults < MaxFaults)
  BY TestAssumption, ConlesAssumption DEF Facts, LinkInv, PcType, FrameType, EnvType
<1>2. UNCHANGED <<cbProc, evtIDs>> /\ t \in Client
  BY <1>1, PostMoves
<1>3. \A s : IsMatch(s, evt[t])' <=> IsMatch(s, evt'[t])
  BY <1>2 DEF IsMatch
<1>4. /\ t \in Reached(q.key, q.evt) <=>
            /\ pc[t] \in InScan /\ EvtOf[evt[t]] = q.evt
            /\ \E s \in Slot : /\ cbProc[s] = q.key /\ IsMatch(s, evt[t])
                               /\ Met(s, idx[t], pc[t], res[t])
      /\ t \in Reached(q.key, q.evt)' <=>
            /\ pc'[t] \in InScan /\ EvtOf[evt'[t]] = q.evt
            /\ \E s \in Slot : /\ cbProc[s] = q.key /\ IsMatch(s, evt'[t])
                               /\ Met(s, idx'[t], pc'[t], res'[t])
  BY <1>2, <1>3 DEF Reached, HasReached
<1>5. CASE \E m \in Msg, o \in Options : PostCall(t, m, o)
  <2>1. pc[t] = "idle" /\ pc'[t] = "lock"
    BY <1>1, <1>5 DEF PostCall, Goto
  <2> QED
    BY <1>4, <2>1 DEF Comes
<1>6. CASE PostLock(t)
  <2>1. pc[t] = "lock" /\ pc'[t] = "post" /\ idx'[t] = 1
    BY <1>1, <1>6 DEF PostLock, Goto
  <2>2. \A s \in Slot : ~Met(s, idx'[t], pc'[t], res'[t])
    BY <2>1
  <2> HIDE DEF Met
  <2> QED
    BY <1>4, <2>1, <2>2 DEF Comes
<1>7. CASE /\ pc[t] \in InScan /\ pc'[t] \in InScan /\ evt'[t] = evt[t]
           /\ \/ PostSkip(t) \/ PostSync(t) \/ PostSyncReturn(t) \/ PostEnqueue(t)
              \/ PostSignal(t) \/ PostFullNonBlock(t) \/ PostFullRetry(t)
  <2>1. CASE EvtOf[evt[t]] # q.evt
    BY <1>4, <1>7, <2>1 DEF Comes
  <2>2. CASE EvtOf[evt[t]] = q.evt
    <3> DEFINE m == evt[t]
    <3>1. SUFFICES
             IF Comes(t, q)
             THEN /\ \E s \in Slot : /\ cbProc[s] = q.key /\ IsMatch(s, m)
                                     /\ Met(s, idx'[t], pc'[t], res'[t])
                  /\ ~\E s \in Slot : /\ cbProc[s] = q.key /\ IsMatch(s, m)
                                      /\ Met(s, idx[t], pc[t], res[t])
             ELSE \A s \in Slot : cbProc[s] = q.key /\ IsMatch(s, m) =>
                     (Met(s, idx'[t], pc'[t], res'[t]) <=> Met(s, idx[t], pc[t], res[t]))
      <4> HIDE DEF Met
      <4> QED
        BY <1>4, <1>7, <2>2
    <3>2. ASSUME NEW s \in Slot, s < idx[t], cbProc[s] = q.key, IsMatch(s, m),
                 q.results = {} \/ (idx[t] \in Slot /\ IsMatch(idx[t], m))
          PROVE  res[t] = "SUCCESS" /\ opt[t].wait = "block"
      BY <1>7, <2>2, <3>2, PastWanted
    <3>3. ASSUME NEW s \in Slot, idx[t] \in Slot, cbProc[s] = q.key, IsMatch(s, m),
                 cbProc[idx[t]] = q.key
          PROVE  s = idx[t]
      BY <1>1, <3>3, OnlySlot DEF IsMatch
    <3>4. pc[t] \in {"signal", "syncCb"} => idx[t] \in Slot /\ IsMatch(idx[t], m)
      BY <1>1 DEF FrameInv, Facts, DeliveryInv, Delivers
    <3>5. pc[t] = "signal" => res[t] = "SUCCESS"
      BY DEF Facts, DeliveryInv, Delivers
    <3>6. idx[t] \in Int /\ \A s \in Slot : s \in Int
      BY <1>1
    <3> HIDE DEF m
    <3>7. CASE PostSkip(t)
      <4>1. pc[t] = "post" /\ pc'[t] = "post" /\ idx'[t] = idx[t] + 1 /\ res'[t] = res[t]
            /\ ~IsMatch(idx[t], m)
        BY <1>1, <3>7 DEF PostSkip, NextSlot, m
      <4> QED
        BY <3>6, <4>1 DEF Comes
    <3>8. CASE PostSync(t)
      <4>1. pc[t] = "post" /\ pc'[t] = "syncCb" /\ idx'[t] = idx[t] /\ res'[t] = res[t]
            /\ IsMatch(idx[t], m) /\ idx[t] \in Slot
        BY <1>1, <3>8 DEF PostSync, AtMatch, Goto, m
      <4> QED
        BY <2>2, <3>3, <3>6, <4>1 DEF Comes
    <3>9. CASE PostSyncReturn(t)
      <4>1. pc[t] = "syncCb" /\ pc'[t] = "post" /\ idx'[t] = idx[t] + 1 /\ res'[t] = "SUCCESS"
        BY <1>1, <3>9 DEF PostSyncReturn, NextSlot, Goto
      <4> QED
        BY <3>2, <3>4, <3>6, <4>1 DEF Comes
    <3>10. CASE PostEnqueue(t)
      <4>1. pc[t] = "post" /\ pc'[t] = "signal" /\ idx'[t] = idx[t] /\ res'[t] = "SUCCESS"
            /\ IsMatch(idx[t], m) /\ idx[t] \in Slot
        BY <1>1, <3>10 DEF PostEnqueue, AtMatch, m
      <4> QED
        BY <2>2, <3>2, <3>3, <3>6, <4>1 DEF Comes
    <3>11. CASE PostSignal(t)
      <4>1. pc[t] = "signal" /\ pc'[t] = "post" /\ idx'[t] = idx[t] + 1 /\ res'[t] = res[t]
        BY <1>1, <3>4, <3>11 DEF PostSignal, NextSlot, SignalAndGoto
      <4> QED
        BY <3>4, <3>5, <3>6, <4>1 DEF Comes
    <3>12. CASE PostFullNonBlock(t)
      <4>1. pc[t] = "post" /\ pc'[t] = "post" /\ idx'[t] = idx[t] + 1 /\ res'[t] = "TIMEOUT"
            /\ IsMatch(idx[t], m) /\ idx[t] \in Slot /\ opt[t].wait = "nonblock"
        BY <1>1, <3>12 DEF PostFullNonBlock, NextSlot, AtFullQueue, AtMatch, m
      <4> QED
        BY <3>2, <3>6, <4>1 DEF Comes
    <3>13. CASE PostFullRetry(t)
      <4>1. pc[t] = "post" /\ pc'[t] = "post" /\ idx'[t] = idx[t] /\ res'[t] = res[t]
        BY <1>1, <3>13 DEF PostFullRetry, SignalAndGoto, AtFullQueue, AtMatch
      <4> QED
        BY <4>1 DEF Comes
    <3> QED
      BY <1>7, <3>7, <3>8, <3>9, <3>10, <3>11, <3>12, <3>13
  <2> QED
    BY <2>1, <2>2
<1> QED
  BY <1>5, <1>6, <1>7, PostKinds

(* Where a check counts no result, a post that blocks has been to the callback if   *)
(* the callback's subscription gets it.                                             *)
LEMMA BlockingAnswer ==
    ASSUME ConlesAssumption, Facts, NEW q, CountsOneWay(case, q), q.results = {},
           NEW t \in Client, pc[t] \in InCall, EvtOf[evt[t]] = q.evt,
           PostNoTable(t) \/ PostLockTimeout(t) \/ PostDone(t)
    PROVE  <<t, step[t]>> \in Relevant(case, q) <=> t \in Reached(q.key, q.evt)
<1> DEFINE x == <<t, step[t]>>
           p == Program(main)
           n == step[main]
<1>1. /\ x \in PostsOf(case, q.evt) /\ opt[t] = Program(t)[step[t]].opt
      /\ step[t] \in DOMAIN Program(t) /\ Program(t)[step[t]].do = "post" /\ case \in Cases
      /\ n \in DOMAIN p /\ IF t = main THEN n = step[t] ELSE RunsAt(p, t, n)
  BY PostMade
<1>2. /\ opt[t].wait = "block" /\ case # "State_Case02"
      /\ \/ Gets(case, t, step[t], q.key, q.evt)
         \/ GetsNot(case, t, step[t], q.key, q.evt)
  <2>1. x[1] = t /\ x[2] = step[t]
    OBVIOUS
  <2> HIDE DEF x
  <2> QED
    BY <1>1, <2>1 DEF CountsOneWay, Program
<1>3. x \in Relevant(case, q) <=> Gets(case, t, step[t], q.key, q.evt)
  BY <1>1 DEF Relevant
<1>4. suber = main /\ live = LiveAt(p, n) /\ Instr(suber) = p[n]
  BY <1>2 DEF suber, Subscriber, live, Instr
<1>5. n \in Meanwhile(case, t, step[t])
  BY <1>1 DEF Meanwhile, Program
<1>6. PostDone(t)
  <2>1. ~PostLockTimeout(t)
    BY <1>2 DEF PostLockTimeout
  <2>2. \E j \in 1 .. n - 1 : Asks(p[j])
    BY <1>1, <1>2, Wanted
  <2>3. inited
    BY <1>4, <2>2, SlotsMeanwhile
  <2> QED
    BY <2>1, <2>3 DEF PostNoTable
<1>7. pc[t] = "post" /\ idx[t] > MaxSuberNum /\ \A s \in Slot : s < idx[t]
  BY <1>6, ConlesAssumption DEF PostDone, Facts, LinkInv, FrameType
<1>8. ASSUME Gets(case, t, step[t], q.key, q.evt) PROVE t \in Reached(q.key, q.evt)
  <2>1. PICK j \in live : p[j].key = q.key /\ q.evt \in p[j].ids /\ ~Drops(p[n], q.key)
    BY <1>4, <1>5, <1>8 DEF Gets, Program
  <2>2. PICK s \in Slot : Subscribed(s, j)
    BY <1>4, <2>1, SlotsMeanwhile
  <2>3. cbProc[s] = q.key /\ IsMatch(s, evt[t])
    <3>1. evtIDs[s] # None
      BY <2>2, NothingFailed DEF Facts, LinkInv, CountInv, Subscribed
    <3> QED
      BY <1>4, <2>1, <2>2, <3>1 DEF Subscribed, IsMatch, IsFree
  <2>4. res[t] = "SUCCESS"
    BY <1>7, <2>3, PastWanted
  <2> QED
    BY <1>7, <2>3, <2>4 DEF Reached, HasReached
<1>9. ASSUME GetsNot(case, t, step[t], q.key, q.evt) PROVE t \notin Reached(q.key, q.evt)
  <2>1. SUFFICES ASSUME NEW s \in Slot, cbProc[s] = q.key, IsMatch(s, evt[t]) PROVE FALSE
    BY DEF Reached, HasReached
  <2>2. PICK j \in live : Subscribed(s, j)
    BY <2>1, SlotsMeanwhile DEF IsMatch, IsFree
  <2>3. p[j].key = q.key /\ q.evt \in p[j].ids
    BY <1>4, <2>1, <2>2 DEF Subscribed, IsMatch
  <2> QED
    BY <1>4, <1>5, <1>9, <2>3 DEF GetsNot, Program
<1> QED
  BY <1>2, <1>3, <1>8, <1>9

(* Where a check counts a result, a post returns it, or has been to the callback.   *)
LEMMA CountedAnswer ==
    ASSUME ConlesAssumption, Facts, NEW q, CountsOneWay(case, q), q.results # {},
           NEW t \in Client, pc[t] \in InCall, EvtOf[evt[t]] = q.evt,
           PostNoTable(t) \/ PostLockTimeout(t) \/ PostDone(t),
           ResultOf(t) \in Instr(t).want
    PROVE  /\ <<t, step[t]>> \in Relevant(case, q)
           /\ ResultOf(t) \in q.results <=> t \notin Reached(q.key, q.evt)
<1>1. PICK r \in {"TIMEOUT", "NO_EVT_SUBER"} :
         /\ q.results = {r}
         /\ \A x \in PostsOf(case, q.evt) : Programs[case][x[1]][x[2]].want \subseteq {"SUCCESS", r}
  BY DEF CountsOneWay
<1> DEFINE x == <<t, step[t]>>
<1>2. x \in PostsOf(case, q.evt) /\ Instr(t) = Program(t)[step[t]]
  BY PostMade
<1>3. Instr(t).want \subseteq {"SUCCESS", r}
  <2>1. x[1] = t /\ x[2] = step[t]
    OBVIOUS
  <2> HIDE DEF x
  <2> QED
    BY <1>1, <1>2, <2>1 DEF Program
<1>4. x \in Relevant(case, q)
  BY <1>2 DEF Relevant
<1>5. CASE PostNoTable(t)
  <2>1. ResultOf(t) = "NOT_FOUND"
    BY <1>5 DEF ResultOf, PostNoTable
  <2> QED
    BY <1>1, <1>3, <2>1
<1>6. CASE PostLockTimeout(t)
  <2>1. ResultOf(t) = "TIMEOUT" /\ pc[t] = "lock"
    BY <1>6 DEF ResultOf, PostLockTimeout
  <2> QED
    BY <1>1, <1>3, <1>4, <2>1 DEF Reached, HasReached
<1>7. CASE PostDone(t)
  <2>1. pc[t] = "post" /\ None # "SUCCESS"
    BY <1>7, ConlesAssumption DEF PostDone
  <2>2. ResultOf(t) = IF res[t] = None THEN "NO_EVT_SUBER" ELSE res[t]
    BY <2>1 DEF ResultOf
  <2>3. CASE ResultOf(t) = "SUCCESS"
    <3>1. res[t] = "SUCCESS"
      BY <2>2, <2>3
    <3>2. PICK s \in Slot : s < idx[t] /\ IsMatch(s, evt[t])
      BY <2>1, <3>1 DEF Facts, DeliveryInv, Delivers
    <3>3. cbProc[s] = q.key
      BY <3>2, WantedByOne
    <3> QED
      BY <1>1, <1>4, <2>1, <2>3, <3>1, <3>2, <3>3 DEF Reached, HasReached
  <2>4. CASE ResultOf(t) # "SUCCESS"
    <3>1. res[t] # "SUCCESS"
      BY <2>1, <2>2, <2>4
    <3> QED
      BY <1>1, <1>3, <1>4, <2>1, <2>4, <3>1 DEF Reached, HasReached
  <2> QED
    BY <2>3, <2>4
<1> QED
  BY <1>5, <1>6, <1>7

(* The posts that have returned stay the same unless a thread goes on from one,     *)
LEMMA ReturnedKept ==
    ASSUME StepInv, case' = case, NEW q,
           \A t \in Client : \/ step'[t] = step[t]
                             \/ step'[t] = step[t] + 1 /\ ~At(t, "post")
    PROVE  Returned(q)' = Returned(q)
<1>1. ASSUME NEW x \in Relevant(case, q) PROVE x[2] < step'[x[1]] <=> x[2] < step[x[1]]
  <2>1. /\ x[1] \in Client /\ x[2] \in DOMAIN Program(x[1])
        /\ Program(x[1])[x[2]].do = "post" /\ case \in Cases
    BY RelevantFinite, PostsOfWhat DEF StepInv
  <2>2. x[2] \in Int /\ step[x[1]] \in Int
    BY <2>1, ProgramShape DEF StepInv
  <2>3. ~At(x[1], "post") => x[2] # step[x[1]]
    BY <2>1 DEF At, Instr
  <2> QED
    BY <2>1, <2>2, <2>3
<1> QED
  BY <1>1 DEF Returned

(* and then it is this post that has returned.                                      *)
LEMMA ReturnedGrows ==
    ASSUME StepInv, case' = case, NEW q, NEW t \in Client, At(t, "post"),
           step' = [step EXCEPT ![t] = @ + 1]
    PROVE  /\ <<t, step[t]>> \notin Returned(q)
           /\ Returned(q)' = Returned(q) \cup
                 (IF <<t, step[t]>> \in Relevant(case, q) THEN {<<t, step[t]>>} ELSE {})
<1> DEFINE y == <<t, step[t]>>
<1>1. y[1] = t /\ y[2] = step[t] /\ step[t] \in Int /\ step \in [Client -> Nat]
  BY DEF StepInv
<1>2. \A x : x = <<x[1], x[2]>> /\ x[1] = t /\ x[2] = step[t] => x = y
  OBVIOUS
<1> HIDE DEF y
<1>3. ASSUME NEW x \in Relevant(case, q)
      PROVE  x[2] < step'[x[1]] <=> x[2] < step[x[1]] \/ x = y
  <2>1. /\ x = <<x[1], x[2]>> /\ x[1] \in Client /\ x[2] \in DOMAIN Program(x[1])
        /\ case \in Cases
    BY RelevantFinite, PostsOfWhat DEF StepInv
  <2>2. x[2] \in Int /\ step[x[1]] \in Int
    BY <2>1, ProgramShape DEF StepInv
  <2>3. CASE x[1] = t
    <3>1. x = y <=> x[2] = step[t]
      BY <1>1, <1>2, <2>1, <2>3
    <3> QED
      BY <1>1, <2>2, <2>3, <3>1
  <2>4. CASE x[1] # t
    BY <1>1, <2>1, <2>2, <2>4
  <2> QED
    BY <2>3, <2>4
<1>4. y \notin Returned(q)
  BY <1>1 DEF Returned
<1>5. Returned(q)' = {x \in Relevant(case, q) : x[2] < step'[x[1]]}
  BY DEF Returned
<1>6. Returned(q)' = Returned(q) \cup (IF y \in Relevant(case, q) THEN {y} ELSE {})
  BY <1>3, <1>5 DEF Returned
<1> QED
  BY <1>4, <1>6 DEF y

(* What is behind the handled events of a slot is queued.                           *)
LEMMA BacklogShape ==
    ASSUME LinkInv, HistInv, NEW s \in Slot
    PROVE  /\ Len(handled[s]) \in Nat /\ Len(accepted[s]) \in Nat
           /\ Len(accepted[s]) = Len(handled[s]) + Len(queue[s])
           /\ Len(handled[s]) <= Len(accepted[s])
           /\ queue[s] = <<>> => \A e : Backlog(s, e) = {}
           /\ queue[s] # <<>> => /\ Len(handled[s]) + 1 <= Len(accepted[s])
                                 /\ accepted[s][Len(handled[s]) + 1] = Head(queue[s])
<1>1. handled[s] \in Seq(Msg) /\ accepted[s] \in Seq(Msg) /\ queue[s] \in Seq(Msg)
      /\ accepted[s] = handled[s] \o queue[s]
  BY DEF LinkInv, QueueType, HistInv
<1>2. /\ Len(handled[s]) \in Nat /\ Len(accepted[s]) \in Nat /\ Len(queue[s]) \in Nat
      /\ Len(accepted[s]) = Len(handled[s]) + Len(queue[s])
  BY <1>1, LenProperties, ConcatProperties
<1>5. Len(handled[s]) <= Len(accepted[s])
  <2>1. \A a, b \in Nat : a <= a + b
    OBVIOUS
  <2> QED
    BY <1>2, <2>1, Zenon
<1>3. ASSUME queue[s] = <<>>, NEW e PROVE Backlog(s, e) = {}
  <2>1. Len(queue[s]) = 0
    BY <1>3, SeqFacts
  <2>2. \A n : n \notin Len(handled[s]) + 1 .. Len(accepted[s])
    BY <1>2, <2>1
  <2> QED
    BY <2>2 DEF Backlog
<1>4. ASSUME queue[s] # <<>>
      PROVE  /\ Len(handled[s]) + 1 <= Len(accepted[s])
             /\ accepted[s][Len(handled[s]) + 1] = Head(queue[s])
  <2>1. Len(queue[s]) >= 1 /\ Head(queue[s]) = queue[s][1]
    BY <1>1, <1>2, <1>4, HeadTailProperties, EmptySeq, SeqFacts
  <2>2. (handled[s] \o queue[s])[Len(handled[s]) + 1] = queue[s][1]
    <3> DEFINE h == handled[s]
               q == queue[s]
               i == Len(h) + 1
    <3>1. i \in 1 .. Len(h) + Len(q) /\ ~(i <= Len(h)) /\ i - Len(h) = 1
      <4>1. \A a, b \in Nat : b >= 1 =>
               a + 1 \in 1 .. a + b /\ ~(a + 1 <= a) /\ (a + 1) - a = 1
        OBVIOUS
      <4> QED
        BY <1>2, <2>1, <4>1, Zenon
    <3>2. h \in Seq(Msg) /\ q \in Seq(Msg)
      BY <1>1
    <3>3. \A j \in 1 .. Len(h) + Len(q) :
             (h \o q)[j] = IF j <= Len(h) THEN h[j] ELSE q[j - Len(h)]
      BY <3>2, ConcatProperties
    <3> HIDE DEF h, q, i
    <3>4. (h \o q)[i] = q[1]
      BY <3>1, <3>3
    <3> QED
      BY <3>4 DEF h, q, i
  <2> QED
    BY <1>1, <1>2, <2>1, <2>2
<1> QED
  BY <1>2, <1>3, <1>4, <1>5

\* A slot whose queue is empty has no backlog.
NoBacklog == \A s \in Slot : queue[s] = <<>> => \A e : Backlog(s, e) = {}
LEMMA EmptyBacklog == LinkInv /\ HistInv => NoBacklog
  BY BacklogShape DEF NoBacklog

(* Nothing changes in what is queued for a callback while slots only change hands   *)
(* with an empty queue.                                                             *)
LEMMA QueuedStays ==
    ASSUME LinkInv, HistInv, LinkInv', HistInv', NEW k, NEW e,
           \A s \in Slot : \/ /\ cbProc'[s] = cbProc[s]
                              /\ handled'[s] = handled[s] /\ accepted'[s] = accepted[s]
                           \/ queue[s] = <<>> /\ queue'[s] = <<>>
    PROVE  Queued(k, e)' = Queued(k, e)
<1>1. NoBacklog
  BY EmptyBacklog
<1>2. NoBacklog'
  <2>1. (LinkInv /\ HistInv => NoBacklog)'
    BY EmptyBacklog, PTL
  <2> QED
    BY <2>1
<1>3. ASSUME NEW s \in Slot
      PROVE  \/ cbProc'[s] = cbProc[s] /\ Backlog(s, e)' = Backlog(s, e)
             \/ Backlog(s, e)' = {} /\ Backlog(s, e) = {}
  <2>1. CASE handled'[s] = handled[s] /\ accepted'[s] = accepted[s] /\ cbProc'[s] = cbProc[s]
    BY <2>1 DEF Backlog
  <2>2. CASE queue[s] = <<>> /\ queue'[s] = <<>>
    BY <1>1, <1>2, <2>2 DEF NoBacklog
  <2> QED
    BY <2>1, <2>2
<1> QED
  BY <1>3 DEF Queued

(* An event that finds room at a callback's slot is queued for it,                  *)
LEMMA QueuedGrows ==
    ASSUME LinkInv, HistInv, SlotsInv, NEW t \in Thread, PostEnqueue(t),
           NEW r \in Slot, r = idx[t], NEW k, k # None, NEW e
    PROVE  Cardinality(Queued(k, e)') = Cardinality(Queued(k, e)) +
               (IF cbProc[r] = k /\ EvtOf[evt[t]] = e THEN 1 ELSE 0)
<1> DEFINE m == evt[t]
           n == Len(accepted[r]) + 1
<1>1. /\ m \in Msg /\ UNCHANGED <<cbProc, handled>>
      /\ accepted \in [Slot -> Seq(Msg)] /\ accepted' = [accepted EXCEPT ![r] = Append(@, m)]
  BY DEF PostEnqueue, AtMatch, LinkInv, FrameInv, QueueType
<1>2. /\ Len(accepted[r]) \in Nat /\ Len(handled[r]) \in Nat
      /\ Len(handled[r]) <= Len(accepted[r])
  BY BacklogShape
<1>3. /\ Len(accepted'[r]) = n /\ accepted'[r][n] = m
      /\ \A i \in 1 .. Len(accepted[r]) : accepted'[r][i] = accepted[r][i]
  BY <1>1, AppendProperties
<1>4. \A s \in Slot : s # r => Backlog(s, e)' = Backlog(s, e)
  BY <1>1 DEF Backlog
<1>5. Backlog(r, e)' = Backlog(r, e) \cup (IF EvtOf[m] = e THEN {n} ELSE {})
  <2>1. Backlog(r, e)' = {i \in Len(handled[r]) + 1 .. n : EvtOf[accepted'[r][i]] = e}
    BY <1>1, <1>3 DEF Backlog
  <2>2. /\ Len(handled[r]) + 1 .. n = (Len(handled[r]) + 1 .. Len(accepted[r])) \cup {n}
        /\ Len(handled[r]) + 1 .. Len(accepted[r]) \subseteq 1 .. Len(accepted[r])
    <3>1. \A a, b \in Nat : b <= a =>
             b + 1 .. a + 1 = (b + 1 .. a) \cup {a + 1} /\ b + 1 .. a \subseteq 1 .. a
      OBVIOUS
    <3> QED
      BY <1>2, <3>1, Zenon
  <2> HIDE DEF n, m
  <2> QED
    BY <1>3, <2>1, <2>2 DEF Backlog
<1>6. n \notin Backlog(r, e)
  BY <1>2 DEF Backlog
<1>7. IsFiniteSet(Queued(k, e)) /\ Cardinality(Queued(k, e)) \in Nat
  BY QueuedFinite
<1>8. CASE cbProc[r] = k
  <2>1. {s \in Slot : cbProc[s] = k} = {r}
    BY <1>1, <1>8, OnlySlot
  <2>2. Queued(k, e) = Backlog(r, e) /\ Queued(k, e)' = Backlog(r, e)'
    BY <1>1, <2>1 DEF Queued
  <2>3. Cardinality(Backlog(r, e) \cup {n}) = Cardinality(Backlog(r, e)) + 1
    BY <1>6, <1>7, <2>2, FS_AddElement
  <2>4. CASE EvtOf[m] = e
    <3>1. Queued(k, e)' = Backlog(r, e) \cup {n}
      BY <1>5, <2>2, <2>4
    <3> QED
      BY <1>8, <2>2, <2>3, <2>4, <3>1
  <2>5. CASE EvtOf[m] # e
    <3>1. Queued(k, e)' = Queued(k, e)
      BY <1>5, <2>2, <2>5
    <3> QED
      BY <1>7, <2>5, <3>1
  <2> QED
    BY <2>4, <2>5
<1>9. CASE cbProc[r] # k
  <2>1. Queued(k, e)' = Queued(k, e)
    BY <1>1, <1>4, <1>9 DEF Queued
  <2> QED
    BY <1>7, <1>9, <2>1
<1> QED
  BY <1>8, <1>9

(* and one that is taken out of the queue no longer is.                             *)
LEMMA QueuedShrinks ==
    ASSUME LinkInv, HistInv, SlotsInv, NEW s \in Slot, AsyncTake(s),
           NEW k, k # None, NEW e
    PROVE  /\ Cardinality(Queued(k, e)) = Cardinality(Queued(k, e)') +
                 (IF cbProc[s] = k /\ EvtOf[Head(queue[s])] = e THEN 1 ELSE 0)
           /\ Cardinality(Queued(k, e)') \in Nat
<1> DEFINE m == Head(queue[s])
           n == Len(handled[s]) + 1
<1>1. /\ m \in Msg /\ UNCHANGED <<cbProc, accepted>> /\ queue[s] # <<>>
      /\ handled \in [Slot -> Seq(Msg)] /\ handled' = [handled EXCEPT ![s] = Append(@, m)]
  BY SeqFacts DEF AsyncTake, IsEmpty, LinkInv, QueueType
<1>2. /\ Len(accepted[s]) \in Nat /\ Len(handled[s]) \in Nat
      /\ n <= Len(accepted[s]) /\ accepted[s][n] = m
  BY <1>1, BacklogShape
<1>3. Len(handled'[s]) = n
  BY <1>1, AppendProperties
<1>4. \A r \in Slot : r # s => Backlog(r, e)' = Backlog(r, e)
  BY <1>1 DEF Backlog
<1>5. Backlog(s, e)' = Backlog(s, e) \ {n} /\ (n \in Backlog(s, e) <=> EvtOf[m] = e)
  <2>1. Backlog(s, e)' = {i \in n + 1 .. Len(accepted[s]) : EvtOf[accepted[s][i]] = e}
    BY <1>1, <1>3 DEF Backlog
  <2> QED
    BY <1>2, <2>1 DEF Backlog
<1>6. IsFiniteSet(Queued(k, e)) /\ Cardinality(Queued(k, e)) \in Nat
  BY QueuedFinite
<1>7. CASE cbProc[s] = k
  <2>1. {r \in Slot : cbProc[r] = k} = {s}
    BY <1>1, <1>7, OnlySlot
  <2>2. Queued(k, e) = Backlog(s, e) /\ Queued(k, e)' = Backlog(s, e)'
    BY <1>1, <2>1 DEF Queued
  <2>3. CASE EvtOf[m] = e
    <3>1. /\ Cardinality(Queued(k, e) \ {n}) = Cardinality(Queued(k, e)) - 1
          /\ Cardinality(Queued(k, e) \ {n}) \in Nat
      <4>1. n \in Queued(k, e)
        BY <1>5, <2>2, <2>3
      <4> HIDE DEF n
      <4>2. Cardinality(Queued(k, e) \ {n}) = Cardinality(Queued(k, e)) - 1
        BY <1>6, <4>1, FS_RemoveElement
      <4>3. IsFiniteSet(Queued(k, e) \ {n})
        BY <1>6, FS_Subset
      <4> QED
        BY <4>2, <4>3, FS_CardinalityType
    <3> QED
      BY <1>5, <1>6, <1>7, <2>2, <2>3, <3>1
  <2>4. CASE EvtOf[m] # e
    <3>1. Queued(k, e)' = Queued(k, e)
      BY <1>5, <2>2, <2>4
    <3> QED
      BY <1>6, <1>7, <2>4, <3>1
  <2> QED
    BY <2>3, <2>4
<1>8. CASE cbProc[s] # k
  <2>1. Queued(k, e)' = Queued(k, e)
    BY <1>1, <1>4, <1>8 DEF Queued
  <2> QED
    BY <1>6, <1>8, <2>1
<1> QED
  BY <1>7, <1>8

(* A claim stays balanced where all that it is about stays the same.                *)
LEMMA BalanceKept ==
    ASSUME NEW q, Balanced(q), UNCHANGED <<count, tally>>,
           Queued(q.key, q.evt)' = Queued(q.key, q.evt), Returned(q)' = Returned(q),
           Reached(q.key, q.evt)' = Reached(q.key, q.evt)
    PROVE  Balanced(q)'
BY DEF Balanced, Tallied

(* What a client has reached does not change by another one's doing.                *)
LEMMA ReachedSame ==
    ASSUME NEW u \in Client, NEW k, NEW e, pc'[u] = pc[u],
           \/ pc[u] \notin InScan
           \/ /\ UNCHANGED <<cbProc, evtIDs>>
              /\ idx'[u] = idx[u] /\ res'[u] = res[u] /\ evt'[u] = evt[u]
    PROVE  u \in Reached(k, e)' <=> u \in Reached(k, e)
<1>1. CASE pc[u] \notin InScan
  BY <1>1 DEF Reached, HasReached
<1>2. CASE /\ UNCHANGED <<cbProc, evtIDs>>
           /\ idx'[u] = idx[u] /\ res'[u] = res[u] /\ evt'[u] = evt[u]
  BY <1>2 DEF Reached, HasReached, IsMatch
<1> QED
  BY <1>1, <1>2

(* A subEVT or an unsubEVT gives or takes an empty queue.                           *)
LEMMA SubsQueues ==
    ASSUME ConlesAssumption, Facts, Facts', NEW t \in Client, subEVT(t) \/ unsubEVT(t),
           NEW k, NEW e
    PROVE  Queued(k, e)' = Queued(k, e)
<1>1. LinkInv /\ LinkInv' /\ HistInv /\ HistInv' /\ LifeInv /\ ~(faults < MaxFaults)
  BY TestAssumption DEF Facts, LinkInv, EnvType
<1>2. SUFFICES
        \A s \in Slot : \/ /\ cbProc'[s] = cbProc[s]
                           /\ handled'[s] = handled[s] /\ accepted'[s] = accepted[s]
                        \/ queue[s] = <<>> /\ queue'[s] = <<>>
  BY <1>1, QueuedStays
<1>3. CASE SubInstall(t)
  BY <1>1, <1>3, FillShape DEF LinkInv
<1>4. CASE UnsubClear(t) \/ UnsubJoin(t)
  BY <1>1, <1>4, ClearShape DEF LinkInv, LifeInv
<1>5. CASE UNCHANGED <<tableVars, slotVars>>
  BY <1>5
<1>6. CASE subEVT(t)
  BY <1>1, <1>3, <1>5, <1>6 DEF subEVT, SubLock, SubReject, SubNoFreeSlot, SubMallocFails,
     SubCallocFails
<1>7. CASE unsubEVT(t)
  BY <1>4, <1>5, <1>7 DEF unsubEVT, UnsubLock, UnsubNoTable, UnsubSkip, UnsubStop,
     UnsubSignal, UnsubDone
<1> QED
  BY <1>6, <1>7

(* Subscribing and unsubscribing leaves what posts have reached alone: none is      *)
(* under way meanwhile.                                                             *)
LEMMA SubsReached ==
    ASSUME ConlesAssumption, Facts, NEW t \in Client, subEVT(t) \/ unsubEVT(t),
           NEW k, NEW e
    PROVE  /\ Reached(k, e)' = Reached(k, e)
           /\ pc'[t] # "syncCb"
<1>1. LinkInv /\ CtxMutexHeld /\ \A u \in Client : u \in Thread
  BY DEF Facts, LinkInv
<1>2. /\ \A u \in Client : u # t =>
            pc'[u] = pc[u] /\ idx'[u] = idx[u] /\ res'[u] = res[u] /\ evt'[u] = evt[u]
      /\ pc[t] \notin InScan /\ pc'[t] \notin InScan
      /\ pc[t] \in InCtx \/ UNCHANGED <<cbProc, evtIDs>>
  <2>1. CASE subEVT(t)
    BY <1>1, <2>1, SubMoves DEF LinkInv
  <2>2. CASE unsubEVT(t)
    BY <1>1, <2>2, UnsubMoves DEF LinkInv
  <2> QED
    BY <2>1, <2>2
<1>3. \A u \in Client : u # t => pc[u] \notin InScan \/ UNCHANGED <<cbProc, evtIDs>>
  BY <1>1, <1>2 DEF CtxMutexHeld
<1>4. ASSUME NEW u \in Client, u # t PROVE u \in Reached(k, e)' <=> u \in Reached(k, e)
  BY <1>2, <1>3, <1>4, ReachedSame
<1>5. t \notin Reached(k, e)' /\ t \notin Reached(k, e)
  BY <1>2 DEF Reached, HasReached
<1>6. Reached(k, e)' \subseteq Client /\ Reached(k, e) \subseteq Client
  BY DEF Reached
<1>7. Reached(k, e)' = Reached(k, e)
  BY <1>4, <1>5, <1>6
<1> QED
  BY <1>2, <1>7

(* So a claim stays balanced then.                                                  *)
LEMMA SubsBalance ==
    ASSUME ConlesAssumption, Facts, Facts', NEW q, Balanced(q),
           NEW t \in Client, Call(t), PLT_IOC_subEVT(t) \/ PLT_IOC_unsubEVT(t)
    PROVE  Balanced(q)'
<1>1. /\ subEVT(t) \/ unsubEVT(t)
      /\ ~At(t, "post") /\ case' = case
  BY DEF Call, PLT_IOC_subEVT, PLT_IOC_unsubEVT, At
<1>2. UNCHANGED <<count, tally>>
  <2>1. pc'[t] # "syncCb"
    BY <1>1, SubsReached
  <2> QED
    BY <1>1, <2>1 DEF Call, CountSync
<1>3. Returned(q)' = Returned(q)
  <2>1. \A u \in Client : \/ step'[u] = step[u]
                          \/ step'[u] = step[u] + 1 /\ ~At(u, "post")
    BY <1>1, CallGoesOn DEF Facts, StepInv
  <2> QED
    BY <1>1, <2>1, ReturnedKept DEF Facts
<1> QED
  BY <1>1, <1>2, <1>3, SubsQueues, SubsReached, BalanceKept

(* A step of a post, until it returns, brings it to a callback or does not.         *)
LEMMA PostReaches ==
    ASSUME ConlesAssumption, Facts, NEW q, CountsOneWay(case, q),
           NEW t \in Client, postEVT(t), pc'[t] # "idle"
    PROVE  Cardinality(Reached(q.key, q.evt)') =
               Cardinality(Reached(q.key, q.evt)) + (IF Comes(t, q) THEN 1 ELSE 0)
<1> DEFINE R == Reached(q.key, q.evt)
<1>1. LinkInv /\ ModeInv /\ \A u \in Client : u \in Thread /\ u \notin Slot
  BY ConlesAssumption DEF Facts
<1>2. ASSUME NEW u \in Client, u # t PROVE u \in R' <=> u \in R
  <2>1. /\ UNCHANGED <<cbProc, evtIDs>> /\ pc'[u] = pc[u]
        /\ idx'[u] = idx[u] /\ res'[u] = res[u] /\ evt'[u] = evt[u]
    BY <1>1, <1>2, PostMoves
  <2> QED
    BY <2>1, ReachedSame
<1>3. R' \subseteq Client /\ R \subseteq Client
  BY DEF Reached
<1>4. IsFiniteSet(R) /\ Cardinality(R) \in Nat
  BY ReachedFinite
<1>5. IF Comes(t, q) THEN t \in R' /\ t \notin R ELSE t \in R' <=> t \in R
  BY PostComes
<1> HIDE DEF R
<1>6. CASE Comes(t, q)
  <2>1. R' = R \cup {t}
    BY <1>2, <1>3, <1>5, <1>6
  <2>2. Cardinality(R \cup {t}) = Cardinality(R) + 1
    BY <1>4, <1>5, <1>6, FS_AddElement
  <2> QED
    BY <1>6, <2>1, <2>2 DEF R
<1>7. CASE ~Comes(t, q)
  <2>1. R' = R
    BY <1>2, <1>3, <1>5, <1>7
  <2> QED
    BY <1>4, <1>7, <2>1 DEF R
<1> QED
  BY <1>6, <1>7

(* It is queued there, or counted at once.                                          *)
LEMMA PostQueues ==
    ASSUME ConlesAssumption, Facts, Facts', NEW t \in Client, postEVT(t),
           NEW k \in Key, NEW e
    PROVE  Cardinality(Queued(k, e)') = Cardinality(Queued(k, e)) +
               (IF /\ pc[t] = "post" /\ pc'[t] = "signal"
                   /\ cbProc[idx[t]] = k /\ EvtOf[evt[t]] = e THEN 1 ELSE 0)
<1>1. /\ LinkInv /\ LinkInv' /\ HistInv /\ HistInv' /\ SlotsInv /\ ModeInv
      /\ t \in Thread /\ t \notin Slot /\ k # None
      /\ pc \in [Thread -> ClientPc \cup AsyncPc] /\ ~(faults < MaxFaults)
      /\ pc[t] \in InCall => ret[t] = "idle" /\ opt[t].wait # "timeout"
  <2>1. LinkInv /\ LinkInv' /\ HistInv /\ HistInv' /\ SlotsInv /\ ModeInv
    BY DEF Facts
  <2>2. t \in Thread /\ t \notin Slot /\ k # None
    BY ConlesAssumption
  <2>3. pc \in [Thread -> ClientPc \cup AsyncPc] /\ ~(faults < MaxFaults)
    BY <2>1, TestAssumption DEF LinkInv, PcType, EnvType
  <2>4. pc[t] \in InCall => ret[t] = "idle" /\ opt[t].wait # "timeout"
    BY <2>1, <2>2 DEF LinkInv, FrameInv, ModeInv
  <2> QED
    BY <2>1, <2>2, <2>3, <2>4
<1>2. PostEnqueue(t) <=> pc[t] = "post" /\ pc'[t] = "signal"
  <2>1. PostEnqueue(t) => pc[t] = "post" /\ pc'[t] = "signal"
    BY <1>1 DEF PostEnqueue, AtMatch
  <2>2. ASSUME pc[t] = "post", pc'[t] = "signal" PROVE PostEnqueue(t)
    <3>1. ~PostSkip(t) /\ ~PostSync(t) /\ ~PostSyncReturn(t) /\ ~PostSignal(t)
          /\ ~PostFullNonBlock(t)
      BY <1>1, <2>2 DEF PostSkip, PostSync, PostSyncReturn, PostSignal, PostFullNonBlock,
         Goto, AtFullQueue, AtMatch
    <3>2. ~PostFullRetry(t)
      BY <1>1, <2>2 DEF PostFullRetry, SignalAndGoto, AtFullQueue, AtMatch
    <3>3. ~PostCreateFails(t) /\ ~PostFullTimeout(t)
      BY <1>1, <2>2 DEF PostCreateFails, PostFullTimeout, AtFullQueue, AtMatch
    <3>4. ~PostDone(t)
      BY <1>1, <2>2 DEF PostDone, PostReturn, Abort, Goto
    <3>5. PostScan(t)
      BY <1>1, <2>2 DEF postEVT, PostCall, PostLock, PostNoTable, PostLockTimeout,
         postEVT_ASyncThreadCached
    <3> QED
      BY <3>1, <3>2, <3>3, <3>4, <3>5 DEF PostScan
  <2> QED
    BY <2>1, <2>2
<1>3. CASE PostEnqueue(t)
  <2>1. PICK r \in Slot : r = idx[t]
    BY <1>3 DEF PostEnqueue, AtMatch
  <2> QED
    BY <1>1, <1>2, <1>3, <2>1, QueuedGrows
<1>4. CASE ~PostEnqueue(t)
  <2>1. UNCHANGED cbProc
    BY <1>1, PostMoves
  <2>2. UNCHANGED <<accepted, handled>>
    BY <1>4 DEF postEVT, PostCall, PostLock, PostNoTable, PostLockTimeout,
       postEVT_ASyncThreadCached, PostScan, PostSkip, PostSync, PostSyncReturn, PostSignal,
       PostCreateFails, PostFullNonBlock, PostFullTimeout, PostFullRetry, PostDone
  <2>3. Queued(k, e)' = Queued(k, e)
    BY <1>1, <2>1, <2>2, QueuedStays
  <2>4. Cardinality(Queued(k, e)) \in Nat
    BY <1>1, QueuedFinite
  <2> QED
    BY <1>2, <1>4, <2>3, <2>4
<1> QED
  BY <1>3, <1>4

LEMMA PostCounts ==
    ASSUME ConlesAssumption, Facts, NEW t \in Client, postEVT(t), CountSync(t)
    PROVE  /\ count' \in [Key -> [EvtID -> Nat]]
           /\ \A k \in Key, e \in EvtID :
                count'[k][e] = count[k][e] +
                    (IF /\ pc[t] = "post" /\ pc'[t] = "syncCb"
                        /\ cbProc[idx[t]] = k /\ EvtOf[evt[t]] = e THEN 1 ELSE 0)
<1>1. /\ LinkInv /\ ModeInv /\ count \in [Key -> [EvtID -> Nat]] /\ t \in Thread
      /\ t \notin Slot
  BY ConlesAssumption DEF Facts, CountersType
<1>2. CASE pc[t] = "post" /\ pc'[t] = "syncCb"
  <2>1. AtMatch(t)
    BY <1>1, <1>2, PostMoves DEF Found, LinkInv, FrameInv
  <2>2. cbProc[idx[t]] \in Key
    BY <1>1, <2>1 DEF AtMatch, IsMatch, LinkInv, TableType
  <2>3. EvtOf[evt[t]] \in EvtID
    BY <1>1, <1>2, ConlesAssumption DEF LinkInv, FrameInv
  <2>4. count' = [count EXCEPT ![cbProc[idx[t]]][EvtOf[evt[t]]] = @ + 1]
    BY <1>2 DEF CountSync
  <2> QED
    BY <1>1, <1>2, <2>2, <2>3, <2>4
<1>3. CASE ~(pc[t] = "post" /\ pc'[t] = "syncCb")
  BY <1>1, <1>3 DEF CountSync
<1> QED
  BY <1>2, <1>3

(* The terms of a claim are numbers.                                                *)
LEMMA CountsTyped ==
    ASSUME ConlesAssumption, Facts, NEW q, CountsOneWay(case, q)
    PROVE  /\ IsFiniteSet(Reached(q.key, q.evt)) /\ Cardinality(Reached(q.key, q.evt)) \in Nat
           /\ IsFiniteSet(Queued(q.key, q.evt)) /\ Cardinality(Queued(q.key, q.evt)) \in Nat
           /\ IsFiniteSet(Returned(q)) /\ Cardinality(Returned(q)) \in Nat
           /\ count[q.key][q.evt] \in Nat /\ Tallied(q) \in Nat
<1>1. /\ LinkInv /\ SlotsInv /\ CountersType /\ case \in Cases
      /\ q.key \in Key /\ q.key # None /\ q.evt \in EvtID
      /\ q.results = {} \/ \E r \in {"TIMEOUT", "NO_EVT_SUBER"} : q.results = {r}
  BY ConlesAssumption DEF Facts, StepInv, CountsOneWay
<1>2. IsFiniteSet(Reached(q.key, q.evt)) /\ Cardinality(Reached(q.key, q.evt)) \in Nat
  BY ReachedFinite
<1>3. IsFiniteSet(Queued(q.key, q.evt)) /\ Cardinality(Queued(q.key, q.evt)) \in Nat
  BY <1>1, QueuedFinite
<1>4. IsFiniteSet(Returned(q)) /\ Cardinality(Returned(q)) \in Nat
  BY <1>1, RelevantFinite
<1>5. Tallied(q) \in Nat
  BY <1>1, CountedOne
<1>6. count[q.key][q.evt] \in Nat
  BY <1>1 DEF CountersType
<1> QED
  BY <1>2, <1>3, <1>4, <1>5, <1>6

(* A post that goes on leaves a claim balanced: what it reaches it is queued for or *)
(* counted by.                                                                      *)
LEMMA PostGoesBalanced ==
    ASSUME ConlesAssumption, Facts, Facts', NEW q, CountsOneWay(case, q), Balanced(q),
           NEW t \in Client, Call(t), PLT_IOC_postEVT(t), pc'[t] # "idle"
    PROVE  Balanced(q)'
<1> DEFINE k == q.key
           e == q.evt
<1>1. /\ postEVT(t) /\ CountSync(t) /\ UNCHANGED <<case, step, tally>>
      /\ k \in Key /\ e \in EvtID /\ k # None
  BY ConlesAssumption DEF Call, PLT_IOC_postEVT, CountsOneWay
<1>2. Returned(q)' = Returned(q)
  BY <1>1, ReturnedKept DEF Facts
<1>3. Tallied(q)' = Tallied(q)
  BY <1>1 DEF Tallied
<1>4. /\ Cardinality(Reached(k, e)) \in Nat /\ Cardinality(Queued(k, e)) \in Nat
      /\ Cardinality(Returned(q)) \in Nat /\ count[k][e] \in Nat /\ Tallied(q) \in Nat
  BY CountsTyped
<1>5. /\ Cardinality(Reached(k, e)') =
             Cardinality(Reached(k, e)) + (IF Comes(t, q) THEN 1 ELSE 0)
      /\ Cardinality(Queued(k, e)') = Cardinality(Queued(k, e)) +
             (IF /\ pc[t] = "post" /\ pc'[t] = "signal"
                 /\ cbProc[idx[t]] = k /\ EvtOf[evt[t]] = e THEN 1 ELSE 0)
      /\ count'[k][e] = count[k][e] +
             (IF /\ pc[t] = "post" /\ pc'[t] = "syncCb"
                 /\ cbProc[idx[t]] = k /\ EvtOf[evt[t]] = e THEN 1 ELSE 0)
  BY <1>1, PostReaches, PostQueues, PostCounts
<1>6. /\ Balanced(q) <=> count[k][e] + Cardinality(Queued(k, e)) + Tallied(q)
                           = Cardinality(Returned(q)) + Cardinality(Reached(k, e))
      /\ Balanced(q)' <=> count'[k][e] + Cardinality(Queued(k, e)') + Tallied(q)'
                           = Cardinality(Returned(q)') + Cardinality(Reached(k, e)')
  BY DEF Balanced
<1> QED
  BY <1>2, <1>3, <1>4, <1>5, <1>6 DEF Comes

(* What a claim counts of the posts' results.                                       *)
LEMMA TalliedWhat ==
    ASSUME NEW q, CountsOneWay(case, q)
    PROVE  \/ q.results = {} /\ Tallied(q) = 0 /\ Tallied(q)' = 0
           \/ \E r \in {"TIMEOUT", "NO_EVT_SUBER"} :
                 /\ q.results = {r}
                 /\ Tallied(q) = tally[q.evt][r] /\ Tallied(q)' = tally'[q.evt][r]
<1>1. CASE q.results = {}
  BY <1>1 DEF Tallied
<1>2. ASSUME NEW r \in {"TIMEOUT", "NO_EVT_SUBER"}, q.results = {r}
      PROVE  Tallied(q) = tally[q.evt][r] /\ Tallied(q)' = tally'[q.evt][r]
  <2>1. (CHOOSE x \in q.results : TRUE) = r /\ q.results # {}
    BY <1>2
  <2> QED
    BY <2>1 DEF Tallied
<1> QED
  BY <1>1, <1>2 DEF CountsOneWay

(* One that returns has reached the callback, or returns the result that is counted *)
(* too, or the claim is not about it.                                               *)
LEMMA PostReturnsBalanced ==
    ASSUME ConlesAssumption, Facts, Facts', NEW q, CountsOneWay(case, q), Balanced(q),
           NEW t \in Client, Call(t), PLT_IOC_postEVT(t), pc'[t] = "idle", failed' = {}
    PROVE  Balanced(q)'
<1> DEFINE k == q.key
           e == q.evt
           R == Reached(k, e)
           D == Returned(q)
           x == <<t, step[t]>>
<1>1. /\ postEVT(t) /\ CountSync(t) /\ case' = case /\ At(t, "post")
      /\ k \in Key /\ e \in EvtID /\ k # None
      /\ tally' = [tally EXCEPT ![Instr(t).evt][ResultOf(t)] = @ + 1]
      /\ LinkInv /\ ModeInv /\ StepInv /\ case \in Cases
  BY ConlesAssumption DEF Call, PLT_IOC_postEVT, CountsOneWay, Facts, StepInv
<1>2. pc[t] \in InCall /\ (PostNoTable(t) \/ PostLockTimeout(t) \/ PostDone(t))
  BY <1>1, PostReturns DEF PostNoTable, PostLockTimeout, PostDone
<1>3. Instr(t).evt = EvtOf[evt[t]] /\ x \in PostsOf(case, EvtOf[evt[t]])
      /\ step[t] \in DOMAIN Program(t) /\ Instr(t) = Program(t)[step[t]]
  BY <1>2, PostMade
<1>4. ResultOf(t) \in Instr(t).want
  <2>1. failed' = failed \cup Missed(t, Instr(t).want)
    BY DEF Call, Checked
  <2> QED
    BY <2>1 DEF Missed
<1>5. /\ Cardinality(R) \in Nat /\ Cardinality(Queued(k, e)) \in Nat /\ IsFiniteSet(R)
      /\ Cardinality(D) \in Nat /\ count[k][e] \in Nat /\ Tallied(q) \in Nat
      /\ IsFiniteSet(D)
  BY CountsTyped
<1>6. Cardinality(Queued(k, e)') = Cardinality(Queued(k, e)) /\ count' = count
  BY <1>1, <1>5, PostQueues DEF CountSync
<1>7. /\ x \notin D
      /\ D' = D \cup (IF x \in Relevant(case, q) THEN {x} ELSE {})
  <2>1. step' = [step EXCEPT ![t] = @ + 1]
    BY CallGoesOn DEF Facts
  <2> QED
    BY <1>1, <2>1, ReturnedGrows
<1>8. R' = R \ {t}
  <2>1. ASSUME NEW u \in Client, u # t PROVE u \in R' <=> u \in R
    <3>1. /\ UNCHANGED <<cbProc, evtIDs>> /\ pc'[u] = pc[u]
          /\ idx'[u] = idx[u] /\ res'[u] = res[u] /\ evt'[u] = evt[u]
      BY <1>1, <2>1, PostMoves, ConlesAssumption
    <3> QED
      BY <3>1, ReachedSame
  <2>2. t \notin R'
    BY DEF Reached, HasReached
  <2>3. R' \subseteq Client /\ R \subseteq Client
    BY DEF Reached
  <2> HIDE DEF R
  <2> QED
    BY <2>1, <2>2, <2>3
<1>9. /\ x \in Relevant(case, q) => Cardinality(D') = Cardinality(D) + 1
      /\ x \notin Relevant(case, q) => Cardinality(D') = Cardinality(D)
      /\ t \in R => Cardinality(R') = Cardinality(R) - 1
      /\ t \notin R => Cardinality(R') = Cardinality(R)
  <2>1. /\ x \in Relevant(case, q) => D' = D \cup {x}
        /\ x \notin Relevant(case, q) => D' = D
        /\ t \notin R => R' = R
    BY <1>7, <1>8
  <2>2. Cardinality(D \cup {x}) = Cardinality(D) + 1
    BY <1>5, <1>7, FS_AddElement
  <2>3. t \in R => Cardinality(R \ {t}) = Cardinality(R) - 1
    BY <1>5, FS_RemoveElement
  <2> HIDE DEF D, R, x
  <2> QED
    BY <1>8, <2>1, <2>2, <2>3
<1>10. /\ Balanced(q) <=> count[k][e] + Cardinality(Queued(k, e)) + Tallied(q)
                            = Cardinality(D) + Cardinality(R)
       /\ Balanced(q)' <=> count'[k][e] + Cardinality(Queued(k, e)') + Tallied(q)'
                            = Cardinality(D') + Cardinality(R')
  BY DEF Balanced
<1>11. SUFFICES Tallied(q)' + Cardinality(D) + Cardinality(R)
                  = Tallied(q) + Cardinality(D') + Cardinality(R') /\ Tallied(q)' \in Nat
  <2>1. Cardinality(D') \in Nat /\ Cardinality(R') \in Nat
    <3>1. R' \subseteq R
      BY <1>8
    <3>2. Cardinality(R') \in Nat
      BY <1>5, <3>1, FS_Subset, FS_CardinalityType
    <3> HIDE DEF D, R, x
    <3> QED
      BY <1>5, <1>9, <3>2
  <2> HIDE DEF D, R, x, k, e
  <2> QED
    BY <1>5, <1>6, <1>10, <1>11, <2>1
<1>12. CASE Instr(t).evt # e
  <2>1. t \notin R
    BY <1>3, <1>12 DEF Reached
  <2>2. x \notin Relevant(case, q)
    <3>1. x[1] = t /\ x[2] = step[t]
      OBVIOUS
    <3> HIDE DEF x
    <3>2. x \in PostsOf(case, e) => Program(x[1])[x[2]].evt = e
      BY <1>1, PostsOfWhat
    <3> QED
      BY <1>1, <1>3, <1>12, <3>1, <3>2, RelevantFinite
  <2>3. Tallied(q)' = Tallied(q)
    <3>1. tally'[e] = tally[e]
      BY <1>1, <1>12 DEF Facts, CountersType
    <3> QED
      BY <3>1, TalliedWhat
  <2> HIDE DEF D, R, x
  <2> QED
    BY <1>5, <1>9, <2>1, <2>2, <2>3
<1>13. CASE Instr(t).evt = e /\ q.results = {}
  <2>1. x \in Relevant(case, q) <=> t \in R
    BY <1>2, <1>3, <1>13, BlockingAnswer
  <2>2. Tallied(q) = 0 /\ Tallied(q)' = 0
    BY <1>13, TalliedWhat
  <2> HIDE DEF D, R, x
  <2> QED
    BY <1>5, <1>9, <2>1, <2>2
<1>14. CASE Instr(t).evt = e /\ q.results # {}
  <2>1. x \in Relevant(case, q) /\ (ResultOf(t) \in q.results <=> t \notin R)
    BY <1>2, <1>3, <1>4, <1>14, CountedAnswer
  <2>2. PICK r \in {"TIMEOUT", "NO_EVT_SUBER"} :
            q.results = {r} /\ Tallied(q) = tally[e][r] /\ Tallied(q)' = tally'[e][r]
    BY <1>14, TalliedWhat
  <2>3. tally[e][r] \in Nat
    BY <1>1 DEF Facts, CountersType
  <2>4. tally'[e][r] = tally[e][r] + (IF ResultOf(t) = r THEN 1 ELSE 0)
    BY <1>1, <1>14, <2>3 DEF Facts, CountersType
  <2> HIDE DEF D, R, x
  <2>5. CASE ResultOf(t) = r
    BY <1>5, <1>9, <2>1, <2>2, <2>3, <2>4, <2>5
  <2>6. CASE ResultOf(t) # r
    BY <1>5, <1>9, <2>1, <2>2, <2>3, <2>4, <2>6
  <2> QED
    BY <2>5, <2>6
<1> QED
  BY <1>12, <1>13, <1>14

(* Without replies, the thread of a slot takes an event, or does nothing that the   *)
(* counts are about.                                                                *)
LEMMA SlotMoves ==
    ASSUME LinkInv, ModeInv, case # "Typical_Case02", NEW s \in Slot, TestSlot(s)
    PROVE  \/ CallbackEnters(s)
           \/ /\ AsyncExit(s) \/ AsyncWait(s) \/ AsyncDrained(s) \/ AsyncCbReturn(s)
              /\ UNCHANGED testVars
<1>1. pc[s] \notin InCall /\ cache[s] = <<>> /\ ~OwesReply(s) /\ s \in Thread
      /\ s \notin Client
  BY NoReplies, ConlesAssumption DEF ModeInv
<1>2. ~CallbackReplies(s)
  BY <1>1 DEF CallbackReplies
<1>3. ~CallbackPosts(s)
  <2>1. pc[s] # "cb" => ~postEVT(s)
    BY <1>1 DEF postEVT, PostCall, PostLock, PostNoTable, PostLockTimeout,
       postEVT_ASyncThreadCached, PostScan, PostSkip, PostSync, PostSyncReturn, PostEnqueue,
       PostSignal, PostCreateFails, PostFullNonBlock, PostFullTimeout, PostFullRetry,
       PostDone, AtFullQueue, AtMatch
  <2> QED
    BY <2>1 DEF CallbackPosts
<1>4. ~AsyncDrain(s)
  BY <1>1 DEF AsyncDrain
<1> QED
  BY <1>2, <1>3, <1>4 DEF TestSlot

(* A slot's thread does not touch what clients have reached.                        *)
LEMMA SlotReached ==
    ASSUME ConlesAssumption, Facts, NEW s \in Slot, ASyncEventThread(s), NEW k, NEW e
    PROVE  Reached(k, e)' = Reached(k, e)
<1>1. LinkInv /\ \A u \in Client : u \in Thread /\ u # s
  BY ConlesAssumption DEF Facts
<1>2. ASSUME NEW u \in Client PROVE u \in Reached(k, e)' <=> u \in Reached(k, e)
  <2>1. /\ UNCHANGED <<cbProc, evtIDs, idx, res>> /\ pc'[u] = pc[u] /\ evt'[u] = evt[u]
    BY <1>1, AsyncMoves DEF LinkInv
  <2> QED
    BY <2>1, ReachedSame
<1>3. Reached(k, e)' \subseteq Client /\ Reached(k, e) \subseteq Client
  BY DEF Reached
<1> QED
  BY <1>2, <1>3

(* The callback that takes an event out of its queue counts it.                     *)
LEMMA EnterBalance ==
    ASSUME ConlesAssumption, Facts, NEW q, CountsOneWay(case, q), Balanced(q),
           NEW s \in Slot, CallbackEnters(s)
    PROVE  Balanced(q)'
<1> DEFINE k == q.key
           e == q.evt
           m == Head(queue[s])
<1>1. /\ AsyncTake(s) /\ UNCHANGED <<case, tally>>
      /\ count' = [count EXCEPT ![cbProc[s]][EvtOf[m]] = @ + 1]
      /\ step' = [step EXCEPT ![main] = IF asleep THEN @ + 1 ELSE @]
      /\ LinkInv /\ HistInv /\ SlotsInv /\ StepInv /\ PlaceInv /\ CountersType
      /\ k \in Key /\ k # None /\ e \in EvtID
  BY ConlesAssumption DEF CallbackEnters, Facts, CountsOneWay
<1>2. queue[s] # <<>> /\ queue[s] \in Seq(Msg) /\ m \in Msg
  BY <1>1, SeqFacts DEF AsyncTake, IsEmpty, LinkInv, QueueType
<1>3. cbProc[s] \in Key /\ EvtOf[m] \in EvtID
  BY <1>1, <1>2, ConlesAssumption DEF LinkInv, FreeSlotIsQuiet, TableType, IsFree
<1>4. Reached(k, e)' = Reached(k, e)
  BY <1>1, SlotReached DEF ASyncEventThread
<1>5. Returned(q)' = Returned(q)
  <2>1. asleep => ~At(main, "post")
    BY <1>1 DEF PlaceInv, At
  <2>2. step \in [Client -> Nat]
    BY <1>1 DEF StepInv
  <2>3. \A t \in Client : step'[t] = step[t] \/ (step'[t] = step[t] + 1 /\ ~At(t, "post"))
    BY <1>1, <2>1, <2>2
  <2> QED
    BY <1>1, <2>3, ReturnedKept
<1>6. Cardinality(Queued(k, e)) = Cardinality(Queued(k, e)') +
          (IF cbProc[s] = k /\ EvtOf[m] = e THEN 1 ELSE 0)
  BY <1>1, QueuedShrinks
<1>7. count'[k][e] = count[k][e] + (IF cbProc[s] = k /\ EvtOf[m] = e THEN 1 ELSE 0)
  BY <1>1, <1>3 DEF CountersType
<1>8. /\ Cardinality(Queued(k, e)) \in Nat /\ count[k][e] \in Nat /\ Tallied(q) \in Nat
      /\ Cardinality(Returned(q)) \in Nat /\ Cardinality(Reached(k, e)) \in Nat
  BY CountsTyped
<1>9. Tallied(q)' = Tallied(q)
  BY <1>1 DEF Tallied
<1>10. Cardinality(Queued(k, e)') \in Nat
  BY <1>1, QueuedShrinks
<1>11. /\ Balanced(q) <=> count[k][e] + Cardinality(Queued(k, e)) + Tallied(q)
                            = Cardinality(Returned(q)) + Cardinality(Reached(k, e))
       /\ Balanced(q)' <=> count'[k][e] + Cardinality(Queued(k, e)') + Tallied(q)'
                            = Cardinality(Returned(q)') + Cardinality(Reached(k, e)')
  BY DEF Balanced
<1> HIDE DEF k, e
<1> QED
  BY <1>4, <1>5, <1>6, <1>7, <1>8, <1>9, <1>10, <1>11

(* What main does between its calls changes nothing that the counts are about,      *)
(* unless it leaves.                                                                *)
LEMMA MainBalance ==
    ASSUME ConlesAssumption, Facts, NEW q, Balanced(q), NEW t \in Client, failed' = {},
           Start(t) \/ Join(t) \/ Settle(t) \/ CondWait(t) \/ Check(t)
    PROVE  Balanced(q)'
<1>1. UNCHANGED <<vars, case, count, tally>>
  BY DEF Start, Join, Settle, CondWait, Check
<1>2. /\ StepInv /\ PlaceInv /\ ThreadsInv /\ case \in Cases
      /\ step \in [Client -> Nat] /\ main \in Client
  BY TestAssumption DEF Facts, StepInv
<1>3. \A u \in Client : step'[u] = step[u] \/ (step'[u] = step[u] + 1 /\ ~At(u, "post"))
  <2>1. CASE Start(t)
    <3>1. t = main
      BY <1>2, <2>1, Led DEF Start, At, Instr
    <3>2. \A u \in Client : u \in Instr(main).threads => step[u] = 0 /\ u # main
      BY <1>2, <2>1, <3>1, StartsNew
    <3>3. \A u \in Client : step[u] = 0 => ~At(u, "post")
      BY <1>2, ProgramShape DEF At
    <3>4. ~At(main, "post")
      BY <2>1, <3>1 DEF Start, At
    <3> QED
      BY <1>2, <2>1, <3>1, <3>2, <3>3, <3>4 DEF Start
  <2>2. CASE Join(t) \/ Settle(t)
    BY <1>2, <2>2 DEF Join, Settle, GoOn, At
  <2>3. CASE CondWait(t)
    BY <2>3 DEF CondWait
  <2>4. CASE Check(t)
    <3>1. GoOn(t) /\ ~At(t, "post")
      BY <2>4 DEF Check, Checked, At
    <3> QED
      BY <1>2, <3>1 DEF GoOn
  <2> QED
    BY <2>1, <2>2, <2>3, <2>4
<1>4. Returned(q)' = Returned(q)
  BY <1>1, <1>2, <1>3, ReturnedKept
<1>5. /\ Queued(q.key, q.evt)' = Queued(q.key, q.evt)
      /\ Reached(q.key, q.evt)' = Reached(q.key, q.evt)
  BY <1>1 DEF Queued, Backlog, Reached, HasReached, IsMatch
<1> QED
  BY <1>1, <1>4, <1>5, BalanceKept

(* The claims stay balanced.                                                        *)
LEMMA BalanceNext ==
    ASSUME ConlesAssumption, Facts, Facts', TestNext, case # "Typical_Case02", failed' = {},
           NEW q, CountsOneWay(case, q), Balanced(q)
    PROVE  Balanced(q)'
<1>1. LinkInv /\ ModeInv /\ HistInv /\ LinkInv' /\ HistInv'
  BY DEF Facts
<1>2. ASSUME NEW t \in Client, Call(t) PROVE Balanced(q)'
  <2>1. CASE PLT_IOC_postEVT(t)
    BY <1>2, <2>1, PostGoesBalanced, PostReturnsBalanced
  <2>2. CASE ~PLT_IOC_postEVT(t)
    <3>1. PLT_IOC_subEVT(t) \/ PLT_IOC_unsubEVT(t)
      BY <1>2, <2>2 DEF Call
    <3> QED
      BY <1>2, <3>1, SubsBalance
  <2> QED
    BY <2>1, <2>2
<1>3. ASSUME NEW s \in Slot, TestSlot(s), ~CallbackEnters(s) PROVE Balanced(q)'
  <2>1. /\ AsyncExit(s) \/ AsyncWait(s) \/ AsyncDrained(s) \/ AsyncCbReturn(s)
        /\ UNCHANGED testVars
    BY <1>1, <1>3, SlotMoves
  <2>2. UNCHANGED <<tableVars, slotVars>> /\ ASyncEventThread(s)
    BY <2>1 DEF AsyncExit, AsyncWait, AsyncDrained, AsyncCbReturn, ASyncEventThread
  <2>3. Reached(q.key, q.evt)' = Reached(q.key, q.evt)
    BY <2>2, SlotReached
  <2>4. Queued(q.key, q.evt)' = Queued(q.key, q.evt)
    BY <2>2 DEF Queued, Backlog
  <2>5. Returned(q)' = Returned(q)
    BY <2>1 DEF Returned
  <2> QED
    BY <2>1, <2>3, <2>4, <2>5, BalanceKept
<1>4. ASSUME NEW t \in Client, TestThread(t), ~Call(t) PROVE Balanced(q)'
  BY <1>4, MainBalance DEF TestThread
<1>5. ASSUME NEW s \in Slot, CallbackEnters(s) PROVE Balanced(q)'
  BY <1>5, EnterBalance
<1> QED
  BY <1>2, <1>3, <1>4, <1>5 DEF TestNext

(* The counters stay numbers.                                                       *)
LEMMA CountersNext ==
    ASSUME ConlesAssumption, Facts, TestNext
    PROVE  CountersType'
<1> DEFINE Res == {"SUCCESS", "TIMEOUT", "NO_EVT_SUBER", "NOT_FOUND"}
<1>1. /\ count \in [Key -> [EvtID -> Nat]] /\ tally \in [EvtID -> [Res -> Nat]]
  BY DEF Facts, CountersType
<1>0. ASSUME NEW A, NEW B, NEW f \in [A -> [B -> Nat]], NEW a, NEW b
      PROVE  [f EXCEPT ![a][b] = @ + 1] \in [A -> [B -> Nat]]
  <2>1. ASSUME NEW g \in [B -> Nat] PROVE [g EXCEPT ![b] = @ + 1] \in [B -> Nat]
    <3>1. CASE b \in B
      <4>1. g[b] + 1 \in Nat
        BY <3>1
      <4> QED
        BY <4>1
    <3>2. CASE b \notin B
      <4>1. [g EXCEPT ![b] = @ + 1] = g
        BY <3>2
      <4> QED
        BY <4>1
    <3> QED
      BY <3>1, <3>2
  <2>2. a \in A => [f[a] EXCEPT ![b] = @ + 1] \in [B -> Nat]
    BY <2>1
  <2>3. [f EXCEPT ![a][b] = @ + 1] = [f EXCEPT ![a] = [f[a] EXCEPT ![b] = @ + 1]]
    OBVIOUS
  <2> QED
    BY <2>2, <2>3
<1> HIDE DEF Res
<1>2. \A a, b : [count EXCEPT ![a][b] = @ + 1] \in [Key -> [EvtID -> Nat]]
  BY <1>0, <1>1
<1>3. \A a, b : [tally EXCEPT ![a][b] = @ + 1] \in [EvtID -> [Res -> Nat]]
  BY <1>0, <1>1
<1>4. ASSUME NEW t \in Client, Call(t)
      PROVE  count' \in [Key -> [EvtID -> Nat]] /\ tally' \in [EvtID -> [Res -> Nat]]
  BY <1>1, <1>2, <1>3, <1>4 DEF Call, CountSync
<1>5. ASSUME NEW t \in Client, TestThread(t), ~Call(t) PROVE UNCHANGED <<count, tally>>
  BY <1>5 DEF TestThread, Start, Join, Settle, CondWait, Check
<1>6. ASSUME NEW s \in Slot, TestSlot(s)
      PROVE  count' \in [Key -> [EvtID -> Nat]] /\ tally' = tally
  <2>1. CASE CallbackEnters(s)
    BY <1>2, <2>1 DEF CallbackEnters
  <2>2. CASE ~CallbackEnters(s)
    BY <1>1, <1>6, <2>2 DEF TestSlot, CallbackReplies, CallbackPosts
  <2> QED
    BY <2>1, <2>2
<1> QED
  BY <1>1, <1>4, <1>5, <1>6 DEF TestNext, CountersType, Res

(* A client that does nothing keeps what it has found: while it scans, the table    *)
(* stays as it is.                                                                  *)
LEMMA DeliversSame ==
    ASSUME NEW u \in Client, Delivers(u), pc'[u] = pc[u],
           \/ pc[u] \notin InScan
           \/ /\ UNCHANGED <<cbProc, evtIDs>>
              /\ idx'[u] = idx[u] /\ res'[u] = res[u] /\ evt'[u] = evt[u]
    PROVE  Delivers(u)'
<1>1. CASE pc[u] \notin InScan
  BY <1>1 DEF Delivers
<1>2. CASE /\ UNCHANGED <<cbProc, evtIDs>>
           /\ idx'[u] = idx[u] /\ res'[u] = res[u] /\ evt'[u] = evt[u]
  BY <1>2 DEF Delivers, IsMatch
<1> QED
  BY <1>1, <1>2

(* A post finds what it finds at a slot that wants its event.                       *)
LEMMA PostDelivers ==
    ASSUME ConlesAssumption, Facts, NEW t \in Client, postEVT(t)
    PROVE  Delivers(t)'
<1> DEFINE m == evt[t]
<1>1. /\ LinkInv /\ ModeInv /\ FrameInv /\ ResultInv /\ Delivers(t)
      /\ pc \in [Thread -> ClientPc \cup AsyncPc] /\ idx \in [Thread -> 0 .. MaxSuberNum + 1]
      /\ res \in [Thread -> Results \cup {None}]
      /\ t \in Thread /\ t \notin Slot /\ MaxSuberNum \in Nat
  BY ConlesAssumption DEF Facts, LinkInv, PcType, FrameType, DeliveryInv
<1>2. UNCHANGED <<cbProc, evtIDs>>
  BY <1>1, PostMoves
<1>3. \A s : IsMatch(s, m)' <=> IsMatch(s, evt'[t])
  BY <1>2 DEF IsMatch
<1>4. CASE pc'[t] \notin InScan
  BY <1>4 DEF Delivers
<1>5. CASE PostLock(t)
  <2>1. pc'[t] = "post" /\ res'[t] = None
    BY <1>1, <1>5 DEF PostLock, Goto, ResultInv
  <2> QED
    BY <2>1 DEF Delivers
<1>6. CASE /\ pc[t] \in InScan /\ pc'[t] \in InScan /\ evt'[t] = evt[t]
           /\ \/ PostSkip(t) \/ PostSync(t) \/ PostSyncReturn(t) \/ PostEnqueue(t)
              \/ PostSignal(t) \/ PostFullNonBlock(t) \/ PostFullRetry(t)
  <2>1. SUFFICES
           /\ pc'[t] \in {"signal", "syncCb"} => IsMatch(idx'[t], m)
           /\ pc'[t] = "signal" => res'[t] = "SUCCESS"
           /\ res'[t] # None =>
                 \E s \in Slot : s <= idx'[t] /\ IsMatch(s, m) /\ (pc'[t] = "post" => s < idx'[t])
    BY <1>2, <1>6 DEF Delivers, IsMatch
  <2>2. /\ pc[t] \in {"signal", "syncCb"} => idx[t] \in Slot /\ IsMatch(idx[t], m)
        /\ pc[t] = "signal" => res[t] = "SUCCESS"
        /\ res[t] # None =>
              \E s \in Slot : s <= idx[t] /\ IsMatch(s, m) /\ (pc[t] = "post" => s < idx[t])
    BY <1>1, <1>6 DEF Delivers, FrameInv
  <2>3. idx[t] \in Int /\ \A s \in Slot : s \in Int
    BY <1>1
  <2> HIDE DEF m
  <2>4. CASE PostSkip(t)
    <3>1. pc[t] = "post" /\ pc'[t] = "post" /\ idx'[t] = idx[t] + 1 /\ res'[t] = res[t]
      BY <1>1, <2>4 DEF PostSkip, NextSlot
    <3> QED
      BY <2>2, <2>3, <3>1
  <2>5. CASE PostSync(t)
    <3>1. pc[t] = "post" /\ pc'[t] = "syncCb" /\ idx'[t] = idx[t] /\ res'[t] = res[t]
          /\ IsMatch(idx[t], m) /\ idx[t] \in Slot
      BY <1>1, <2>5 DEF PostSync, AtMatch, Goto, m
    <3> QED
      BY <2>2, <2>3, <3>1
  <2>6. CASE PostSyncReturn(t)
    <3>1. pc[t] = "syncCb" /\ pc'[t] = "post" /\ idx'[t] = idx[t] + 1
      BY <1>1, <2>6 DEF PostSyncReturn, NextSlot, Goto
    <3> QED
      BY <2>2, <2>3, <3>1
  <2>7. CASE PostEnqueue(t)
    <3>1. pc'[t] = "signal" /\ idx'[t] = idx[t] /\ res'[t] = "SUCCESS"
          /\ IsMatch(idx[t], m) /\ idx[t] \in Slot
      BY <1>1, <2>7 DEF PostEnqueue, AtMatch, m
    <3> QED
      BY <2>2, <2>3, <3>1
  <2>8. CASE PostSignal(t)
    <3>1. pc[t] = "signal" /\ pc'[t] = "post" /\ idx'[t] = idx[t] + 1
      BY <1>1, <2>2, <2>8 DEF PostSignal, NextSlot, SignalAndGoto
    <3> QED
      BY <2>2, <2>3, <3>1
  <2>9. CASE PostFullNonBlock(t)
    <3>1. pc'[t] = "post" /\ idx'[t] = idx[t] + 1
          /\ IsMatch(idx[t], m) /\ idx[t] \in Slot
      BY <1>1, <2>9 DEF PostFullNonBlock, NextSlot, AtFullQueue, AtMatch, m
    <3> QED
      BY <2>2, <2>3, <3>1
  <2>10. CASE PostFullRetry(t)
    <3>1. pc[t] = "post" /\ pc'[t] = "post" /\ idx'[t] = idx[t] /\ res'[t] = res[t]
      BY <1>1, <2>10 DEF PostFullRetry, SignalAndGoto, AtFullQueue, AtMatch
    <3> QED
      BY <2>2, <2>3, <3>1
  <2> QED
    BY <1>6, <2>4, <2>5, <2>6, <2>7, <2>8, <2>9, <2>10
<1>7. CASE \E n \in Msg, o \in Options : PostCall(t, n, o)
  <2>1. pc'[t] = "lock"
    BY <1>1, <1>7 DEF PostCall, Goto
  <2> QED
    BY <1>4, <2>1
<1> QED
  BY <1>4, <1>5, <1>6, <1>7, PostKinds

(* So a step of a test keeps it true of all clients.                                *)
LEMMA DeliveryNext ==
    ASSUME ConlesAssumption, Facts, TestNext
    PROVE  DeliveryInv'
<1>1. /\ LinkInv /\ ModeInv /\ CtxMutexHeld
      /\ \A u \in Client : u \in Thread /\ u \notin Slot /\ Delivers(u)
      /\ \A s \in Slot : s \in Thread
  BY ConlesAssumption DEF Facts, LinkInv, DeliveryInv
<1>2. ASSUME NEW t \in Client, postEVT(t), NEW u \in Client PROVE Delivers(u)'
  <2>1. CASE u = t
    BY <1>2, <2>1, PostDelivers
  <2>2. CASE u # t
    <3>1. /\ UNCHANGED <<cbProc, evtIDs>> /\ pc'[u] = pc[u]
          /\ idx'[u] = idx[u] /\ res'[u] = res[u] /\ evt'[u] = evt[u]
      BY <1>1, <1>2, <2>2, PostMoves
    <3> QED
      BY <1>1, <3>1, DeliversSame
  <2> QED
    BY <2>1, <2>2
<1>3. ASSUME NEW t \in Client, subEVT(t) \/ unsubEVT(t), NEW u \in Client PROVE Delivers(u)'
  <2>1. /\ \A v \in Client : v # t =>
              pc'[v] = pc[v] /\ idx'[v] = idx[v] /\ res'[v] = res[v] /\ evt'[v] = evt[v]
        /\ pc'[t] \notin InScan
        /\ pc[t] \in InCtx \/ UNCHANGED <<cbProc, evtIDs>>
    <3>1. CASE subEVT(t)
      BY <1>1, <3>1, SubMoves DEF LinkInv
    <3>2. CASE unsubEVT(t)
      BY <1>1, <3>2, UnsubMoves DEF LinkInv
    <3> QED
      BY <1>3, <3>1, <3>2
  <2>2. CASE u = t
    BY <2>1, <2>2 DEF Delivers
  <2>3. CASE u # t
    <3>1. pc[u] \notin InScan \/ UNCHANGED <<cbProc, evtIDs>>
      BY <1>1, <2>1, <2>3 DEF CtxMutexHeld
    <3> QED
      BY <1>1, <2>1, <2>3, <3>1, DeliversSame
  <2> QED
    BY <2>2, <2>3
<1>4. ASSUME NEW s \in Slot, postEVT(s) \/ ASyncEventThread(s), NEW u \in Client
      PROVE  Delivers(u)'
  <2>1. /\ UNCHANGED <<cbProc, evtIDs>> /\ pc'[u] = pc[u]
        /\ idx'[u] = idx[u] /\ res'[u] = res[u] /\ evt'[u] = evt[u]
    <3>1. CASE postEVT(s)
      BY <1>1, <3>1, PostMoves
    <3>2. CASE ASyncEventThread(s)
      BY <1>1, <3>2, AsyncMoves DEF LinkInv
    <3> QED
      BY <1>4, <3>1, <3>2
  <2> QED
    BY <1>1, <2>1, DeliversSame
<1>5. ASSUME UNCHANGED vars, NEW u \in Client PROVE Delivers(u)'
  BY <1>1, <1>5, DeliversSame
<1>6. ASSUME NEW t \in Client, Call(t), NEW u \in Client PROVE Delivers(u)'
  BY <1>2, <1>3, <1>6 DEF Call, PLT_IOC_subEVT, PLT_IOC_unsubEVT, PLT_IOC_postEVT
<1>7. ASSUME NEW s \in Slot, CallbackReplies(s), NEW u \in Client PROVE Delivers(u)'
  BY <1>4, <1>7, ReplyPosts
<1>8. \A u \in Client : Delivers(u)'
  BY <1>4, <1>5, <1>6, <1>7, LinkMoves
<1> QED
  BY <1>8 DEF DeliveryInv

(* Where main is, and what it does there.                                           *)
LEMMA MainGoes ==
    ASSUME Facts, TestNext, step'[main] # step[main]
    PROVE  \/ \E do \in {"sub", "unsub", "post"} : At(main, do) /\ Call(main)
           \/ Start(main) \/ Join(main) \/ Settle(main) \/ Check(main)
           \/ At(main, "condWait")
<1>1. /\ LinkInv /\ StepInv /\ PlaceInv /\ ThreadsInv /\ SlotsInv /\ ResultInv /\ ModeInv
      /\ step \in [Client -> Nat] /\ main \in Client /\ case \in Cases
  BY TestAssumption DEF Facts, StepInv
<1>2. ASSUME NEW t \in Client, Call(t)
      PROVE  \E do \in {"sub", "unsub", "post"} : At(main, do) /\ Call(main)
  <2>1. step[t] \in DOMAIN Program(t) /\ Instr(t).do \in {"sub", "unsub", "post"}
        /\ (step' = [step EXCEPT ![t] = @ + 1] \/ step' = step)
    BY <1>1, <1>2, CallGoesOn
  <2>2. t = main
    BY <1>1, <2>1
  <2> QED
    BY <1>2, <2>1, <2>2 DEF At
<1>3. ASSUME NEW t \in Client, Start(t) \/ Join(t) \/ Settle(t) \/ CondWait(t) \/ Check(t)
      PROVE  Start(main) \/ Join(main) \/ Settle(main) \/ Check(main)
  <2>1. t = main
    BY <1>1, <1>3, Led DEF Start, Join, Settle, CondWait, Check, At, Instr
  <2>2. ~CondWait(t)
    BY DEF CondWait
  <2> QED
    BY <1>3, <2>1, <2>2
<1>4. ASSUME NEW s \in Slot, TestSlot(s) PROVE At(main, "condWait")
  <2>1. CallbackEnters(s)
    BY <1>4 DEF TestSlot, CallbackReplies, CallbackPosts
  <2>2. asleep
    BY <1>1, <2>1 DEF CallbackEnters
  <2> QED
    BY <1>1, <2>2 DEF PlaceInv
<1> QED
  BY <1>2, <1>3, <1>4 DEF TestNext, TestThread

(* What has failed stays so.                                                        *)
LEMMA FailedGrows ==
    ASSUME TestNext
    PROVE  failed \subseteq failed'
<1>1. ASSUME NEW t \in Client, TestThread(t) PROVE failed \subseteq failed'
  BY <1>1 DEF TestThread, Call, Start, Join, Settle, CondWait, Check, Checked
<1>2. ASSUME NEW s \in Slot, TestSlot(s) PROVE failed \subseteq failed'
  BY <1>2 DEF TestSlot, CallbackEnters, CallbackReplies, CallbackPosts
<1> QED
  BY <1>1, <1>2 DEF TestNext

(* While main checks, the other threads have ended or not started; no call is under *)
(* way.                                                                             *)
LEMMA AloneAtCheck ==
    ASSUME Facts, step[main] \in DOMAIN Program(main),
           Program(main)[step[main]].do \in {"check", "checkAll", "checkMagic"}
    PROVE  /\ \A t \in Client : pc[t] = "idle" /\ ~Call(t)
           /\ \A u \in Client \ {main} : step[u] \in {0, Len(Program(u)) + 1}
<1>1. /\ LinkInv /\ StepInv /\ PlaceInv /\ ThreadsInv /\ SlotsInv /\ ResultInv /\ ModeInv
      /\ step \in [Client -> Nat] /\ main \in Client /\ case \in Cases
  BY TestAssumption DEF Facts, StepInv
<1>2. ASSUME NEW u \in Client \ {main} PROVE step[u] \notin DOMAIN Program(u)
  <2>1. ~RunsAt(Program(main), u, step[main])
    BY <1>1, Led
  <2> QED
    BY <1>1, <2>1 DEF ThreadsInv
<1>3. ASSUME NEW t \in Client PROVE pc[t] = "idle" /\ ~Call(t)
  <2>1. CASE t = main
    <3>1. ~(Instr(t).do \in {"sub", "unsub", "post"})
      BY <2>1 DEF Instr
    <3> QED
      BY <1>1, <2>1, <3>1, NoCall, CallGoesOn
  <2>2. CASE t # main
    BY <1>1, <1>2, <2>2, CallGoesOn DEF PlaceInv
  <2> QED
    BY <2>1, <2>2
<1>4. ASSUME NEW u \in Client \ {main} PROVE step[u] \in {0, Len(Program(u)) + 1}
  <2>1. /\ Len(Program(u)) \in Nat /\ DOMAIN Program(u) = 1 .. Len(Program(u))
        /\ step[u] \in Nat /\ step[u] <= Len(Program(u)) + 1
    BY <1>1, ProgramShape DEF StepInv
  <2> QED
    BY <1>2, <2>1
<1> QED
  BY <1>3, <1>4

(* The queues main has waited for stay empty while it checks: nothing posts.        *)
LEMMA SettledNext ==
    ASSUME ConlesAssumption, Facts, SettledInv, TestNext, case # "Typical_Case02"
    PROVE  SettledInv'
<1> DEFINE p == Program(main)
           n == step[main]
           Checking == {"check", "checkAll", "checkMagic"}
<1>1. /\ LinkInv /\ StepInv /\ PlaceInv /\ ThreadsInv /\ SlotsInv /\ ResultInv /\ ModeInv
      /\ step \in [Client -> Nat] /\ main \in Client /\ case \in Cases /\ case' = case
      /\ Len(p) \in Nat /\ DOMAIN p = 1 .. Len(p) /\ n \in Nat
  BY TestAssumption, ProgramShape, StepMoves DEF Facts, StepInv
<1>2. SUFFICES ASSUME HasSettled(p, step'[main]), NEW s \in Slot
               PROVE  queue'[s] = <<>>
  BY <1>1 DEF SettledInv, IsEmpty, Program
<1>3. PICK i \in 1 .. step'[main] - 1 :
         /\ p[i].do = "settle"
         /\ \A j \in i + 1 .. step'[main] : j \in DOMAIN p /\ p[j].do \in Checking
  BY <1>2 DEF HasSettled
<1>4. step'[main] \in Nat
  BY <1>1, StepNext DEF StepInv
<1>5. step'[main] \in DOMAIN p /\ i \in Nat /\ i < step'[main]
  BY <1>3, <1>4
<1>6. step'[main] = n \/ step'[main] = n + 1
  <2>1. CASE \E t \in Client : Passes(t)
    BY <1>1, <2>1 DEF Passes
  <2>2. CASE Leaves
    BY <1>1, <1>5, <2>2 DEF Leaves
  <2>3. CASE Start(main)
    <3>1. main \notin Instr(main).threads
      BY <1>1, <2>3, Led DEF Start, At, Instr
    <3> QED
      BY <1>1, <2>3, <3>1 DEF Start
  <2> QED
    BY <1>1, <2>1, <2>2, <2>3, StepMoves
<1>7. CASE i = n
  <2>1. step'[main] # n /\ At(main, "settle")
    BY <1>1, <1>3, <1>5, <1>6, <1>7 DEF At, Instr
  <2>2. Settle(main)
    BY <2>1, MainGoes DEF At, Start, Join, Check
  <2> QED
    BY <2>2 DEF Settle, Settled
<1>8. CASE i # n
  <2>1. i < n /\ \A j \in i + 1 .. n : j \in DOMAIN p /\ p[j].do \in Checking
    BY <1>1, <1>3, <1>4, <1>5, <1>6, <1>8
  <2>2. HasSettled(p, n) /\ n \in DOMAIN p /\ p[n].do \in Checking
    <3>1. i \in 1 .. n - 1 /\ n \in i + 1 .. n
      BY <1>1, <1>3, <1>5, <2>1
    <3> QED
      BY <1>3, <2>1, <3>1 DEF HasSettled
  <2>3. \A r \in Slot : queue[r] = <<>>
    BY <2>2 DEF SettledInv, IsEmpty
  <2>4. \A t \in Client : ~Call(t)
    BY <2>2, AloneAtCheck
  <2>5. ASSUME NEW t \in Client, TestThread(t) PROVE UNCHANGED queue
    BY <2>4, <2>5 DEF TestThread, Start, Join, Settle, CondWait, Check
  <2>6. ASSUME NEW r \in Slot, TestSlot(r) PROVE UNCHANGED queue
    <3>1. ~CallbackEnters(r)
      BY <2>3 DEF CallbackEnters, AsyncTake, IsEmpty
    <3> QED
      BY <1>1, <2>6, <3>1, SlotMoves DEF AsyncExit, AsyncWait, AsyncDrained, AsyncCbReturn
  <2> QED
    BY <2>3, <2>5, <2>6 DEF TestNext
<1> QED
  BY <1>7, <1>8

(* While nothing fails, main passes no start without starting its threads.          *)
LEMMA StartedNext ==
    ASSUME ConlesAssumption, Facts, StartedInv, TestNext
    PROVE  StartedInv'
<1> DEFINE p == Program(main)
           n == step[main]
<1>1. /\ LinkInv /\ StepInv /\ PlaceInv /\ ThreadsInv /\ SlotsInv /\ ResultInv /\ ModeInv
      /\ step \in [Client -> Nat] /\ main \in Client /\ case \in Cases /\ case' = case
      /\ \A t \in Client : Len(Program(t)) \in Nat
      /\ DOMAIN p = 1 .. Len(p)
  BY TestAssumption, ProgramShape, StepMoves DEF Facts, StepInv
<1>2. SUFFICES ASSUME failed' = {}, NEW u \in Client, HasStarted(p, u, step'[main])
               PROVE  step'[u] # 0
  BY <1>1 DEF StartedInv, Program
<1>3. failed = {}
  BY <1>2, FailedGrows
<1>4. PICK j \in 1 .. step'[main] - 1 : p[j].do = "start" /\ u \in p[j].threads
  BY <1>2 DEF HasStarted
<1>5. step[u] # 0 => step'[u] # 0
  <2>1. CASE \E t \in Client : Passes(t)
    BY <1>1, <2>1 DEF Passes
  <2>2. CASE Leaves
    BY <1>1, <2>2 DEF Leaves
  <2>3. CASE Start(main)
    BY <1>1, <2>3 DEF Start
  <2> QED
    BY <1>1, <2>1, <2>2, <2>3, StepMoves
<1>6. CASE j < n
  <2>1. HasStarted(p, u, n)
    BY <1>1, <1>4, <1>6 DEF HasStarted
  <2> QED
    BY <1>3, <1>5, <2>1 DEF StartedInv
<1>7. CASE ~(j < n)
  <2>1. step'[main] # n
    BY <1>1, <1>4, <1>7
  <2>2. CASE \E do \in {"sub", "unsub", "post"} : At(main, do) /\ Call(main)
    <3>1. step'[main] = n + 1 /\ n \in DOMAIN p /\ p[n].do \in {"sub", "unsub", "post"}
      <4>1. step' = [step EXCEPT ![main] = @ + 1] \/ step' = step
        BY <1>1, <2>2, CallGoesOn
      <4> QED
        BY <1>1, <2>1, <2>2, <4>1 DEF At, Instr
    <3>2. j = n
      BY <1>1, <1>4, <1>7, <3>1
    <3> QED
      BY <1>4, <3>1, <3>2
  <2>3. CASE Start(main)
    <3>1. main \notin Instr(main).threads /\ n \in DOMAIN p
      BY <1>1, <2>3, Led DEF Start, At, Instr
    <3>2. step'[main] = n + 1
      BY <1>1, <2>3, <3>1 DEF Start
    <3>3. j = n
      BY <1>1, <1>4, <1>7, <3>1, <3>2
    <3> QED
      BY <1>1, <1>4, <2>3, <3>3 DEF Start, Instr
  <2>4. CASE \/ Join(main) \/ Settle(main) \/ Check(main) \/ At(main, "condWait")
    <3>1. n \in DOMAIN p /\ p[n].do # "start"
      BY <2>4 DEF Join, Settle, Check, At, Instr
    <3>2. step'[main] = n + 1
      <4>1. CASE Join(main) \/ Settle(main)
        BY <1>1, <4>1 DEF Join, Settle, GoOn
      <4>2. CASE Check(main)
        BY <1>1, <1>2, <4>2 DEF Check, Checked, GoOn
      <4>3. CASE At(main, "condWait")
        <5>1. CASE \E t \in Client : Passes(t)
          BY <1>1, <2>1, <5>1 DEF Passes
        <5>2. ~Leaves /\ ~Start(main)
          BY <4>3 DEF Leaves, Start, At
        <5> QED
          BY <1>1, <2>1, <5>1, <5>2, StepMoves
      <4> QED
        BY <2>4, <4>1, <4>2, <4>3
    <3>3. j = n
      BY <1>1, <1>4, <1>7, <3>1, <3>2
    <3> QED
      BY <1>4, <3>1, <3>3
  <2> QED
    BY <2>1, <2>2, <2>3, <2>4, MainGoes
<1> QED
  BY <1>1, <1>6, <1>7

(* Where a test's subscriber is not main, all is unsubscribed at each check.        *)
LEMMA FreeAtCheck ==
    ASSUME Facts, step[main] \in DOMAIN Program(main),
           Program(main)[step[main]].do \in {"check", "checkAll", "checkMagic"},
           \/ Subscriber(case) # main
           \/ Subscriber(case) = main /\ LiveAt(Program(main), step[main]) = {}
    PROVE  \A s \in Slot : IsFree(s) /\ pc[s] = "none" /\ queue[s] = <<>> /\ cache[s] = <<>>
<1>1. /\ LinkInv /\ StepInv /\ PlaceInv /\ SlotsInv /\ case \in Cases /\ suber \in Client
      /\ main \in Client
      /\ Len(Program(main)) \in Nat /\ DOMAIN Program(main) = 1 .. Len(Program(main))
  BY TestAssumption, SuberIsClient, ProgramShape DEF Facts, StepInv
<1>2. live = {}
  <2>1. CASE Subscriber(case) # main
    <3>1. step[suber] \in {0, Len(Program(suber)) + 1}
      BY <1>1, <2>1, AloneAtCheck DEF suber
    <3>2. LiveAt(Program(suber), Len(Program(suber)) + 1) = {}
      BY <1>1, <2>1, CountsAssumption DEF suber, Program
    <3> QED
      BY <3>1, <3>2, LiveFirst DEF live
  <2>2. CASE Subscriber(case) = main /\ LiveAt(Program(main), step[main]) = {}
    BY <2>2 DEF live, suber
  <2> QED
    BY <2>1, <2>2
<1>3. suber # main \/ step[suber] # Len(Program(suber)) + 1
  BY <1>1
<1>4. \A s \in Slot : IsFree(s)
  BY <1>1, <1>2, <1>3 DEF SlotsInv
<1> QED
  BY <1>1, <1>4 DEF LinkInv, FreeSlotIsQuiet, PlaceInv

(* Where main checks, nothing is on its way to the callback.                        *)
LEMMA NothingOnItsWay ==
    ASSUME ConlesAssumption, Facts, SettledInv, step[main] \in DOMAIN Program(main),
           Program(main)[step[main]].do \in {"check", "checkAll", "checkMagic"},
           IsChecked(case, step[main]), CountsOneWay(case, ClaimAt(case, step[main]))
    PROVE  LET q == ClaimAt(case, step[main])
           IN  Reached(q.key, q.evt) = {} /\ Queued(q.key, q.evt) = {}
<1> DEFINE n == step[main]
           q == ClaimAt(case, n)
<1>1. /\ LinkInv /\ HistInv /\ LifeInv /\ StepInv /\ SlotsInv /\ ModeInv /\ NoBacklog
      /\ q.key # None /\ case \in Cases /\ main \in Client
      /\ Len(Program(main)) \in Nat /\ DOMAIN Program(main) = 1 .. Len(Program(main))
  BY ConlesAssumption, TestAssumption, EmptyBacklog, ProgramShape
     DEF Facts, StepInv, CountsOneWay
<1>2. Reached(q.key, q.evt) = {}
  BY AloneAtCheck DEF Reached, HasReached
<1>3. CASE \A s \in Slot : cbProc[s] # q.key \/ queue[s] = <<>>
  <2>1. \A s \in Slot : cbProc[s] = q.key => Backlog(s, q.evt) = {}
    BY <1>1, <1>3 DEF NoBacklog
  <2> QED
    BY <1>2, <2>1 DEF Queued
<1>4. \A s \in Slot : cbProc[s] # q.key \/ queue[s] = <<>>
  <2>1. CASE HasSettled(Program(main), n)
    BY <2>1 DEF SettledInv, IsEmpty
  <2>2. CASE Subscriber(case) = main /\ \A j \in LiveAt(Program(main), n) :
                Program(main)[j].key # q.key
    <3>1. suber = main /\ live = LiveAt(Program(main), n) /\ n # Len(Program(main)) + 1
      BY <1>1, <2>2 DEF suber, live
    <3>2. \A s \in Slot : ~IsFree(s) => \E j \in live : Subscribed(s, j)
      BY <1>1, <3>1 DEF SlotsInv
    <3> QED
      BY <1>1, <2>2, <3>1, <3>2 DEF Subscribed, IsFree
  <2>3. CASE Subscriber(case) # main
    BY <2>3, FreeAtCheck
  <2>4. CASE ~AllPosts(case, FALSE)
    BY <1>1, <2>4 DEF ModeInv, LifeInv
  <2> QED
    BY <2>1, <2>2, <2>3, <2>4 DEF IsChecked, Program
<1> QED
  BY <1>2, <1>3, <1>4

(* The posts main expects to have been made have returned.                          *)
LEMMA AllReturned ==
    ASSUME Facts, StartedInv, failed = {}, step[main] \in DOMAIN Program(main),
           Program(main)[step[main]].do \in {"check", "checkAll", "checkMagic"}, NEW q
    PROVE  Returned(q) = MadeBefore(case, q, step[main])
<1>1. StepInv /\ ThreadsInv /\ case \in Cases
  BY DEF Facts, StepInv
<1>2. ASSUME NEW x \in Relevant(case, q), x[1] # main
      PROVE  x[2] < step[x[1]] <=> HasStarted(Program(main), x[1], step[main])
  <2> DEFINE u == x[1]
  <2>1. /\ u \in Client \ {main} /\ x[2] \in DOMAIN Program(u)
        /\ Len(Program(u)) \in Nat /\ DOMAIN Program(u) = 1 .. Len(Program(u))
    <3>1. x[1] \in Client /\ x[2] \in DOMAIN Program(x[1])
      BY <1>1, <1>2, RelevantFinite, PostsOfWhat
    <3> QED
      BY <1>1, <1>2, <3>1, ProgramShape
  <2>2. step[u] \in {0, Len(Program(u)) + 1}
    BY <2>1, AloneAtCheck
  <2>3. step[u] # 0 <=> HasStarted(Program(main), u, step[main])
    BY <1>1, <2>1 DEF StartedInv, ThreadsInv, HasStarted
  <2> HIDE DEF u
  <2>4. x[2] < step[u] <=> step[u] # 0
    BY <2>1, <2>2
  <2> QED
    BY <2>3, <2>4 DEF u
<1> QED
  BY <1>2 DEF Returned, MadeBefore, Program

(* So each check finds what it expects, unless a post of another thread has failed. *)
LEMMA CheckHolds ==
    ASSUME ConlesAssumption, Facts, SettledInv, StartedInv, BalanceInv, failed = {},
           case \notin Uncounted, step[main] \in DOMAIN Program(main),
           Program(main)[step[main]].do \in {"check", "checkAll", "checkMagic"}
    PROVE  Holds(Instr(main))
<1> DEFINE n == step[main]
           i == Program(main)[n]
           q == ClaimAt(case, n)
<1>1. /\ n \in Checks(case) /\ case \in Cases /\ Instr(main) = i
      /\ q = Claim(i) /\ CountersType
  BY DEF Checks, Facts, StepInv, Instr, Program, ClaimAt
<1>2. CountsOneWay(case, q) /\ IsChecked(case, n)
  BY <1>1, CountsAssumption
<1>3. Balanced(q)
  BY <1>1 DEF BalanceInv
<1>4. Reached(q.key, q.evt) = {} /\ Queued(q.key, q.evt) = {}
  BY <1>2, NothingOnItsWay
<1>5. q.n = Cardinality(Returned(q))
  BY <1>2, AllReturned DEF IsChecked
<1>6. /\ count[q.key][q.evt] \in Nat /\ Tallied(q) \in Nat /\ Cardinality(Returned(q)) \in Nat
      /\ Cardinality({}) = 0
  BY <1>2, CountsTyped, FS_EmptySet
<1>7. q.n = count[q.key][q.evt] + Tallied(q)
  <2>1. count[q.key][q.evt] + 0 + Tallied(q) = Cardinality(Returned(q)) + 0
    BY <1>3, <1>4, <1>6 DEF Balanced
  <2> QED
    BY <1>5, <1>6, <2>1
<1>8. Counted(q) /\ q.do = "check"
  BY <1>1, <1>2, <1>7, CountedOne DEF CountsOneWay
<1>9. CASE i.do = "checkMagic"
  <2>1. q = check("A", "KEEPALIVE", {}, 1)
    BY <1>1, <1>9 DEF Claim
  <2>2. Subscriber(case) = main /\ LiveAt(Program(main), n) = {}
    BY <1>2, <1>9 DEF IsChecked, Program
  <2>3. \A s \in Slot : pc[s] = "none"
    BY <2>2, FreeAtCheck
  <2>4. ~\E s \in Slot : InAsyncCb(s)
    BY <2>3 DEF InAsyncCb
  <2>5. count["A"]["KEEPALIVE"] = 1
    <3>1. q.key = "A" /\ q.evt = "KEEPALIVE" /\ q.results = {} /\ q.n = 1
      BY <2>1 DEF check
    <3>2. Tallied(q) = 0
      BY <3>1 DEF Tallied
    <3> QED
      BY <1>6, <1>7, <3>1, <3>2
  <2>6. MagicValue = 3
    BY <2>4, <2>5 DEF MagicValue
  <2> QED
    BY <1>1, <1>9, <2>6 DEF Holds
<1>10. CASE i.do # "checkMagic"
  <2>1. q = i
    BY <1>1, <1>10 DEF Claim
  <2> HIDE DEF i, q
  <2> QED
    BY <1>1, <1>8, <2>1 DEF Holds
<1> QED
  BY <1>9, <1>10

(* So no check fails for another reason than a post that came too early.            *)
LEMMA FailedNext ==
    ASSUME ConlesAssumption, Facts, SettledInv, StartedInv, BalanceInv, FailedInv, TestNext,
           case \notin Uncounted
    PROVE  FailedInv'
<1>1. /\ LinkInv /\ StepInv /\ PlaceInv /\ ThreadsInv /\ SlotsInv /\ ResultInv /\ ModeInv
      /\ case \in Cases /\ case' = case /\ case # "Typical_Case02"
  BY StepMoves DEF Facts, StepInv, Uncounted
<1>2. CASE failed' = failed
  BY <1>1, <1>2 DEF FailedInv
<1>3. ASSUME NEW t \in Client, Call(t) PROVE FailedInv'
  <2>1. failed' \subseteq failed \cup (IF case = "State_Case02" THEN {"NOT_FOUND"} ELSE {})
    BY <1>1, <1>3, CallGoesOn
  <2>2. failed \subseteq failed'
    BY FailedGrows
  <2> QED
    BY <1>1, <2>1, <2>2 DEF FailedInv
<1>4. ASSUME NEW t \in Client, Check(t) PROVE FailedInv'
  <2>1. t = main /\ step[main] \in DOMAIN Program(main)
        /\ Program(main)[step[main]].do \in {"check", "checkAll", "checkMagic"}
    BY <1>1, <1>4, Led DEF Check, At, Instr
  <2>2. failed' = failed \cup (IF Holds(Instr(main)) THEN {}
                               ELSE IF Settled THEN {"check"} ELSE {"early"})
    BY <1>4, <2>1 DEF Check, Checked
  <2>3. CASE failed = {}
    BY <1>2, <2>1, <2>2, <2>3, CheckHolds
  <2>4. CASE failed # {}
    <3>1. "NOT_FOUND" \in failed /\ case = "State_Case02"
      BY <2>4 DEF FailedInv
    <3>2. \A s \in Slot : pc[s] = "none" /\ queue[s] = <<>> /\ cache[s] = <<>>
      BY <2>1, <3>1, FreeAtCheck, TestAssumption DEF Subscriber
    <3>3. Settled
      BY <3>2 DEF Settled
    <3> QED
      BY <1>1, <2>2, <3>1, <3>3 DEF FailedInv
  <2> QED
    BY <2>3, <2>4
<1>5. ASSUME NEW t \in Client, Start(t) \/ Join(t) \/ Settle(t) \/ CondWait(t)
      PROVE  failed' = failed
  BY <1>5 DEF Start, Join, Settle, CondWait
<1>6. ASSUME NEW s \in Slot, TestSlot(s) PROVE failed' = failed
  <2>1. CASE CallbackEnters(s)
    BY <2>1 DEF CallbackEnters
  <2> QED
    BY <1>1, <1>6, <2>1, SlotMoves
<1> QED
  BY <1>2, <1>3, <1>4, <1>5, <1>6 DEF TestNext, TestThread

LEMMA FactsHold == IInv /\ TestInv /\ CountersType /\ DeliveryInv => Facts
BY Types DEF IInv, LinkInv, TestInv, Facts

(* CountsInv holds where a test starts,                                             *)
LEMMA CountsStart ==
    ASSUME ConlesAssumption, TestInit
    PROVE  CountsInv
<1>1. /\ Idle /\ case \in Cases /\ failed = {}
      /\ step = [t \in Client |-> IF t = main THEN 1 ELSE 0]
      /\ count = [k \in Key |-> [e \in EvtID |-> 0]]
      /\ tally = [e \in EvtID |-> [r \in {"SUCCESS", "TIMEOUT", "NO_EVT_SUBER",
                                          "NOT_FOUND"} |-> 0]]
      /\ main \in Client
  BY TestAssumption DEF TestInit
<1>2. /\ \A t \in Client : pc[t] = "idle" /\ t \notin Slot
      /\ \A s \in Slot : cbProc[s] = None /\ queue[s] = <<>>
  BY <1>1, ConlesAssumption DEF Idle
<1>3. CountersType
  BY <1>1 DEF CountersType
<1>4. DeliveryInv
  BY <1>2 DEF DeliveryInv, Delivers
<1>5. SettledInv
  BY <1>2 DEF SettledInv, IsEmpty
<1>6. StartedInv
  BY <1>1 DEF StartedInv, HasStarted
<1>7. FailedInv
  BY <1>1 DEF FailedInv
<1>8. ASSUME case \notin Uncounted, NEW q \in {ClaimAt(case, n) : n \in Checks(case)}
      PROVE  Balanced(q)
  <2>1. CountsOneWay(case, q)
    BY <1>1, <1>8, CountsAssumption
  <2>2. q.key \in Key /\ q.evt \in EvtID
    BY <2>1 DEF CountsOneWay
  <2>3. count[q.key][q.evt] = 0
    BY <1>1, <2>2
  <2>4. Tallied(q) = 0
    <3>1. \A r \in {"TIMEOUT", "NO_EVT_SUBER"} : tally[q.evt][r] = 0
      BY <1>1, <2>2
    <3> QED
      BY <2>1, <3>1, TalliedWhat
  <2>5. Queued(q.key, q.evt) = {}
    BY <1>2, <2>2, ConlesAssumption DEF Queued
  <2>6. Reached(q.key, q.evt) = {}
    BY <1>2 DEF Reached, HasReached
  <2>7. Returned(q) = {}
    <3>1. ASSUME NEW x \in Relevant(case, q) PROVE ~(x[2] < step[x[1]])
      <4>1. x[1] \in Client /\ x[2] \in DOMAIN Program(x[1])
        BY <1>1, RelevantFinite, PostsOfWhat
      <4>2. x[2] \in Nat \ {0}
        BY <1>1, <4>1, ProgramShape
      <4>3. step[x[1]] \in {0, 1}
        BY <1>1, <4>1
      <4> QED
        BY <4>2, <4>3
    <3> QED
      BY <3>1 DEF Returned
  <2>8. Cardinality({}) = 0
    BY FS_EmptySet
  <2> QED
    BY <2>3, <2>4, <2>5, <2>6, <2>7, <2>8 DEF Balanced
<1>9. case \notin Uncounted => BalanceInv
  BY <1>8 DEF BalanceInv
<1> QED
  BY <1>3, <1>4, <1>5, <1>6, <1>7, <1>9 DEF CountsInv

(* no step breaks it,                                                               *)
LEMMA CountsSteps ==
    ASSUME ConlesAssumption, IInv, TestInv, CountsInv, IInv', TestInv',
           [TestNext]_<<vars, testVars>>
    PROVE  CountsInv'
<1>1. Facts
  BY FactsHold DEF CountsInv
<1>2. CASE TestNext
  <2>1. CountersType' /\ DeliveryInv'
    BY <1>1, <1>2, CountersNext, DeliveryNext
  <2>2. Facts'
    <3>1. (IInv /\ TestInv /\ CountersType /\ DeliveryInv => Facts)'
      BY FactsHold, PTL
    <3> QED
      BY <2>1, <3>1
  <2>3. case' = case /\ case \in Cases
    BY <1>1, <1>2, StepMoves DEF Facts, StepInv
  <2>4. ASSUME case \notin Uncounted
        PROVE  SettledInv' /\ StartedInv' /\ BalanceInv' /\ FailedInv'
    <3>1. SettledInv /\ StartedInv /\ BalanceInv /\ FailedInv /\ case # "Typical_Case02"
      BY <2>4 DEF CountsInv, Uncounted
    <3>2. SettledInv' /\ StartedInv' /\ FailedInv'
      BY <1>1, <1>2, <2>4, <3>1, SettledNext, StartedNext, FailedNext
    <3>3. ASSUME failed' = {}, NEW q \in {ClaimAt(case, n) : n \in Checks(case)}
          PROVE  Balanced(q)'
      <4>1. failed = {}
        BY <1>2, <3>3, FailedGrows
      <4>2. CountsOneWay(case, q)
        BY <2>3, <2>4, <3>3, CountsAssumption
      <4>3. Balanced(q)
        BY <3>1, <3>3, <4>1 DEF BalanceInv
      <4> QED
        BY <1>1, <1>2, <2>2, <3>1, <3>3, <4>2, <4>3, BalanceNext
    <3>4. BalanceInv'
      BY <2>3, <3>3 DEF BalanceInv
    <3> QED
      BY <3>2, <3>4
  <2> QED
    BY <2>1, <2>3, <2>4 DEF CountsInv
<1>3. CASE UNCHANGED <<vars, testVars>>
  <2>1. CountersType'
    BY <1>3 DEF CountsInv, CountersType
  <2>2. DeliveryInv'
    BY <1>3, DeliversSame DEF CountsInv, DeliveryInv
  <2>3. SettledInv => SettledInv'
    BY <1>3 DEF SettledInv, IsEmpty, Program
  <2>4. StartedInv => StartedInv'
    BY <1>3 DEF StartedInv, Program
  <2>5. ASSUME NEW q, Balanced(q) PROVE Balanced(q)'
    <3>1. /\ Queued(q.key, q.evt)' = Queued(q.key, q.evt)
          /\ Reached(q.key, q.evt)' = Reached(q.key, q.evt)
          /\ Returned(q)' = Returned(q)
      BY <1>3 DEF Queued, Backlog, Reached, HasReached, IsMatch, Returned
    <3> QED
      BY <1>3, <2>5, <3>1, BalanceKept
  <2>6. BalanceInv => BalanceInv'
    BY <1>3, <2>5 DEF BalanceInv
  <2>7. FailedInv => FailedInv'
    BY <1>3 DEF FailedInv
  <2> QED
    BY <1>3, <2>1, <2>2, <2>3, <2>4, <2>6, <2>7 DEF CountsInv
<1> QED
  BY <1>2, <1>3

(* so every reachable state of a test satisfies it.                                 *)
LEMMA CountsInductive == TestSpec => []CountsInv
<1>1. TestInit => CountsInv
  BY CountsStart, ConlesAssumption
<1>2. IInv /\ TestInv /\ CountsInv /\ IInv' /\ TestInv' /\ [TestNext]_<<vars, testVars>>
          => CountsInv'
  BY CountsSteps, ConlesAssumption
<1> QED
  BY <1>1, <1>2, LinkInductive, TestInductive, PTL DEF TestSpec

(* In every interleaving of a test's threads and of its async threads, the counters *)
(* of the callbacks and the results of the posts agree as the test asserts, however *)
(* many rounds it posts and however small the queues are: no event is lost, doubled *)
(* or given to a callback that did not ask for it. Typical_Case02, which looks too  *)
(* early, and Concurrency_Case03, whose assertion does not hold, are left out.      *)
THEOREM TestCountsAgree ==
    TestSpec => [](case \notin {"Typical_Case02", "Concurrency_Case03"} => CountsAsAsserted)
<1>1. CountsInv => (case \notin {"Typical_Case02", "Concurrency_Case03"} => CountsAsAsserted)
  BY DEF CountsInv, Uncounted, FailedInv, CountsAsAsserted
<1> QED
  BY <1>1, CountsInductive, PTL
=====================================================================================
