----------------------------- MODULE ConlesTestsProofs ------------------------------
(* The tests run the link as ConlesEvent describes it, so all that is proved of the *)
(* link holds in each of them; and TestInv is inductive, so for every number of     *)
(* rounds, every size of the table and of the queues, each call returns what its    *)
(* test asserts and no callback is entered twice at a time.                         *)
EXTENDS ConlesTestsInv, ConlesEventLink

USE DEF vars, ctxVars, tableVars, slotVars, frameVars, envVars, testVars
USE DEF Thread, Slot, InCall, InScan, InUnsub, InCtx, ClientPc, AsyncPc

(* A step of a test is a step of the link, or one the link does not take part in.   *)
LEMMA TestRunsLink ==
    ASSUME [TestNext]_<<vars, testVars>>
    PROVE  [Next]_vars
<1>1. ASSUME NEW t \in Client, TestThread(t) PROVE Next \/ UNCHANGED vars
  <2>1. CASE Call(t)
    <3>1. subEVT(t) \/ unsubEVT(t) \/ postEVT(t)
      BY <2>1 DEF Call, PLT_IOC_subEVT, PLT_IOC_unsubEVT, PLT_IOC_postEVT
    <3> QED
      BY <3>1 DEF Next
  <2>2. CASE Start(t) \/ Join(t) \/ Settle(t) \/ CondWait(t) \/ Check(t)
    BY <2>2 DEF Start, Join, Settle, CondWait, Check
  <2> QED
    BY <1>1, <2>1, <2>2 DEF TestThread
<1>2. ASSUME NEW s \in Slot, TestSlot(s) PROVE Next \/ UNCHANGED vars
  <2>1. CASE CallbackReplies(s)
    <3>1. PICK m \in Msg : PostCall(s, m, Block)
      BY <2>1 DEF CallbackReplies
    <3>2. Block \in Options
      BY TestAssumption DEF Block
    <3> QED
      BY <3>1, <3>2 DEF Next, postEVT
  <2>2. CASE CallbackPosts(s)
    BY <2>2 DEF CallbackPosts, Next
  <2>3. CASE ~CallbackReplies(s) /\ ~CallbackPosts(s)
    BY <1>2, <2>3 DEF TestSlot, CallbackEnters, Next, ASyncEventThread
  <2> QED
    BY <2>1, <2>2, <2>3
<1>3. UNCHANGED <<vars, testVars>> => UNCHANGED vars
  OBVIOUS
<1> QED
  BY <1>1, <1>2, <1>3 DEF TestNext

(* In every reachable state of a test the link satisfies its inductive invariant.   *)
LEMMA LinkInductive == TestSpec => []IInv
<1>1. TestInit => IInv
  BY IdleIInv, ConlesAssumption DEF TestInit
<1>2. IInv /\ [TestNext]_<<vars, testVars>> => IInv'
  BY TestRunsLink, NextIInv, ConlesAssumption
<1> QED
  BY <1>1, <1>2, PTL DEF TestSpec

(* In every test, the link keeps its promises: its mutex excludes and is not        *)
(* leaked, its count is right, what unsubEVT has given back is quiet, posts reach   *)
(* whom they must and report it, and no wake-up is lost.                            *)
THEOREM TestsKeepLinkSafe ==
    TestSpec => [](/\ CtxMutexHeld /\ CtxMutexNotLeaked /\ SubersCounted
                   /\ FreeSlotIsQuiet /\ NoSuberIsTrue /\ BlockingPostReachesAll
                   /\ WakeupNotLost)
<1>1. ASSUME IInv PROVE SubersCounted
  <2>1. ctxOwner = None => ~ClearsAll \/ HasAborted
    BY <1>1, ConlesAssumption DEF IInv, CtxMutexHeld, ClearsAll, HasAborted
  <2> QED
    BY <1>1, <2>1 DEF IInv, CountInv, SubersCounted
<1>2. IInv => BlockingPostReachesAll
  BY Types, ReachInvMeans DEF IInv
<1>3. IInv => /\ CtxMutexHeld /\ CtxMutexNotLeaked /\ SubersCounted
              /\ FreeSlotIsQuiet /\ NoSuberIsTrue /\ BlockingPostReachesAll
              /\ WakeupNotLost
  BY <1>1, <1>2 DEF IInv
<1> QED
  BY <1>3, LinkInductive, PTL

(* In every test, each client's events reach each subscription in the order they    *)
(* were posted in.                                                                  *)
THEOREM TestsKeepLinkOrder == TestSpec => []ClientOrderKept
<1>1. TestInit => OrderInv
  BY IdleOrder, ConlesAssumption DEF TestInit
<1>2. IInv /\ OrderInv /\ [TestNext]_<<vars, testVars>> => OrderInv'
  BY TestRunsLink, NextOrder, ConlesAssumption
<1>3. OrderInv => ClientOrderKept
  BY DEF OrderInv
<1> QED
  BY <1>1, <1>2, <1>3, LinkInductive, PTL DEF TestSpec

(* In every test the link implements the one its users are promised: each event     *)
(* goes to open subscriptions that want it and have room, and is handled alone.     *)
THEOREM TestsUseLink == TestSpec => ImplementsEvtLink
<1>1. TestInit => Link!Init
  BY LinkIdle, ConlesAssumption DEF TestInit
<1>2. IInv /\ [TestNext]_<<vars, testVars>> => [Link!Next]_(Link!vars)
  BY TestRunsLink, LinkStep, ConlesAssumption
<1> QED
  BY <1>1, <1>2, LinkInductive, PTL DEF TestSpec, ImplementsEvtLink, Link!Spec

-------------------------------------------------------------------------------------
(* The programs.                                                                    *)

(* A program is a sequence, and the test that runs is one of the tests.             *)
LEMMA ProgramShape ==
    ASSUME case \in Cases, NEW t \in Client
    PROVE  Len(Program(t)) \in Nat /\ DOMAIN Program(t) = 1 .. Len(Program(t))
BY ProgramsAssumption DEF AreSequences, Program

(* A thread that subscribes is a thread of the test.                                *)
LEMMA SuberIsClient == suber \in Client
BY TestAssumption DEF suber, Subscriber

(* What is live behind an instruction: what was, but for what it drops, and it      *)
(* itself if it asks for a subscription.                                            *)
LEMMA LiveNext ==
    ASSUME NEW p, NEW n \in Nat
    PROVE  LiveAt(p, n + 1) = {j \in LiveAt(p, n) : ~Drops(p[n], p[j].key)}
                                  \cup (IF n # 0 /\ Asks(p[n]) THEN {n} ELSE {})
<1>1. ASSUME NEW j \in 1 .. n - 1
      PROVE  j \in LiveAt(p, n + 1) <=> j \in LiveAt(p, n) /\ ~Drops(p[n], p[j].key)
  <2>1. j + 1 .. n = (j + 1 .. n - 1) \cup {n} /\ (n + 1) - 1 = n /\ j \in 1 .. n
    OBVIOUS
  <2> QED
    BY <2>1 DEF LiveAt
<1>2. n # 0 => (n \in LiveAt(p, n + 1) <=> Asks(p[n]))
  <2>1. n + 1 .. (n + 1) - 1 = {} /\ (n # 0 => n \in 1 .. (n + 1) - 1)
    OBVIOUS
  <2> QED
    BY <2>1 DEF LiveAt
<1>3. /\ LiveAt(p, n + 1) \subseteq 1 .. n
      /\ LiveAt(p, n) \subseteq 1 .. n - 1
      /\ 1 .. n \subseteq (1 .. n - 1) \cup {n}
      /\ n = 0 => 1 .. n = {}
  BY DEF LiveAt
<1>4. n \notin LiveAt(p, n)
  BY <1>3
<1> QED
  BY <1>1, <1>2, <1>3, <1>4

(* Before its first instruction a program has no subscription.                      *)
LEMMA LiveFirst == \A p : LiveAt(p, 0) = {} /\ LiveAt(p, 1) = {}
<1>1. 1 .. 0 - 1 = {} /\ 1 .. 1 - 1 = {}
  OBVIOUS
<1> QED
  BY <1>1 DEF LiveAt

(* The subscriber's calls come as SubscribesInTurn says.                            *)
LEMMA InTurn ==
    ASSUME case \in Cases, NEW t \in Client, NEW i \in DOMAIN Program(t),
           Program(t)[i].do \in {"sub", "unsub"}
    PROVE  /\ t = suber
           /\ Asks(Program(t)[i]) =>
                 /\ Cardinality(LiveAt(Program(t), i)) < MaxSuberNum
                 /\ \A j \in LiveAt(Program(t), i) : Program(t)[j].key # Program(t)[i].key
           /\ Program(t)[i].do = "sub" /\ ~Asks(Program(t)[i]) =>
                 /\ Program(t)[i].want = {"NOT_ENOUGH_RESOURCE"}
                 /\ Cardinality(LiveAt(Program(t), i)) = MaxSuberNum
           /\ Program(t)[i].do = "unsub" =>
                 Program(t)[i].want = Ok /\ \E j \in 1 .. i - 1 : Asks(Program(t)[j])
<1>1. SubscribesInTurn(case)
  BY ProgramsAssumption
<1> QED
  BY <1>1, Zenon DEF SubscribesInTurn, Program, suber

(* A program has one live subscription of a key.                                    *)
LEMMA LiveDistinct ==
    ASSUME case \in Cases, NEW n \in Nat, n <= Len(Program(suber)) + 1,
           NEW i \in LiveAt(Program(suber), n), NEW j \in LiveAt(Program(suber), n),
           Program(suber)[i].key = Program(suber)[j].key
    PROVE  i = j
<1> DEFINE p == Program(suber)
<1>1. /\ Len(p) \in Nat /\ DOMAIN p = 1 .. Len(p)
      /\ i \in 1 .. n - 1 /\ j \in 1 .. n - 1
  BY SuberIsClient, ProgramShape DEF LiveAt
<1>2. ASSUME NEW a \in LiveAt(p, n), NEW b \in LiveAt(p, n), a < b
      PROVE  p[a].key # p[b].key
  <2>1. a \in 1 .. b - 1 /\ a + 1 .. b - 1 \subseteq a + 1 .. n - 1 /\ b \in DOMAIN p
    BY <1>1, <1>2 DEF LiveAt
  <2>2. a \in LiveAt(p, b)
    BY <2>1 DEF LiveAt
  <2>3. p[b].do = "sub" /\ Asks(p[b])
    BY DEF LiveAt, Asks
  <2> QED
    BY <2>1, <2>2, <2>3, SuberIsClient, InTurn
<1> QED
  BY <1>1, <1>2

(* main still runs a thread behind an instruction that does not join it, and it     *)
(* runs one it has just started.                                                    *)
LEMMA RunsNext ==
    ASSUME NEW p, NEW u, NEW n \in Nat \ {0}
    PROVE  /\ RunsAt(p, u, n) /\ ~(p[n].do = "join" /\ u \in p[n].threads)
                  => RunsAt(p, u, n + 1)
           /\ p[n].do = "start" /\ u \in p[n].threads => RunsAt(p, u, n + 1)
<1>1. ASSUME RunsAt(p, u, n), ~(p[n].do = "join" /\ u \in p[n].threads)
      PROVE  RunsAt(p, u, n + 1)
  <2>1. PICK i \in 1 .. n - 1 :
            /\ p[i].do = "start" /\ u \in p[i].threads
            /\ \A j \in i + 1 .. n - 1 : ~(p[j].do = "join" /\ u \in p[j].threads)
    BY <1>1 DEF RunsAt
  <2>2. i \in 1 .. (n + 1) - 1 /\ i + 1 .. (n + 1) - 1 = (i + 1 .. n - 1) \cup {n}
    OBVIOUS
  <2> QED
    BY <1>1, <2>1, <2>2 DEF RunsAt
<1>2. n \in 1 .. (n + 1) - 1 /\ n + 1 .. (n + 1) - 1 = {}
  OBVIOUS
<1> QED
  BY <1>1, <1>2 DEF RunsAt

(* main leads the other threads as LedByMain says.                                  *)
LEMMA Led ==
    ASSUME case \in Cases
    PROVE  /\ \A t \in Client \ {main} : \A i \in DOMAIN Program(t) :
                 Program(t)[i].do \in {"sub", "unsub", "post"}
           /\ \A i \in DOMAIN Program(main) :
                 Program(main)[i].do = "start" => main \notin Program(main)[i].threads
           /\ \A i, j \in DOMAIN Program(main) :
                 Program(main)[i].do = "start" /\ Program(main)[j].do = "start" /\ i # j =>
                    Program(main)[i].threads \cap Program(main)[j].threads = {}
           /\ \A u \in Client, i \in DOMAIN Program(main) :
                 Program(main)[i].do \in {"check", "checkAll", "checkMagic"} =>
                    ~RunsAt(Program(main), u, i)
           /\ \A u \in Client : ~RunsAt(Program(main), u, Len(Program(main)) + 1)
<1>1. LedByMain(case)
  BY ProgramsAssumption
<1> QED
  BY <1>1 DEF LedByMain, Program

(* What a post wants, while main is at its instruction n.                           *)
LEMMA Wanted ==
    ASSUME case \in Cases, NEW t \in Client, NEW i \in DOMAIN Program(t),
           Program(t)[i].do = "post", NEW n \in DOMAIN Program(main),
           IF t = main THEN n = i ELSE RunsAt(Program(main), t, n)
    PROVE  LET call == Program(t)[i]
               p == Program(main)
           IN  /\ \/ call.opt.wait = "block"
                  \/ call.opt.wait = "nonblock" /\ "TIMEOUT" \in call.want
               /\ case = "State_Case02" =>
                     t # main /\ {"SUCCESS", "NO_EVT_SUBER"} \subseteq call.want
               /\ case # "State_Case02" =>
                     /\ \/ "NO_EVT_SUBER" \in call.want
                        \/ \E j \in LiveAt(p, n) :
                              call.evt \in p[j].ids /\ ~Drops(p[n], p[j].key)
                     /\ \/ "SUCCESS" \in call.want
                        \/ t = main /\ \A j \in LiveAt(p, i) : call.evt \notin p[j].ids
                     /\ \E j \in 1 .. n - 1 : Asks(p[j])
<1>1. PostsAsWanted(case)
  BY ProgramsAssumption
<1>2. n \in Meanwhile(case, t, i)
  BY DEF Meanwhile, Program
<1> QED
  BY <1>1, <1>2 DEF PostsAsWanted, Program

-------------------------------------------------------------------------------------
(* What the calls touch, when no allocation fails.                                  *)

\* The parts of IInv and of TypeOK that the lemmas below use.
LinkInv ==
    /\ CtxType /\ TableType /\ QueueType /\ CacheType /\ PcType /\ FrameType /\ EnvType
    /\ CtxMutexHeld /\ FrameInv /\ FreeSlotIsQuiet /\ NoSuberIsTrue /\ CountInv

(* A subEVT touches the place of no other thread.                                   *)
LEMMA SubMoves ==
    ASSUME PcType, EnvType, QueueType, CacheType, NEW c \in Client, subEVT(c)
    PROVE  /\ UNCHANGED <<frameVars, envVars>>
           /\ \A u \in Thread : u # c => pc'[u] = pc[u]
           /\ \A s \in Slot : cache'[s] = cache[s] \/ cache'[s] = <<>>
           /\ \/ /\ pc[c] = "idle" /\ pc'[c] = "sub"
                 /\ UNCHANGED <<inited, curSuberNum, cbProc, evtIDs>>
              \/ /\ pc[c] = "sub" /\ pc'[c] = "idle"
                 /\ SubReject(c) \/ SubNoFreeSlot(c) \/ SubInstall(c)
<1>1. ~(faults < MaxFaults) /\ pc \in [Thread -> ClientPc \cup AsyncPc]
  BY TestAssumption DEF EnvType, PcType
<1>2. CASE SubLock(c)
  BY <1>1, <1>2 DEF SubLock, Goto
<1>3. CASE SubReject(c)
  BY <1>1, <1>3 DEF SubReject, Goto
<1>4. CASE SubNoFreeSlot(c)
  BY <1>1, <1>4 DEF SubNoFreeSlot, Goto
<1>5. CASE SubInstall(c)
  BY <1>1, <1>5 DEF SubInstall, Goto, FillSlot, CacheType
<1>6. ~SubMallocFails(c) /\ ~SubCallocFails(c)
  BY <1>1 DEF SubMallocFails, SubCallocFails
<1> QED
  BY <1>2, <1>3, <1>4, <1>5, <1>6 DEF subEVT

(* An unsubEVT touches the place of another thread only when it wakes or joins the  *)
(* async thread of a slot.                                                          *)
LEMMA UnsubMoves ==
    ASSUME ConlesAssumption, PcType, EnvType, FrameType, TableType, CtxMutexHeld, FrameInv,
           NEW c \in Client, unsubEVT(c)
    PROVE  /\ UNCHANGED <<inited, cache, ret, evt, opt, res, unposted, faults>>
           /\ \A u \in Client : u # c =>
                 pc'[u] = pc[u] /\ target'[u] = target[u] /\ idx'[u] = idx[u]
           /\ \A s \in Slot : \/ pc'[s] = pc[s]
                              \/ pc[s] \in {"wait", "exited"} /\ pc'[s] \in {"top", "none"}
           /\ \/ /\ pc[c] = "idle" /\ pc'[c] = "unsub" /\ idx'[c] = 1
                 /\ UNCHANGED <<cbProc, evtIDs>>
              \/ pc[c] \in InUnsub /\ pc'[c] \in InUnsub /\ target' = target
              \/ pc[c] \in InUnsub /\ pc'[c] = "idle"
<1>1. /\ pc \in [Thread -> ClientPc \cup AsyncPc] /\ c \in Thread
      /\ idx \in [Thread -> 0 .. MaxSuberNum + 1]
      /\ target \in [Client -> Key \cup {ALL, None}]
      /\ c \notin Slot /\ \A u \in Client : u \notin Slot
  BY DEF PcType, FrameType, EnvType, ConlesAssumption
<1>2. ASSUME NEW k, UnsubLock(c, k) PROVE pc[c] = "idle" /\ pc' = [pc EXCEPT ![c] = "unsub"]
            /\ idx' = [idx EXCEPT ![c] = 1] /\ target' = [target EXCEPT ![c] = k]
            /\ UNCHANGED <<inited, cache, ret, evt, opt, res, unposted, faults, cbProc, evtIDs>>
  BY <1>2 DEF UnsubLock, Goto
<1>3. CASE UnsubNoTable(c)
  BY <1>1, <1>3 DEF UnsubNoTable, UnsubReturn, Goto
<1>4. CASE UnsubSkip(c)
  BY <1>1, <1>4 DEF UnsubSkip
<1>5. CASE UnsubStop(c)
  BY <1>1, <1>5 DEF UnsubStop, Goto
<1>6. CASE UnsubSignal(c)
  BY <1>1, <1>6 DEF UnsubSignal, SignalAndGoto, FrameInv
<1>7. CASE UnsubClear(c)
  BY <1>1, <1>7 DEF UnsubClear, ClearSlot, AfterClear, UnsubReturn, Goto
<1>8. CASE UnsubJoin(c)
  <2>1. idx[c] \in Slot
    BY <1>8 DEF UnsubJoin, FrameInv
  <2> QED
    BY <1>1, <1>8, <2>1 DEF UnsubJoin, CanJoin, ClearSlot, AfterClear, UnsubReturn
<1>9. CASE UnsubDone(c)
  BY <1>1, <1>9 DEF UnsubDone, UnsubReturn, Goto
<1>10. CASE \E k \in Key \cup {ALL} : UnsubLock(c, k)
  BY <1>1, <1>2, <1>10
<1> QED
  BY <1>3, <1>4, <1>5, <1>6, <1>7, <1>8, <1>9, <1>10 DEF unsubEVT

(* Where a post that scans goes on, and what it has found so far.                   *)
Found(t) ==
    \/ res'[t] = res[t] /\ (pc'[t] = "syncCb" => AtMatch(t))
    \/ res'[t] = "SUCCESS" /\ (pc[t] = "syncCb" \/ AtMatch(t)) /\ pc'[t] # "syncCb"
    \/ res'[t] = "TIMEOUT" /\ AtMatch(t) /\ opt[t].wait = "nonblock" /\ pc'[t] # "syncCb"

(* A postEVT touches the place of another thread only when it wakes or starts the   *)
(* async thread of a slot.                                                          *)
LEMMA PostMoves ==
    ASSUME LinkInv, ModeInv, NEW t \in Thread, postEVT(t)
    PROVE  /\ UNCHANGED <<inited, curSuberNum, cbProc, evtIDs, target>>
           /\ \A u \in Thread : u # t =>
                 /\ evt'[u] = evt[u] /\ opt'[u] = opt[u] /\ ret'[u] = ret[u]
                 /\ res'[u] = res[u] /\ idx'[u] = idx[u]
                 /\ \/ pc'[u] = pc[u]
                    \/ u \in Slot /\ pc[u] = "wait" /\ pc'[u] = "top"
                    \/ u \in Slot /\ pc[u] = "none" /\ pc'[u] = "top" /\ ~opt[t].sync
                          /\ pc[t] = "post"
           /\ \A s \in Slot : cache'[s] = cache[s] \/ (s = t /\ pc[s] \in InCall)
           /\ \/ /\ pc[t] = (IF t \in Client THEN "idle" ELSE "cb") /\ pc'[t] = "lock"
                 /\ res'[t] = res[t]
                 /\ \E m \in Msg, o \in Options : PostCall(t, m, o)
              \/ /\ pc[t] \in InCall /\ pc'[t] \in InScan
                 /\ evt'[t] = evt[t] /\ opt'[t] = opt[t] /\ Found(t)
              \/ /\ pc[t] \in {"lock", "post"} /\ pc'[t] = ret[t]
                 /\ ret[t] \in {"idle", "cb", "drain"} /\ res'[t] = None
<1>1. /\ pc \in [Thread -> ClientPc \cup AsyncPc]
      /\ idx \in [Thread -> 0 .. MaxSuberNum + 1]
      /\ res \in [Thread -> Results \cup {None}]
      /\ evt \in [Thread -> Msg \cup {None}]
      /\ opt \in [Thread -> {None} \cup AnyOption]
      /\ ret \in [Thread -> {"idle", "cb", "drain", None}]
      /\ cache \in [Slot -> Seq(Msg)]
      /\ ~(faults < MaxFaults) /\ MayDrop = {} /\ FrameInv
  BY TestAssumption DEF LinkInv, PcType, FrameType, CacheType, EnvType
<1>18. pc[t] \in InCall => opt[t].wait # "timeout"
  BY DEF ModeInv
<1>2. CASE \E m \in Msg, o \in Options : PostCall(t, m, o)
  BY <1>1, <1>2 DEF PostCall, Goto
<1>3. ASSUME pc[t] \in {"lock", "post"}, NEW r, PostReturn(t, r)
      PROVE  /\ pc' = [pc EXCEPT ![t] = ret[t]] /\ ret[t] \in {"idle", "cb", "drain"}
             /\ evt' = [evt EXCEPT ![t] = None] /\ opt' = [opt EXCEPT ![t] = None]
             /\ ret' = [ret EXCEPT ![t] = None] /\ idx' = [idx EXCEPT ![t] = 0]
             /\ res' = [res EXCEPT ![t] = None]
  BY <1>1, <1>3 DEF PostReturn, Goto, FrameInv
<1>4. CASE PostLock(t)
  BY <1>1, <1>4 DEF PostLock, Goto, Found
<1>5. CASE PostNoTable(t)
  <2>1. pc[t] = "lock" /\ PostReturn(t, "NOT_FOUND")
    BY <1>5 DEF PostNoTable
  <2> QED
    BY <1>1, <1>3, <1>5, <2>1 DEF PostNoTable
<1>6. CASE PostLockTimeout(t)
  <2>1. pc[t] = "lock" /\ PostReturn(t, "TIMEOUT")
    BY <1>6 DEF PostLockTimeout
  <2> QED
    BY <1>1, <1>3, <1>6, <2>1 DEF PostLockTimeout
<1>7. CASE postEVT_ASyncThreadCached(t)
  <2>1. pc[t] = "lock" /\ t \in Slot
    BY <1>7 DEF postEVT_ASyncThreadCached
  <2>2. PostReturn(t, "SUCCESS") \/ PostReturn(t, "NOT_ENOUGH_RESOURCE")
    BY <1>7 DEF postEVT_ASyncThreadCached
  <2>3. \A s \in Slot : s # t => cache'[s] = cache[s]
    BY <1>1, <1>7 DEF postEVT_ASyncThreadCached
  <2> QED
    BY <1>1, <1>3, <1>7, <2>1, <2>2, <2>3 DEF postEVT_ASyncThreadCached
<1>8. CASE PostSkip(t)
  BY <1>1, <1>8 DEF PostSkip, NextSlot, Found
<1>9. CASE PostSync(t)
  BY <1>1, <1>9 DEF PostSync, Goto, Found, AtMatch
<1>10. CASE PostSyncReturn(t)
  BY <1>1, <1>10 DEF PostSyncReturn, NextSlot, Goto, Found
<1>11. CASE PostEnqueue(t)
  <2>1. /\ pc[t] = "post" /\ idx[t] \in Slot /\ ~opt[t].sync /\ AtMatch(t)
        /\ res' = [res EXCEPT ![t] = "SUCCESS"]
        /\ pc' = [pc EXCEPT ![t] = "signal",
                           ![idx[t]] = IF @ = "none" THEN "top" ELSE @]
        /\ UNCHANGED <<inited, curSuberNum, cbProc, evtIDs, cache, target, evt, opt, ret, idx>>
    BY <1>11 DEF PostEnqueue, AtMatch
  <2>2. CASE idx[t] = t
    BY <1>1, <2>1, <2>2 DEF Found
  <2>3. CASE idx[t] # t
    BY <1>1, <2>1, <2>3 DEF Found
  <2> QED
    BY <2>2, <2>3
<1>12. CASE PostSignal(t)
  BY <1>1, <1>12 DEF PostSignal, SignalAndGoto, NextSlot, Found, FrameInv
<1>13. ~PostCreateFails(t)
  BY <1>1 DEF PostCreateFails
<1>14. CASE PostFullNonBlock(t)
  BY <1>1, <1>14 DEF PostFullNonBlock, NextSlot, AtFullQueue, Found, AtMatch
<1>15. ~PostFullTimeout(t)
  BY <1>18 DEF PostFullTimeout, AtFullQueue, AtMatch
<1>16. CASE PostFullRetry(t)
  BY <1>1, <1>16 DEF PostFullRetry, SignalAndGoto, AtFullQueue, AtMatch, Found
<1>17. CASE PostDone(t)
  <2>1. pc[t] = "post" /\ PostReturn(t, IF res[t] = None THEN "NO_EVT_SUBER" ELSE res[t])
    BY <1>17 DEF PostDone
  <2>2. \A s \in Slot : s # t => cache'[s] = cache[s]
    BY <1>1, <1>17 DEF PostDone
  <2> QED
    BY <1>1, <1>3, <1>17, <2>1, <2>2 DEF PostDone
<1> QED
  BY <1>2, <1>4, <1>5, <1>6, <1>7, <1>8, <1>9, <1>10, <1>11, <1>12, <1>13, <1>14,
     <1>15, <1>16, <1>17 DEF postEVT, PostScan

(* An async thread touches no place but its own, and starts a post only with an     *)
(* event it has cached.                                                             *)
LEMMA AsyncMoves ==
    ASSUME PcType, FrameType, NEW s \in Slot, ASyncEventThread(s)
    PROVE  /\ UNCHANGED <<inited, curSuberNum, cbProc, evtIDs, cache, idx, res, target>>
           /\ \A u \in Thread : u # s =>
                 pc'[u] = pc[u] /\ evt'[u] = evt[u] /\ opt'[u] = opt[u] /\ ret'[u] = ret[u]
           /\ pc[s] \in {"top", "wait", "cb", "drain"}
           /\ \/ /\ pc'[s] \in {"exited", "wait", "top", "cb", "drain"}
                 /\ UNCHANGED <<evt, opt, ret>>
              \/ /\ pc[s] = "drain" /\ pc'[s] = "lock" /\ cache[s] # <<>>
                 /\ opt'[s] = OptNonBlock
<1>1. /\ pc \in [Thread -> ClientPc \cup AsyncPc]
      /\ evt \in [Thread -> Msg \cup {None}]
      /\ opt \in [Thread -> {None} \cup AnyOption]
      /\ ret \in [Thread -> {"idle", "cb", "drain", None}]
  BY DEF PcType, FrameType
<1>2. CASE AsyncExit(s) \/ AsyncWait(s) \/ AsyncSpuriousWakeup(s)
  BY <1>1, <1>2 DEF AsyncExit, AsyncWait, AsyncSpuriousWakeup, Goto
<1>3. CASE AsyncTake(s) \/ AsyncCbReturn(s) \/ AsyncDrained(s)
  BY <1>1, <1>3 DEF AsyncTake, AsyncCbReturn, AsyncDrained, Goto
<1>4. CASE AsyncDrain(s)
  BY <1>1, <1>4 DEF AsyncDrain, Goto
<1> QED
  BY <1>2, <1>3, <1>4 DEF ASyncEventThread

-------------------------------------------------------------------------------------
(* The invariant.                                                                   *)

(* Nothing has gone wrong with an allocation.                                       *)
LEMMA NothingFailed ==
    ASSUME LinkInv, PlaceInv
    PROVE  faults = 0 /\ ~HasAborted
<1>1. faults = 0
  BY TestAssumption DEF LinkInv, EnvType
<1>2. 1 \in Slot
  BY ConlesAssumption
<1> QED
  BY <1>1, <1>2 DEF HasAborted, PlaceInv

(* While the subscriber is not unsubscribing, there are as many occupied slots as   *)
(* live subscriptions.                                                              *)
LEMMA LiveCounted ==
    ASSUME LinkInv, StepInv, SlotsInv, step[suber] # Len(Program(suber)) + 1,
           pc[suber] \notin InUnsub
    PROVE  Cardinality(Occupied) = Cardinality(live)
<1> DEFINE p == Program(suber)
           f == [s \in Occupied |-> CHOOSE j \in live : Subscribed(s, j)]
<1>1. /\ suber \in Client /\ step[suber] \in Nat /\ step[suber] <= Len(p) + 1
      /\ live = LiveAt(p, step[suber])
  BY SuberIsClient DEF StepInv, live
<1>2. \A s \in Occupied : f[s] \in live /\ Subscribed(s, f[s])
  BY DEF SlotsInv, Occupied
<1>3. f \in [Occupied -> live]
  BY <1>2
<1>4. ASSUME NEW r \in Occupied, NEW s \in Occupied, f[r] = f[s] PROVE r = s
  BY <1>2, <1>4 DEF Subscribed, SlotsInv, Occupied
<1>5. ASSUME NEW j \in live PROVE \E s \in Occupied : f[s] = j
  <2>1. PICK s \in Slot : Subscribed(s, j)
    BY <1>5 DEF SlotsInv
  <2>2. s \in Occupied
    BY <2>1 DEF Subscribed, Occupied
  <2>3. p[f[s]].key = p[j].key /\ f[s] \in LiveAt(p, step[suber]) /\ j \in LiveAt(p, step[suber])
    BY <1>1, <1>2, <2>1, <2>2 DEF Subscribed
  <2>4. f[s] = j
    BY <1>1, <2>3, LiveDistinct DEF StepInv
  <2> QED
    BY <2>2, <2>4
<1>6. f \in Bijection(Occupied, live)
  BY <1>3, <1>4, <1>5 DEF Bijection, Injection, Surjection, IsInjective
<1> QED
  BY <1>6, OccupiedFinite, ConlesAssumption, FS_Bijection DEF ExistsBijection

(* A thread that subscribes or unsubscribes is the subscriber, and not at its end.  *)
LEMMA SuberAt ==
    ASSUME StepInv, NEW t \in Client, At(t, "sub") \/ At(t, "unsub")
    PROVE  /\ t = suber
           /\ step[t] # Len(Program(t)) + 1 /\ step[t] \in Nat \ {0}
           /\ live = LiveAt(Program(t), step[t])
<1>1. /\ step[t] \in DOMAIN Program(t) /\ case \in Cases
      /\ Program(t)[step[t]].do \in {"sub", "unsub"}
  BY DEF At, Instr, StepInv
<1>2. DOMAIN Program(t) = 1 .. Len(Program(t)) /\ Len(Program(t)) \in Nat
  BY <1>1, ProgramShape
<1> QED
  BY <1>1, <1>2, InTurn DEF live

(* subEVT grants what the test wants granted, and refuses what it wants refused.    *)
LEMMA SubAnswers ==
    ASSUME LinkInv, StepInv, PlaceInv, SlotsInv, NEW t \in Client, pc[t] = "sub",
           PLT_IOC_subEVT(t)
    PROVE  /\ Missed(t, Instr(t).want) = {}
           /\ IF Asks(Instr(t)) THEN SubInstall(t) ELSE SubReject(t)
<1>1. At(t, "sub") /\ subEVT(t) /\ Instr(t).do = "sub"
  BY DEF PLT_IOC_subEVT, At
<1>2. t = suber /\ step[t] # Len(Program(t)) + 1 /\ live = LiveAt(Program(t), step[t])
  BY <1>1, SuberAt
<1>3. \A c \in Client : pc[c] \notin InUnsub
  BY DEF LinkInv, CtxMutexHeld
<1>4. curSuberNum = Cardinality(Occupied)
  BY <1>3, NothingFailed DEF LinkInv, CountInv, ClearsAll
<1>5. curSuberNum = Cardinality(live)
  BY <1>2, <1>4, LiveCounted
<1>6. SubReject(t) \/ SubNoFreeSlot(t) \/ SubInstall(t)
  BY <1>1, SubMoves DEF LinkInv
<1>7. step[t] \in DOMAIN Program(t) /\ Instr(t) = Program(t)[step[t]] /\ case \in Cases
  BY <1>1 DEF At, Instr, StepInv
<1>8. CASE Asks(Instr(t))
  <2>1. curSuberNum < MaxSuberNum
    BY <1>2, <1>5, <1>7, <1>8, <1>1, InTurn
  <2>2. \E s \in Slot : IsFree(s)
    <3>1. Occupied # Slot
      BY <1>4, <2>1, OccupiedFinite, ConlesAssumption
    <3> QED
      BY <3>1 DEF Occupied
  <2>3. SubInstall(t)
    BY <1>6, <2>1, <2>2, ConlesAssumption DEF SubReject, SubNoFreeSlot, LinkInv, CtxType
  <2>4. ResultOf(t) = "SUCCESS"
    BY <2>1, <2>2 DEF ResultOf
  <2> QED
    BY <1>8, <2>3, <2>4 DEF Missed, Asks, Ok
<1>9. CASE ~Asks(Instr(t))
  <2>1. curSuberNum = MaxSuberNum /\ Instr(t).want = {"NOT_ENOUGH_RESOURCE"}
    BY <1>1, <1>2, <1>5, <1>7, <1>9, InTurn
  <2>2. ~(curSuberNum < MaxSuberNum)
    BY <2>1, ConlesAssumption
  <2>3. SubReject(t)
    BY <1>6, <2>2 DEF SubNoFreeSlot, SubInstall
  <2>4. ResultOf(t) = "NOT_ENOUGH_RESOURCE"
    BY <2>2 DEF ResultOf
  <2> QED
    BY <1>9, <2>1, <2>3, <2>4 DEF Missed
<1> QED
  BY <1>8, <1>9

(* A test unsubscribes only when it has subscribed, so unsubEVT finds the table and *)
(* returns SUCCESS.                                                                 *)
LEMMA UnsubAnswers ==
    ASSUME StepInv, SlotsInv, NEW t \in Client, At(t, "unsub"),
           pc[t] \in InUnsub
    PROVE  inited /\ Missed(t, Instr(t).want) = {}
<1>1. t = suber /\ step[t] # Len(Program(t)) + 1
  BY SuberAt
<1>2. /\ step[t] \in DOMAIN Program(t) /\ Instr(t) = Program(t)[step[t]] /\ case \in Cases
      /\ Instr(t).do = "unsub"
  BY DEF At, Instr, StepInv
<1>3. Instr(t).want = Ok /\ \E j \in 1 .. step[t] - 1 : Asks(Program(t)[j])
  BY <1>2, InTurn
<1>4. inited
  BY <1>1, <1>3 DEF SlotsInv
<1>5. ResultOf(t) = "SUCCESS"
  BY <1>4 DEF ResultOf
<1> QED
  BY <1>3, <1>4, <1>5 DEF Missed, Ok

(* While t is in a call, main is where the call can be made.                        *)
LEMMA MainMeanwhile ==
    ASSUME StepInv, ThreadsInv, NEW t \in Client, step[t] \in DOMAIN Program(t)
    PROVE  /\ step[main] \in DOMAIN Program(main)
           /\ IF t = main THEN step[main] = step[t]
              ELSE RunsAt(Program(main), t, step[main])
<1>1. CASE t = main
  BY <1>1
<1>2. CASE t # main
  <2>1. main \in Client
    BY TestAssumption
  <2>2. RunsAt(Program(main), t, step[main])
    BY <1>2 DEF ThreadsInv
  <2>3. /\ Len(Program(main)) \in Nat
        /\ DOMAIN Program(main) = 1 .. Len(Program(main))
        /\ step[main] \in Nat /\ step[main] <= Len(Program(main)) + 1
    BY <2>1, ProgramShape DEF StepInv
  <2>4. step[main] # Len(Program(main)) + 1
    BY <2>2, Led DEF StepInv
  <2>5. 1 .. step[main] - 1 # {}
    BY <2>2 DEF RunsAt
  <2> QED
    BY <1>2, <2>2, <2>3, <2>4, <2>5
<1> QED
  BY <1>1, <1>2

(* A postEVT returns what its test wants, and in State_Case02 it may be too early.  *)
LEMMA PostAnswers ==
    ASSUME LinkInv, StepInv, PlaceInv, ThreadsInv, SlotsInv, ResultInv,
           NEW t \in Client, At(t, "post"), pc[t] # "idle",
           PostNoTable(t) \/ PostLockTimeout(t) \/ PostDone(t)
    PROVE  Missed(t, Instr(t).want) \subseteq
               IF case = "State_Case02" /\ t # main THEN {"NOT_FOUND"} ELSE {}
<1> DEFINE p == Program(main)
           n == step[main]
           call == Instr(t)
<1>1. /\ step[t] \in DOMAIN Program(t) /\ call = Program(t)[step[t]] /\ case \in Cases
      /\ call.do = "post" /\ EvtOf[evt[t]] = call.evt /\ opt[t] = call.opt
  BY DEF At, Instr, StepInv, PlaceInv
<1>2. n \in DOMAIN p /\ IF t = main THEN n = step[t] ELSE RunsAt(p, t, n)
  BY <1>1, MainMeanwhile
<1>3. /\ opt[t].wait # "block" => "TIMEOUT" \in call.want
      /\ case = "State_Case02" => t # main /\ {"SUCCESS", "NO_EVT_SUBER"} \subseteq call.want
      /\ case # "State_Case02" =>
            /\ \/ "NO_EVT_SUBER" \in call.want
               \/ \E j \in LiveAt(p, n) : call.evt \in p[j].ids /\ ~Drops(p[n], p[j].key)
            /\ \/ "SUCCESS" \in call.want
               \/ t = main /\ \A j \in LiveAt(p, n) : call.evt \notin p[j].ids
            /\ \E j \in 1 .. n - 1 : Asks(p[j])
  BY <1>1, <1>2, Wanted
<1>4. case # "State_Case02" =>
         suber = main /\ live = LiveAt(p, n) /\ step[suber] # Len(p) + 1 /\ Instr(suber) = p[n]
  <2>1. n # Len(p) + 1
    BY <1>1, <1>2, TestAssumption, ProgramShape
  <2> QED
    BY <2>1 DEF suber, Subscriber, live, Instr
<1>5. CASE PostNoTable(t)
  <2>1. ResultOf(t) = "NOT_FOUND" /\ ~inited
    BY <1>5 DEF ResultOf, PostNoTable
  <2>2. case = "State_Case02"
    BY <1>3, <1>4, <2>1 DEF SlotsInv
  <2> QED
    BY <1>3, <2>1, <2>2 DEF Missed
<1>6. CASE PostLockTimeout(t)
  <2>1. ResultOf(t) = "TIMEOUT" /\ opt[t].wait # "block"
    BY <1>6 DEF ResultOf, PostLockTimeout
  <2> QED
    BY <1>3, <2>1 DEF Missed
<1>7. CASE PostDone(t)
  <2>1. pc[t] = "post" /\ idx[t] > MaxSuberNum /\ t \in Thread
    BY <1>7 DEF PostDone
  <2>2. ResultOf(t) = IF res[t] = None THEN "NO_EVT_SUBER" ELSE res[t]
    BY <2>1 DEF ResultOf
  <2>3. CASE res[t] = None
    <3>1. SUFFICES ASSUME "NO_EVT_SUBER" \notin call.want PROVE FALSE
      BY <2>2, <2>3 DEF Missed
    <3>2. PICK j \in live : call.evt \in Program(suber)[j].ids
                               /\ ~Drops(Instr(suber), Program(suber)[j].key)
      BY <1>3, <1>4, <3>1
    <3>3. PICK s \in Slot : Subscribed(s, j)
      BY <1>3, <1>4, <3>1, <3>2 DEF SlotsInv
    <3>4. s < idx[t]
      BY <2>1, ConlesAssumption DEF LinkInv, FrameType
    <3>5. ~IsMatch(s, evt[t])
      BY <2>1, <2>3, <3>4 DEF LinkInv, NoSuberIsTrue
    <3>6. evtIDs[s] # None
      BY <3>3, NothingFailed DEF LinkInv, CountInv, Subscribed
    <3> QED
      BY <1>1, <3>2, <3>3, <3>5, <3>6 DEF IsMatch, Subscribed, IsFree
  <2>4. CASE res[t] = "TIMEOUT"
    BY <1>3, <2>2, <2>4, ConlesAssumption DEF ResultInv, Missed
  <2>5. CASE res[t] = "SUCCESS"
    <3>1. SUFFICES ASSUME "SUCCESS" \notin call.want PROVE FALSE
      BY <2>2, <2>5, ConlesAssumption DEF Missed
    <3>2. t = suber /\ \A j \in live : call.evt \notin Program(suber)[j].ids
      BY <1>3, <1>4, <3>1
    <3> QED
      BY <2>1, <2>5, <3>2, ConlesAssumption DEF ResultInv
  <2> QED
    BY <2>3, <2>4, <2>5 DEF LinkInv, FrameType, Results
<1> QED
  BY <1>5, <1>6, <1>7

(* A client's postEVT returns from the lock or at the end of the scan.              *)
LEMMA PostReturns ==
    ASSUME LinkInv, ModeInv, NEW t \in Client, postEVT(t), pc'[t] = "idle"
    PROVE  pc[t] # "idle" /\ (PostNoTable(t) \/ PostLockTimeout(t) \/ PostDone(t))
<1>1. t \notin Slot /\ pc[t] \in {"lock", "post"} /\ pc \in [Thread -> ClientPc \cup AsyncPc]
  BY ConlesAssumption, PostMoves DEF LinkInv, PcType
<1>2. ~(\E m \in Msg, o \in Options : PostCall(t, m, o)) /\ ~PostLock(t)
  BY <1>1 DEF PostCall, PostLock, Goto
<1>3. ~postEVT_ASyncThreadCached(t)
  BY <1>1 DEF postEVT_ASyncThreadCached
<1>4. ~PostSkip(t) /\ ~PostSync(t) /\ ~PostSyncReturn(t) /\ ~PostFullNonBlock(t)
  BY <1>1 DEF PostSkip, PostSync, PostSyncReturn, PostFullNonBlock, Goto, AtFullQueue, AtMatch
<1>5. ~PostEnqueue(t) /\ ~PostFullRetry(t) /\ ~PostSignal(t)
  BY <1>1 DEF PostEnqueue, PostFullRetry, PostSignal, SignalAndGoto, AtFullQueue, AtMatch,
     LinkInv, FrameInv
<1>6. ~PostCreateFails(t) /\ ~PostFullTimeout(t)
  BY <1>1 DEF PostCreateFails, PostFullTimeout, Abort
<1> QED
  BY <1>1, <1>2, <1>3, <1>4, <1>5, <1>6 DEF postEVT, PostScan

(* A call that returns is followed by the next instruction, and fails only where    *)
(* State_Case02 posts too early.                                                    *)
LEMMA CallGoesOn ==
    ASSUME LinkInv, StepInv, PlaceInv, ThreadsInv, SlotsInv, ResultInv, ModeInv,
           NEW t \in Client, Call(t)
    PROVE  /\ step[t] \in DOMAIN Program(t) /\ Instr(t).do \in {"sub", "unsub", "post"}
           /\ IF pc'[t] = "idle" THEN step' = [step EXCEPT ![t] = @ + 1] ELSE step' = step
           /\ failed' \subseteq failed \cup (IF case = "State_Case02" THEN {"NOT_FOUND"}
                                                                      ELSE {})
<1>1. step[t] \in DOMAIN Program(t) /\ Instr(t).do \in {"sub", "unsub", "post"}
  BY DEF Call, PLT_IOC_subEVT, PLT_IOC_unsubEVT, PLT_IOC_postEVT, At
<1>2. CASE pc'[t] # "idle"
  BY <1>1, <1>2 DEF Call
<1>3. CASE pc'[t] = "idle"
  <2>1. Checked(t, Missed(t, Instr(t).want))
    BY <1>3 DEF Call
  <2>2. SUFFICES Missed(t, Instr(t).want) \subseteq
                     IF case = "State_Case02" /\ t # main THEN {"NOT_FOUND"} ELSE {}
    BY <1>1, <1>3, <2>1 DEF Checked, GoOn
  <2>3. CASE PLT_IOC_subEVT(t)
    <3>1. pc[t] = "sub"
      BY <1>3, <2>3, SubMoves DEF PLT_IOC_subEVT, LinkInv
    <3> QED
      BY <2>3, <3>1, SubAnswers
  <2>4. CASE PLT_IOC_unsubEVT(t)
    <3>1. pc[t] \in InUnsub
      BY <1>3, <2>4, UnsubMoves, ConlesAssumption DEF PLT_IOC_unsubEVT, LinkInv
    <3> QED
      BY <2>4, <3>1, UnsubAnswers DEF PLT_IOC_unsubEVT
  <2>5. CASE PLT_IOC_postEVT(t)
    <3>1. At(t, "post") /\ postEVT(t)
      BY <2>5 DEF PLT_IOC_postEVT
    <3> QED
      BY <1>3, <3>1, PostReturns, PostAnswers
  <2> QED
    BY <2>3, <2>4, <2>5 DEF Call
<1> QED
  BY <1>2, <1>3

\* t goes on to its next instruction, or main leaves at a check that fails.
Passes(t) ==
    /\ step[t] \in DOMAIN Program(t) /\ pc'[t] = "idle"
    /\ Instr(t).do # "start"
    /\ Instr(t).do \in {"sub", "unsub"} => Call(t)
    /\ Instr(t).do = "join" => \A u \in Instr(t).threads : HasEnded(u)
    /\ step' = [step EXCEPT ![t] = @ + 1]
Leaves ==
    /\ step[main] \in DOMAIN Program(main) /\ pc'[main] = "idle"
    /\ Instr(main).do \in {"check", "checkAll", "checkMagic"}
    /\ step' = [step EXCEPT ![main] = Len(Program(main)) + 1]

(* An instruction that is no call leaves the place in the link alone.               *)
LEMMA NoCall ==
    ASSUME PlaceInv, NEW t \in Client, step[t] \in DOMAIN Program(t),
           Instr(t).do \notin {"sub", "unsub", "post"}
    PROVE  pc[t] = "idle"
BY DEF PlaceInv

(* How the threads of a test go on.                                                 *)
LEMMA StepMoves ==
    ASSUME LinkInv, StepInv, PlaceInv, ThreadsInv, SlotsInv, ResultInv, ModeInv, TestNext
    PROVE  /\ case' = case
           /\ \/ step' = step
              \/ \E t \in Client : Passes(t)
              \/ Leaves
              \/ Start(main)
           /\ asleep' => At(main, "condWait")'
<1>1. /\ step \in [Client -> Nat] /\ main \in Client
      /\ asleep => At(main, "condWait") /\ pc[main] = "idle"
  BY TestAssumption, NoCall DEF StepInv, PlaceInv, At
<1>2. ASSUME NEW t \in Client, Call(t)
      PROVE  /\ case' = case
             /\ step' = step \/ Passes(t)
             /\ asleep' => At(main, "condWait")'
  <2>1. step[t] \in DOMAIN Program(t) /\ Instr(t).do \in {"sub", "unsub", "post"}
        /\ IF pc'[t] = "idle" THEN step' = [step EXCEPT ![t] = @ + 1] ELSE step' = step
    BY <1>2, CallGoesOn
  <2>2. case' = case /\ asleep' = asleep
    BY <1>2 DEF Call
  <2>3. asleep => t # main
    BY <1>1, <2>1 DEF At
  <2>4. pc'[t] = "idle" => Passes(t)
    BY <1>2, <2>1 DEF Passes
  <2>5. asleep' => step'[main] = step[main]
    BY <1>1, <2>1, <2>2, <2>3
  <2> QED
    BY <1>1, <2>1, <2>2, <2>4, <2>5 DEF At, Instr, Program
<1>3. ASSUME NEW t \in Client, Start(t)
      PROVE  case' = case /\ Start(main) /\ ~asleep'
  <2>1. t = main
    BY <1>3, Led DEF Start, At, Instr, StepInv
  <2> QED
    BY <1>1, <1>3, <2>1 DEF Start, At
<1>4. ASSUME NEW t \in Client, Join(t) \/ Settle(t)
      PROVE  case' = case /\ Passes(t) /\ ~asleep'
  <2>1. /\ step[t] \in DOMAIN Program(t) /\ Instr(t).do \in {"join", "settle"}
        /\ GoOn(t) /\ UNCHANGED <<vars, case, asleep>>
    BY <1>4 DEF Join, Settle, At
  <2>2. t = main
    BY <2>1, Led DEF Instr, StepInv
  <2>3. Instr(t).do = "join" => \A u \in Instr(t).threads : HasEnded(u)
    BY <1>4 DEF Join, Settle, At
  <2> QED
    BY <1>1, <2>1, <2>2, <2>3, NoCall DEF Passes, GoOn, At
<1>5. ASSUME NEW t \in Client, CondWait(t)
      PROVE  case' = case /\ step' = step /\ At(main, "condWait")'
  <2>1. t = main
    BY <1>5, Led DEF CondWait, At, Instr, StepInv
  <2> QED
    BY <1>5, <2>1 DEF CondWait, At, Instr, Program
<1>6. ASSUME NEW t \in Client, Check(t)
      PROVE  case' = case /\ (Passes(t) \/ Leaves) /\ ~asleep'
  <2>1. /\ step[t] \in DOMAIN Program(t)
        /\ Instr(t).do \in {"check", "checkAll", "checkMagic"}
        /\ UNCHANGED <<vars, case, asleep>>
    BY <1>6 DEF Check, At
  <2>2. t = main
    BY <2>1, Led DEF Instr, StepInv
  <2>3. GoOn(t) \/ step' = [step EXCEPT ![t] = Len(Program(t)) + 1]
    BY <1>6 DEF Check, Checked
  <2> QED
    BY <1>1, <2>1, <2>2, <2>3, NoCall DEF Passes, Leaves, GoOn, At
<1>7. ASSUME NEW s \in Slot, CallbackEnters(s)
      PROVE  case' = case /\ (step' = step \/ Passes(main)) /\ ~asleep'
  <2>1. /\ AsyncTake(s) /\ UNCHANGED case /\ asleep' = FALSE
        /\ step' = [step EXCEPT ![main] = IF asleep THEN @ + 1 ELSE @]
    BY <1>7 DEF CallbackEnters
  <2>2. s # main /\ pc' = [pc EXCEPT ![s] = "cb"]
    BY <1>1, <2>1, ConlesAssumption DEF AsyncTake, Goto
  <2> QED
    BY <1>1, <2>1, <2>2 DEF Passes, At, LinkInv, PcType
<1>8. ASSUME NEW s \in Slot, TestSlot(s), ~CallbackEnters(s)
      PROVE  case' = case /\ step' = step /\ (asleep' => At(main, "condWait")')
  <2>1. UNCHANGED <<case, step, asleep>>
    BY <1>8 DEF TestSlot, CallbackReplies, CallbackPosts
  <2> QED
    BY <1>1, <2>1 DEF At, Instr, Program
<1> QED
  BY <1>1, <1>2, <1>3, <1>4, <1>5, <1>6, <1>7, <1>8 DEF TestNext, TestThread

(* main starts threads that have not been started, and which are in no call.        *)
LEMMA StartsNew ==
    ASSUME StepInv, PlaceInv, ThreadsInv, Start(main),
           NEW u \in Instr(main).threads, u \in Client
    PROVE  u # main /\ step[u] = 0 /\ pc[u] = "idle"
<1>1. /\ step[main] \in DOMAIN Program(main) /\ Instr(main).do = "start"
      /\ case \in Cases /\ Instr(main) = Program(main)[step[main]] /\ main \in Client
      /\ Len(Program(main)) \in Nat /\ DOMAIN Program(main) = 1 .. Len(Program(main))
  BY TestAssumption, ProgramShape DEF Start, At, Instr, StepInv
<1>2. u # main
  BY <1>1, Led
<1>3. step[u] = 0
  <2>1. SUFFICES ASSUME step[u] # 0 PROVE FALSE
    OBVIOUS
  <2>2. PICK i \in 1 .. step[main] - 1 :
            Program(main)[i].do = "start" /\ u \in Program(main)[i].threads
    BY <1>2, <2>1 DEF ThreadsInv
  <2>3. i \in DOMAIN Program(main) /\ i # step[main]
    BY <1>1
  <2> QED
    BY <1>1, <2>2, <2>3, Led
<1>4. 0 \notin DOMAIN Program(u)
  BY <1>1, ProgramShape
<1> QED
  BY <1>2, <1>3, <1>4 DEF PlaceInv

(* A thread that goes on is in no call afterwards.                                  *)
LEMMA IdleWhenPassing ==
    ASSUME LinkInv, StepInv, PlaceInv, ThreadsInv, SlotsInv, ResultInv, ModeInv, TestNext,
           NEW u \in Client, step'[u] # step[u]
    PROVE  pc'[u] = "idle"
<1>1. step \in [Client -> Nat] /\ main \in Client
  BY TestAssumption DEF StepInv
<1>2. CASE \E t \in Client : Passes(t)
  BY <1>1, <1>2 DEF Passes
<1>3. CASE Leaves
  BY <1>1, <1>3 DEF Leaves
<1>4. CASE Start(main)
  <2>1. UNCHANGED pc
    BY <1>4 DEF Start
  <2>2. CASE u \in Instr(main).threads
    BY <1>4, <2>1, <2>2, StartsNew
  <2>3. CASE u \notin Instr(main).threads
    <3>1. u = main
      BY <1>1, <1>4, <2>3 DEF Start
    <3> QED
      BY <1>4, <2>1, <3>1, NoCall DEF Start, At
  <2> QED
    BY <2>2, <2>3
<1> QED
  BY <1>2, <1>3, <1>4, StepMoves

(* The threads stay in their programs.                                              *)
LEMMA StepNext ==
    ASSUME LinkInv, StepInv, PlaceInv, ThreadsInv, SlotsInv, ResultInv, ModeInv, TestNext
    PROVE  StepInv'
<1>1. /\ step \in [Client -> Nat] /\ main \in Client /\ case' = case /\ case \in Cases
      /\ \A t \in Client : /\ Program(t)' = Program(t) /\ step[t] <= Len(Program(t)) + 1
                           /\ Len(Program(t)) \in Nat
                           /\ DOMAIN Program(t) = 1 .. Len(Program(t))
  BY TestAssumption, StepMoves, ProgramShape DEF StepInv, Program
<1>2. SUFFICES step' \in [Client -> Nat] /\ \A t \in Client : step'[t] <= Len(Program(t)) + 1
  BY <1>1 DEF StepInv
<1>3. CASE step' = step
  BY <1>1, <1>3
<1>4. CASE \E t \in Client : Passes(t)
  BY <1>1, <1>4 DEF Passes
<1>5. CASE Leaves
  BY <1>1, <1>5 DEF Leaves
<1>6. CASE Start(main)
  <2>1. /\ step' = [u \in Client |-> IF u \in Instr(main).threads THEN 1
                                     ELSE IF u = main THEN step[main] + 1 ELSE step[u]]
        /\ step[main] \in DOMAIN Program(main)
    BY <1>6 DEF Start, At
  <2> QED
    BY <1>1, <2>1
<1> QED
  BY <1>3, <1>4, <1>5, <1>6, StepMoves

(* A thread but main runs only between its start and its join.                      *)
LEMMA ThreadsNext ==
    ASSUME LinkInv, StepInv, PlaceInv, ThreadsInv, SlotsInv, ResultInv, ModeInv, TestNext
    PROVE  ThreadsInv'
<1> DEFINE p == Program(main)
           n == step[main]
<1>1. /\ step \in [Client -> Nat] /\ main \in Client /\ case' = case /\ case \in Cases
      /\ \A t \in Client : /\ Program(t)' = Program(t) /\ step[t] <= Len(Program(t)) + 1
                           /\ Len(Program(t)) \in Nat
                           /\ DOMAIN Program(t) = 1 .. Len(Program(t))
  BY TestAssumption, StepMoves, ProgramShape DEF StepInv, Program
<1>2. SUFFICES ASSUME NEW u \in Client \ {main}
               PROVE  /\ step'[u] # 0 => \E i \in 1 .. step'[main] - 1 :
                            p[i].do = "start" /\ u \in p[i].threads
                      /\ step'[u] \in DOMAIN Program(u) => RunsAt(p, u, step'[main])
  BY <1>1 DEF ThreadsInv
<1>3. /\ step[u] # 0 => \E i \in 1 .. n - 1 : p[i].do = "start" /\ u \in p[i].threads
      /\ step[u] \in DOMAIN Program(u) => RunsAt(p, u, n)
  BY DEF ThreadsInv
<1>4. CASE step' = step
  BY <1>3, <1>4
<1>5. CASE Passes(main)
  <2>1. n \in DOMAIN p /\ n \in Nat \ {0} /\ step'[main] = n + 1 /\ step'[u] = step[u]
    BY <1>1, <1>5 DEF Passes
  <2>2. p[n].do = "join" /\ u \in p[n].threads => step[u] \notin DOMAIN Program(u)
    BY <1>1, <1>5 DEF Passes, HasEnded, Instr
  <2>3. 1 .. n - 1 \subseteq 1 .. (n + 1) - 1
    BY <2>1
  <2> QED
    BY <1>3, <2>1, <2>2, <2>3, RunsNext
<1>6. ASSUME NEW t \in Client \ {main}, Passes(t) PROVE step'[main] = n /\ step[t] # 0
         /\ \/ t # u /\ step'[u] = step[u]
            \/ t = u /\ step[u] \in DOMAIN Program(u)
  BY <1>1, <1>6 DEF Passes
<1>7. CASE Leaves
  <2>1. /\ n \in DOMAIN p /\ step'[main] = Len(p) + 1 /\ step'[u] = step[u]
        /\ p[n].do \in {"check", "checkAll", "checkMagic"}
    BY <1>1, <1>7 DEF Leaves, Instr
  <2>2. step[u] \notin DOMAIN Program(u)
    BY <1>1, <1>3, <2>1, Led
  <2>3. 1 .. n - 1 \subseteq 1 .. (Len(p) + 1) - 1
    BY <1>1, <2>1
  <2> QED
    BY <1>3, <2>1, <2>2, <2>3
<1>8. CASE Start(main)
  <2>1. /\ step' = [v \in Client |-> IF v \in Instr(main).threads THEN 1
                                     ELSE IF v = main THEN n + 1 ELSE step[v]]
        /\ n \in DOMAIN p /\ p[n].do = "start" /\ Instr(main) = p[n]
    BY <1>8 DEF Start, At, Instr
  <2>2. main \notin Instr(main).threads
    BY <1>1, <2>1, Led
  <2>3. step'[main] = n + 1 /\ n \in Nat \ {0} /\ n \in 1 .. (n + 1) - 1
        /\ 1 .. n - 1 \subseteq 1 .. (n + 1) - 1
    BY <1>1, <2>1, <2>2
  <2>4. CASE u \in p[n].threads
    BY <2>1, <2>3, <2>4, RunsNext
  <2>5. CASE u \notin p[n].threads
    <3>1. step'[u] = step[u]
      BY <2>1, <2>5
    <3> QED
      BY <1>3, <2>1, <2>3, <3>1, RunsNext
  <2> QED
    BY <2>4, <2>5
<1>9. CASE \E t \in Client \ {main} : Passes(t)
  <2>1. PICK t \in Client \ {main} : Passes(t)
    BY <1>9
  <2>2. step'[main] = n
    BY <1>6, <2>1
  <2>3. step'[u] = step[u] \/ (step[u] \in DOMAIN Program(u) /\ step[u] # 0)
    BY <1>6, <2>1
  <2> QED
    BY <1>3, <2>2, <2>3
<1> QED
  BY <1>4, <1>5, <1>7, <1>8, <1>9, StepMoves

(* No callback owes a reply in a test whose callbacks do not reply.                 *)
LEMMA NoReplies ==
    ASSUME case # "Typical_Case02", NEW s \in Slot
    PROVE  ~OwesReply(s)
<1>1. {i \in DOMAIN handled[s] : ReplyTo(cbProc[s], EvtOf[handled[s][i]]) # None} = {}
  BY DEF ReplyTo
<1>2. RepliesDue(s) = 0
  BY <1>1, FS_EmptySet, Zenon DEF RepliesDue
<1>3. IsFiniteSet({m \in Msg \ unposted : PostedBy[m] = s})
  BY TestAssumption, FS_Subset
<1>4. Cardinality({m \in Msg \ unposted : PostedBy[m] = s}) \in Nat
  BY <1>3, FS_CardinalityType
<1> QED
  BY <1>2, <1>4 DEF OwesReply

(* What happens to the link in a step of a test: a call of a client, a post of a    *)
(* slot's thread, another step of it, or nothing.                                   *)
LEMMA LinkMoves ==
    ASSUME TestNext
    PROVE  \/ \E t \in Client : Call(t)
           \/ \E s \in Slot : \/ CallbackReplies(s)
                              \/ pc[s] # "cb" /\ postEVT(s)
                              \/ ASyncEventThread(s)
           \/ UNCHANGED vars
<1>1. ASSUME NEW t \in Client, TestThread(t), ~Call(t) PROVE UNCHANGED vars
  BY <1>1 DEF TestThread, Start, Join, Settle, CondWait, Check
<1>2. ASSUME NEW s \in Slot, TestSlot(s)
      PROVE  CallbackReplies(s) \/ (pc[s] # "cb" /\ postEVT(s)) \/ ASyncEventThread(s)
  BY <1>2 DEF TestSlot, CallbackEnters, CallbackPosts, ASyncEventThread
<1> QED
  BY <1>1, <1>2 DEF TestNext

(* A callback's reply is a post.                                                    *)
LEMMA ReplyPosts ==
    ASSUME NEW s \in Slot, CallbackReplies(s)
    PROVE  postEVT(s) /\ \E m \in Msg : PostCall(s, m, Block)
<1>1. PICK m \in Msg : PostCall(s, m, Block)
  BY DEF CallbackReplies
<1>2. Block \in Options
  BY TestAssumption DEF Block
<1> QED
  BY <1>1, <1>2 DEF postEVT

\* After a step, u is in no call, or still in that of its instruction.
InPlace(u) ==
    pc'[u] # "idle" =>
        /\ step[u] \in DOMAIN Program(u)
        /\ \/ pc'[u] = "sub" /\ Instr(u).do = "sub"
           \/ pc'[u] \in InUnsub /\ Instr(u).do = "unsub" /\ target'[u] = Instr(u).key
           \/ /\ pc'[u] \in InCall /\ Instr(u).do = "post"
              /\ EvtOf[evt'[u]] = Instr(u).evt /\ opt'[u] = Instr(u).opt

(* This is what has to be shown of a step.                                          *)
LEMMA PlaceKept ==
    ASSUME case' = case, asleep' => At(main, "condWait")',
           \A u \in Client : InPlace(u),
           \A u \in Client : pc'[u] # "idle" => step'[u] = step[u],
           \A s \in Slot : pc'[s] # "dead"
    PROVE  PlaceInv'
BY DEF PlaceInv, InPlace, Instr, Program

(* Every thread that is in a call is in that of its instruction.                    *)
LEMMA PlaceNext ==
    ASSUME LinkInv, StepInv, PlaceInv, ThreadsInv, SlotsInv, ResultInv, ModeInv, TestNext
    PROVE  PlaceInv'
<1>1. /\ case' = case
      /\ asleep' => At(main, "condWait")'
      /\ \A u \in Client : u \notin Slot /\ u \in Thread
      /\ \A s \in Slot : s \notin Client /\ s \in Thread
  BY TestAssumption, ConlesAssumption, StepMoves
<1>2. SUFFICES /\ \A u \in Client : InPlace(u)
               /\ \A s \in Slot : pc'[s] # "dead"
  <2>1. \A u \in Client : pc'[u] # "idle" => step'[u] = step[u]
    BY IdleWhenPassing
  <2> QED
    BY <1>1, <1>2, <2>1, PlaceKept
<1>3. ASSUME NEW u \in Client, pc'[u] = pc[u], evt'[u] = evt[u], opt'[u] = opt[u],
             target'[u] = target[u]
      PROVE  InPlace(u)
  BY <1>3 DEF PlaceInv, InPlace
<1>4. ASSUME NEW t \in Client, Call(t), PLT_IOC_subEVT(t)
      PROVE  /\ \A u \in Client : InPlace(u)
             /\ \A s \in Slot : pc'[s] # "dead"
  <2>1. At(t, "sub") /\ subEVT(t)
    BY <1>4 DEF PLT_IOC_subEVT
  <2>2. /\ UNCHANGED <<evt, opt, target>>
        /\ \A u \in Thread : u # t => pc'[u] = pc[u]
        /\ pc'[t] \in {"sub", "idle"}
    BY <2>1, SubMoves DEF LinkInv
  <2>3. InPlace(t)
    BY <2>1, <2>2 DEF At, InPlace
  <2> QED
    BY <1>1, <1>3, <2>2, <2>3 DEF PlaceInv
<1>5. ASSUME NEW t \in Client, Call(t), PLT_IOC_unsubEVT(t)
      PROVE  /\ \A u \in Client : InPlace(u)
             /\ \A s \in Slot : pc'[s] # "dead"
  <2>1. At(t, "unsub") /\ unsubEVT(t) /\ (pc[t] = "idle" => target'[t] = Instr(t).key)
    BY <1>5 DEF PLT_IOC_unsubEVT
  <2>2. /\ UNCHANGED <<evt, opt>>
        /\ \A u \in Client : u # t => pc'[u] = pc[u] /\ target'[u] = target[u]
        /\ \A s \in Slot : pc'[s] = pc[s] \/ pc'[s] \in {"top", "none"}
        /\ \/ pc[t] = "idle" /\ pc'[t] = "unsub"
           \/ pc[t] \in InUnsub /\ pc'[t] \in InUnsub /\ target' = target
           \/ pc'[t] = "idle"
    BY <2>1, UnsubMoves, ConlesAssumption DEF LinkInv
  <2>3. pc[t] \in InUnsub => target[t] = Instr(t).key
    BY DEF PlaceInv
  <2>4. InPlace(t)
    BY <2>1, <2>2, <2>3 DEF At, InPlace
  <2> QED
    BY <1>1, <1>3, <2>2, <2>4 DEF PlaceInv
<1>6. ASSUME NEW t \in Client, Call(t), PLT_IOC_postEVT(t)
      PROVE  /\ \A u \in Client : InPlace(u)
             /\ \A s \in Slot : pc'[s] # "dead"
  <2>1. /\ At(t, "post") /\ postEVT(t)
        /\ pc[t] = "idle" => EvtOf[evt'[t]] = Instr(t).evt /\ opt'[t] = Instr(t).opt
    BY <1>6 DEF PLT_IOC_postEVT
  <2>2. /\ UNCHANGED target
        /\ \A u \in Thread : u # t =>
              /\ evt'[u] = evt[u] /\ opt'[u] = opt[u]
              /\ pc'[u] = pc[u] \/ (u \in Slot /\ pc'[u] = "top")
        /\ \/ pc[t] = "idle" /\ pc'[t] = "lock"
           \/ pc[t] \in InCall /\ pc'[t] \in InScan /\ evt'[t] = evt[t] /\ opt'[t] = opt[t]
           \/ pc[t] \in InCall /\ pc'[t] = ret[t]
    BY <1>1, <2>1, PostMoves
  <2>3. pc[t] \in InCall => /\ EvtOf[evt[t]] = Instr(t).evt /\ opt[t] = Instr(t).opt
                            /\ ret[t] = "idle"
    BY DEF PlaceInv, LinkInv, FrameInv
  <2>4. InPlace(t)
    BY <2>1, <2>2, <2>3 DEF At, InPlace
  <2>5. \A s \in Slot : pc'[s] # "dead"
    BY <1>1, <2>2 DEF PlaceInv
  <2> QED
    BY <1>1, <1>3, <2>2, <2>4, <2>5
<1>7. ASSUME NEW s \in Slot, postEVT(s)
      PROVE  /\ \A u \in Client : InPlace(u)
             /\ \A r \in Slot : pc'[r] # "dead"
  <2>1. /\ UNCHANGED target
        /\ \A u \in Thread : u # s =>
              /\ evt'[u] = evt[u] /\ opt'[u] = opt[u]
              /\ pc'[u] = pc[u] \/ (u \in Slot /\ pc'[u] = "top")
        /\ pc'[s] \in InCall \cup {"idle", "cb", "drain"}
    BY <1>1, <1>7, PostMoves
  <2>2. \A r \in Slot : pc'[r] # "dead"
    BY <1>1, <2>1 DEF PlaceInv
  <2> QED
    BY <1>1, <1>3, <2>1, <2>2
<1>8. ASSUME NEW s \in Slot, ASyncEventThread(s)
      PROVE  /\ \A u \in Client : InPlace(u)
             /\ \A r \in Slot : pc'[r] # "dead"
  <2>1. /\ UNCHANGED target
        /\ \A u \in Thread : u # s => pc'[u] = pc[u] /\ evt'[u] = evt[u] /\ opt'[u] = opt[u]
        /\ pc'[s] \in {"exited", "wait", "top", "cb", "drain", "lock"}
    BY <1>8, AsyncMoves DEF LinkInv
  <2>2. \A r \in Slot : pc'[r] # "dead"
    BY <1>1, <2>1 DEF PlaceInv
  <2> QED
    BY <1>1, <1>3, <2>1, <2>2
<1>9. CASE UNCHANGED vars
  BY <1>3, <1>9 DEF PlaceInv
<1>10. ASSUME NEW t \in Client, Call(t)
      PROVE  /\ \A u \in Client : InPlace(u)
             /\ \A s \in Slot : pc'[s] # "dead"
  BY <1>4, <1>5, <1>6, <1>10 DEF Call
<1> QED
  BY <1>7, <1>8, <1>9, <1>10, LinkMoves, ReplyPosts

(* The options of the tests' posts.                                                 *)
LEMMA PostOptions ==
    ASSUME case \in Cases, NEW t \in Client, NEW i \in DOMAIN Program(t),
           Program(t)[i].do = "post"
    PROVE  /\ Program(t)[i].opt.wait # "timeout"
           /\ AllPosts(case, FALSE) => Program(t)[i].opt.sync = FALSE
           /\ AllPosts(case, TRUE) => Program(t)[i].opt.sync = TRUE
<1>1. PostsAsWanted(case)
  BY ProgramsAssumption
<1>2. Program(t)[i].opt.wait \in {"block", "nonblock"}
  BY <1>1 DEF PostsAsWanted, Program
<1> QED
  BY <1>2 DEF AllPosts, Program

(* Posts keep to the mode and the options of their test.                            *)
LEMMA ModeNext ==
    ASSUME LinkInv, StepInv, PlaceInv, ThreadsInv, SlotsInv, ResultInv, ModeInv, TestNext
    PROVE  ModeInv'
<1>1. /\ case' = case
      /\ case \in Cases
      /\ \A u \in Client : u \notin Slot /\ u \in Thread
      /\ \A s \in Slot : s \notin Client /\ s \in Thread
  BY ConlesAssumption, StepMoves DEF StepInv
<1>2. PlaceInv' /\ StepInv'
  BY PlaceNext, StepNext
<1>3. ASSUME NEW t \in Client, pc'[t] \in InCall
      PROVE  opt'[t].wait # "timeout" /\ (AllPosts(case, FALSE) => ~opt'[t].sync)
  <2>1. PICK i \in DOMAIN Program(t) : Program(t)[i].do = "post" /\ opt'[t] = Program(t)[i].opt
    BY <1>1, <1>2, <1>3 DEF PlaceInv, Instr, Program
  <2> QED
    BY <1>1, <2>1, PostOptions
<1>4. ASSUME NEW t \in Client, pc[t] \in InCall, ~AllPosts(case, FALSE) PROVE opt[t].sync
  <2>1. PICK i \in DOMAIN Program(t) : Program(t)[i].do = "post" /\ opt[t] = Program(t)[i].opt
    BY <1>1, <1>4 DEF PlaceInv, Instr
  <2>2. AllPosts(case, TRUE)
    BY <1>1, <1>4, ProgramsAssumption
  <2> QED
    BY <1>1, <2>1, <2>2, PostOptions
<1>5. ~AllPosts(case, FALSE) => case # "Typical_Case02" /\ \A s \in Slot : pc[s] = "none"
  BY <1>1, ProgramsAssumption DEF ModeInv
<1>6. /\ \A s \in Slot : pc[s] \in InCall =>
            opt[s].wait # "timeout" /\ (AllPosts(case, FALSE) => ~opt[s].sync)
      /\ case # "Typical_Case02" => \A s \in Slot : pc[s] \notin InCall /\ cache[s] = <<>>
  BY DEF ModeInv
<1> DEFINE Quiet == /\ ~AllPosts(case, FALSE) => \A s \in Slot : pc'[s] = "none"
                    /\ \A s \in Slot : pc'[s] \in InCall =>
                          opt'[s].wait # "timeout" /\ (AllPosts(case, FALSE) => ~opt'[s].sync)
                    /\ case # "Typical_Case02" =>
                          \A s \in Slot : pc'[s] \notin InCall /\ cache'[s] = <<>>
<1>7. SUFFICES Quiet
  BY <1>1, <1>3 DEF ModeInv
<1>8. ASSUME NEW t \in Client, Call(t), subEVT(t) PROVE Quiet
  <2>1. /\ UNCHANGED opt
        /\ \A s \in Slot : pc'[s] = pc[s] /\ (cache'[s] = cache[s] \/ cache'[s] = <<>>)
    BY <1>1, <1>8, SubMoves DEF LinkInv
  <2> QED
    BY <1>5, <1>6, <2>1
<1>9. ASSUME NEW t \in Client, Call(t), unsubEVT(t) PROVE Quiet
  <2>1. /\ UNCHANGED <<opt, cache>>
        /\ \A s \in Slot : \/ pc'[s] = pc[s]
                           \/ pc[s] \in {"wait", "exited"} /\ pc'[s] \in {"top", "none"}
    BY <1>9, UnsubMoves, ConlesAssumption DEF LinkInv
  <2> QED
    BY <1>5, <1>6, <2>1
<1>10. ASSUME NEW t \in Client, Call(t), postEVT(t) PROVE Quiet
  <2>1. \A s \in Slot :
           /\ opt'[s] = opt[s] /\ cache'[s] = cache[s]
           /\ \/ pc'[s] = pc[s]
              \/ pc[s] = "wait" /\ pc'[s] = "top"
              \/ pc[s] = "none" /\ pc'[s] = "top" /\ ~opt[t].sync /\ pc[t] = "post"
    BY <1>1, <1>10, PostMoves
  <2> QED
    BY <1>4, <1>5, <1>6, <2>1
<1>11. ASSUME NEW r \in Slot, CallbackReplies(r) PROVE Quiet
  <2>1. case = "Typical_Case02" /\ AllPosts(case, FALSE)
    BY <1>5, <1>11, NoReplies DEF CallbackReplies
  <2>2. PICK m \in Msg : PostCall(r, m, Block)
    BY <1>11, ReplyPosts
  <2>3. /\ \A s \in Slot : s # r => pc'[s] = pc[s] /\ opt'[s] = opt[s]
        /\ opt'[r] = Block
    BY <1>1, <2>2 DEF PostCall, Goto, LinkInv, PcType, FrameType
  <2>4. opt'[r].wait # "timeout" /\ ~opt'[r].sync
    BY <2>3 DEF Block
  <2>5. ASSUME NEW s \in Slot, pc'[s] \in InCall
        PROVE  opt'[s].wait # "timeout" /\ (AllPosts(case, FALSE) => ~opt'[s].sync)
    BY <1>6, <2>3, <2>4, <2>5
  <2> QED
    BY <2>1, <2>5
<1>12. ASSUME NEW r \in Slot, pc[r] # "cb", postEVT(r) PROVE Quiet
  <2>1. /\ \A s \in Slot : s # r => opt'[s] = opt[s] /\ (pc'[s] = pc[s] \/ pc'[s] = "top")
        /\ pc[r] \in InCall /\ (opt'[r] = opt[r] \/ pc'[r] \in {"idle", "cb", "drain"})
    BY <1>1, <1>12, PostMoves
  <2> QED
    BY <1>5, <1>6, <2>1
<1>13. ASSUME NEW r \in Slot, ASyncEventThread(r) PROVE Quiet
  <2>1. /\ UNCHANGED cache
        /\ \A s \in Slot : s # r => pc'[s] = pc[s] /\ opt'[s] = opt[s]
        /\ pc[r] # "none"
        /\ \/ pc'[r] \notin InCall /\ UNCHANGED opt
           \/ cache[r] # <<>> /\ opt'[r] = OptNonBlock
    BY <1>1, <1>13, AsyncMoves DEF LinkInv
  <2>2. OptNonBlock.wait # "timeout" /\ ~OptNonBlock.sync
    BY DEF OptNonBlock
  <2> QED
    BY <1>5, <1>6, <2>1, <2>2
<1>14. CASE UNCHANGED vars
  BY <1>5, <1>6, <1>14
<1>15. ASSUME NEW t \in Client, Call(t) PROVE Quiet
  BY <1>8, <1>9, <1>10, <1>15 DEF Call, PLT_IOC_subEVT, PLT_IOC_unsubEVT, PLT_IOC_postEVT
<1> QED
  BY <1>11, <1>12, <1>13, <1>14, <1>15, LinkMoves

(* What a post of the subscriber finds is live.                                     *)
LEMMA MatchIsLive ==
    ASSUME LinkInv, StepInv, PlaceInv, SlotsInv, suber \in Client, AtMatch(suber)
    PROVE  \E j \in live : Instr(suber).evt \in Program(suber)[j].ids
<1>1. /\ pc[suber] = "post" /\ idx[suber] \in Slot /\ cbProc[idx[suber]] # None
      /\ EvtOf[evt[suber]] \in evtIDs[idx[suber]]
  BY DEF AtMatch, IsMatch
<1>2. step[suber] \in DOMAIN Program(suber) /\ EvtOf[evt[suber]] = Instr(suber).evt
  BY <1>1 DEF PlaceInv
<1>3. step[suber] # Len(Program(suber)) + 1
  BY <1>2, ProgramShape DEF StepInv
<1>4. PICK j \in live : Subscribed(idx[suber], j)
  BY <1>1, <1>3 DEF SlotsInv, IsFree
<1> QED
  BY <1>1, <1>2, <1>4 DEF Subscribed

(* A post finds a TIMEOUT only if it does not block, and one of the subscriber      *)
(* finds something only where it has subscribed the event.                          *)
LEMMA ResultNext ==
    ASSUME LinkInv, StepInv, PlaceInv, ThreadsInv, SlotsInv, ResultInv, ModeInv, TestNext
    PROVE  ResultInv'
<1>1. /\ case' = case
      /\ suber \in Client
      /\ \A u \in Client : u \notin Slot /\ u \in Thread
      /\ res \in [Thread -> Results \cup {None}]
  BY ConlesAssumption, StepMoves, SuberIsClient DEF LinkInv, FrameType
<1> DEFINE Right(t) ==
       /\ pc'[t] \notin InScan => res'[t] = None
       /\ res'[t] = "TIMEOUT" => opt'[t].wait # "block"
       /\ pc'[t] \in InScan /\ t = suber /\ (res'[t] # None \/ pc'[t] = "syncCb") =>
             \E j \in live : Instr(t).evt \in Program(suber)[j].ids
<1>2. SUFFICES \A t \in Client : Right(t)
  <2>1. \A t \in Client : pc'[t] \in InScan => step'[t] = step[t]
    BY IdleWhenPassing
  <2> QED
    BY <1>1, <1>2, <2>1 DEF ResultInv, live, suber, Instr, Program
<1>3. ASSUME NEW t \in Client, pc'[t] = pc[t], res'[t] = res[t], opt'[t] = opt[t]
      PROVE  Right(t)
  BY <1>3 DEF ResultInv
<1>4. ASSUME NEW t \in Client, Call(t), subEVT(t) PROVE \A u \in Client : Right(u)
  <2>1. /\ UNCHANGED <<res, opt>> /\ pc[t] \notin InScan /\ pc'[t] \notin InScan
        /\ \A u \in Client : u # t => pc'[u] = pc[u]
    BY <1>1, <1>4, SubMoves DEF LinkInv
  <2>2. Right(t)
    BY <2>1, ConlesAssumption DEF ResultInv
  <2> QED
    BY <1>3, <2>1, <2>2
<1>5. ASSUME NEW t \in Client, Call(t), unsubEVT(t) PROVE \A u \in Client : Right(u)
  <2>1. /\ UNCHANGED <<res, opt>> /\ pc[t] \notin InScan /\ pc'[t] \notin InScan
        /\ \A u \in Client : u # t => pc'[u] = pc[u]
    BY <1>5, UnsubMoves, ConlesAssumption DEF LinkInv
  <2>2. Right(t)
    BY <2>1, ConlesAssumption DEF ResultInv
  <2> QED
    BY <1>3, <2>1, <2>2
<1>6. ASSUME NEW t \in Client, Call(t), postEVT(t) PROVE \A u \in Client : Right(u)
  <2>1. /\ \A u \in Client : u # t => pc'[u] = pc[u] /\ res'[u] = res[u] /\ opt'[u] = opt[u]
        /\ \/ pc[t] = "idle" /\ pc'[t] = "lock" /\ res'[t] = res[t]
           \/ /\ pc[t] \in InCall /\ pc'[t] \in InScan
              /\ evt'[t] = evt[t] /\ opt'[t] = opt[t] /\ Found(t)
           \/ pc[t] \in InCall /\ pc'[t] = ret[t] /\ res'[t] = None
    BY <1>1, <1>6, PostMoves
  <2>2. CASE pc[t] = "idle" /\ pc'[t] = "lock" /\ res'[t] = res[t]
    BY <1>3, <2>1, <2>2, ConlesAssumption DEF ResultInv
  <2>3. CASE pc[t] \in InCall /\ pc'[t] = ret[t] /\ res'[t] = None
    <3>1. pc'[t] = "idle"
      BY <2>3 DEF LinkInv, FrameInv
    <3> QED
      BY <1>3, <2>1, <2>3, <3>1, ConlesAssumption
  <2>4. CASE pc[t] \in InCall /\ pc'[t] \in InScan /\ opt'[t] = opt[t] /\ Found(t)
    <3>1. t = suber /\ AtMatch(t) => \E j \in live : Instr(t).evt \in Program(suber)[j].ids
      BY <1>1, MatchIsLive
    <3>2. Right(t)
      <4>1. CASE res'[t] = res[t] /\ (pc'[t] = "syncCb" => AtMatch(t))
        BY <2>4, <3>1, <4>1 DEF ResultInv
      <4>2. CASE res'[t] = "SUCCESS" /\ (pc[t] = "syncCb" \/ AtMatch(t)) /\ pc'[t] # "syncCb"
        BY <2>4, <3>1, <4>2 DEF ResultInv
      <4>3. CASE res'[t] = "TIMEOUT" /\ AtMatch(t) /\ opt[t].wait = "nonblock" /\ pc'[t] # "syncCb"
        BY <2>4, <3>1, <4>3
      <4> QED
        BY <2>4, <4>1, <4>2, <4>3 DEF Found
    <3> QED
      BY <1>3, <2>1, <3>2
  <2> QED
    BY <2>1, <2>2, <2>3, <2>4
<1>7. ASSUME NEW s \in Slot, postEVT(s) PROVE \A u \in Client : Right(u)
  <2>1. \A u \in Client : pc'[u] = pc[u] /\ res'[u] = res[u] /\ opt'[u] = opt[u]
    BY <1>1, <1>7, PostMoves
  <2> QED
    BY <1>3, <2>1
<1>8. ASSUME NEW s \in Slot, ASyncEventThread(s) PROVE \A u \in Client : Right(u)
  <2>1. \A u \in Client : pc'[u] = pc[u] /\ res'[u] = res[u] /\ opt'[u] = opt[u]
    BY <1>1, <1>8, AsyncMoves DEF LinkInv
  <2> QED
    BY <1>3, <2>1
<1>9. CASE UNCHANGED vars
  BY <1>3, <1>9
<1>10. ASSUME NEW t \in Client, Call(t) PROVE \A u \in Client : Right(u)
  BY <1>4, <1>5, <1>6, <1>10 DEF Call, PLT_IOC_subEVT, PLT_IOC_unsubEVT, PLT_IOC_postEVT
<1> QED
  BY <1>7, <1>8, <1>9, <1>10, LinkMoves, ReplyPosts

(* The slots and the subscriptions stay together in a step that touches no slot,    *)
(* in which the subscriber stays where it is or is in no unsubEVT, and in which it  *)
(* passes no subscription.                                                          *)
LEMMA SlotsKept ==
    ASSUME SlotsInv, case' = case, UNCHANGED <<inited, cbProc, evtIDs>>,
           \/ /\ pc'[suber] = pc[suber] /\ idx'[suber] = idx[suber]
              /\ target'[suber] = target[suber] /\ step'[suber] = step[suber]
           \/ /\ pc[suber] \notin InUnsub /\ pc'[suber] \notin InUnsub
              /\ \/ step'[suber] = step[suber]
                 \/ suber = main /\ step'[suber] = Len(Program(suber)) + 1
                 \/ /\ step[suber] # Len(Program(suber)) + 1
                    /\ LiveAt(Program(suber), step'[suber]) = live
                    /\ \A j \in 1 .. step'[suber] - 1 :
                          Asks(Program(suber)[j]) => j \in 1 .. step[suber] - 1
    PROVE  SlotsInv'
<1>1. /\ suber' = suber
      /\ \A s \in Slot : IsFree(s)' <=> IsFree(s)
      /\ \A s \in Slot : IsTarget(suber, s)' <=> cbProc[s] = target'[suber] \/ target'[suber] = ALL
  BY DEF suber, IsFree, IsTarget
<1>2. CASE /\ pc'[suber] = pc[suber] /\ idx'[suber] = idx[suber]
           /\ target'[suber] = target[suber] /\ step'[suber] = step[suber]
  BY <1>2 DEF SlotsInv, suber, live, Subscribed, IsFree, IsTarget, Program, Instr
<1>3. CASE pc[suber] \notin InUnsub /\ pc'[suber] \notin InUnsub
  <2>1. CASE suber = main /\ step'[suber] = Len(Program(suber)) + 1
    BY <1>3, <2>1 DEF SlotsInv, suber, IsFree, Program
  <2>2. CASE step'[suber] = step[suber]
    BY <1>3, <2>2 DEF SlotsInv, suber, live, Subscribed, IsFree, Program
  <2>3. CASE /\ step[suber] # Len(Program(suber)) + 1
             /\ LiveAt(Program(suber), step'[suber]) = live
             /\ \A j \in 1 .. step'[suber] - 1 :
                   Asks(Program(suber)[j]) => j \in 1 .. step[suber] - 1
    BY <1>3, <2>3 DEF SlotsInv, suber, live, Subscribed, IsFree, Program
  <2> QED
    BY <1>2, <1>3, <2>1, <2>2, <2>3
<1> QED
  BY <1>2, <1>3

(* The subscriber passes no subscription with an instruction that is neither.       *)
LEMMA NothingLive ==
    ASSUME LinkInv, StepInv, PlaceInv, ThreadsInv, SlotsInv, ResultInv, ModeInv, TestNext,
           \/ ~\E t \in Client : Call(t)
           \/ ~At(suber, "sub") /\ ~At(suber, "unsub")
    PROVE  \/ step'[suber] = step[suber]
           \/ suber = main /\ step'[suber] = Len(Program(suber)) + 1
           \/ /\ step[suber] # Len(Program(suber)) + 1
              /\ LiveAt(Program(suber), step'[suber]) = live
              /\ \A j \in 1 .. step'[suber] - 1 :
                    Asks(Program(suber)[j]) => j \in 1 .. step[suber] - 1
<1> DEFINE p == Program(suber)
           n == step[suber]
<1>1. /\ suber \in Client /\ main \in Client /\ step \in [Client -> Nat] /\ n \in Nat
      /\ Len(p) \in Nat /\ DOMAIN p = 1 .. Len(p) /\ live = LiveAt(p, n)
  BY TestAssumption, SuberIsClient, ProgramShape DEF StepInv, live
<1>2. ASSUME n \in DOMAIN p, p[n].do \notin {"sub", "unsub"}, step'[suber] = n + 1
      PROVE  /\ n # Len(p) + 1
             /\ LiveAt(p, step'[suber]) = live
             /\ \A j \in 1 .. step'[suber] - 1 : Asks(p[j]) => j \in 1 .. n - 1
  <2>1. ~Asks(p[n]) /\ \A j \in live : ~Drops(p[n], p[j].key)
    BY <1>2 DEF Asks, Drops
  <2>2. LiveAt(p, n + 1) = live
    BY <1>1, <2>1, LiveNext
  <2>3. \A j \in 1 .. (n + 1) - 1 : j = n \/ j \in 1 .. n - 1
    BY <1>1
  <2> QED
    BY <1>1, <1>2, <2>1, <2>2, <2>3
<1>3. CASE \E t \in Client : Passes(t)
  <2>1. PICK t \in Client : Passes(t)
    BY <1>3
  <2>2. CASE t = suber
    <3>1. n \in DOMAIN p /\ step'[suber] = n + 1
      BY <1>1, <2>1, <2>2 DEF Passes
    <3>2. p[n].do \in {"sub", "unsub"} => Call(suber)
      BY <2>1, <2>2 DEF Passes, Instr
    <3>3. p[n].do \notin {"sub", "unsub"}
      BY <1>1, <3>1, <3>2 DEF At, Instr
    <3> QED
      BY <1>2, <3>1, <3>3
  <2> QED
    BY <1>1, <2>1, <2>2 DEF Passes
<1>4. CASE Leaves
  BY <1>1, <1>4 DEF Leaves
<1>5. CASE Start(main)
  <2>1. /\ step' = [u \in Client |-> IF u \in Instr(main).threads THEN 1
                                     ELSE IF u = main THEN step[main] + 1 ELSE step[u]]
        /\ step[main] \in DOMAIN Program(main) /\ Instr(main).do = "start"
    BY <1>5 DEF Start, At
  <2>2. CASE suber \in Instr(main).threads
    <3>1. n = 0 /\ step'[suber] = 1 /\ 1 .. 1 - 1 = {}
      BY <1>1, <1>5, <2>1, <2>2, StartsNew
    <3>2. LiveAt(p, 0) = {} /\ LiveAt(p, 1) = {} /\ 0 # Len(p) + 1
      BY <1>1, LiveFirst
    <3> QED
      BY <1>1, <3>1, <3>2
  <2>3. CASE suber \notin Instr(main).threads /\ suber = main
    <3>1. n \in DOMAIN p /\ p[n].do = "start" /\ step'[suber] = n + 1
      BY <1>1, <2>1, <2>3 DEF Instr
    <3> QED
      BY <1>2, <3>1
  <2>4. CASE suber \notin Instr(main).threads /\ suber # main
    BY <1>1, <2>1, <2>4
  <2> QED
    BY <2>2, <2>3, <2>4
<1> QED
  BY <1>3, <1>4, <1>5, StepMoves

\* What SlotsInv says of the next state.
SlotsStay ==
    LET p == Program(suber)
        n == step'[suber]
    IN  /\ \A r, s \in Slot : cbProc'[r] = cbProc'[s] /\ r # s => cbProc'[s] = None
        /\ pc'[suber] \in InUnsub /\ target'[suber] # ALL =>
              \A s \in Slot : s < idx'[suber] => cbProc'[s] # target'[suber]
        /\ pc'[suber] \in {"unsubSignal", "unsubJoin"} =>
              target'[suber] = ALL \/ cbProc'[idx'[suber]] = target'[suber]
        /\ suber # main \/ n # Len(p) + 1 =>
              /\ \A s \in Slot : cbProc'[s] # None => \E j \in LiveAt(p, n) :
                    cbProc'[s] = p[j].key /\ evtIDs'[s] = p[j].ids
              /\ \A j \in LiveAt(p, n) :
                    \/ \E s \in Slot : /\ cbProc'[s] # None
                                       /\ cbProc'[s] = p[j].key /\ evtIDs'[s] = p[j].ids
                    \/ pc'[suber] \in InUnsub /\ Drops(p[n], p[j].key)
              /\ (\E j \in 1 .. n - 1 : Asks(p[j])) => inited'

LEMMA SlotsFrom ==
    ASSUME case' = case, SlotsStay
    PROVE  SlotsInv'
BY DEF SlotsStay, SlotsInv, suber, live, Subscribed, IsFree, IsTarget, Instr, Program

(* subEVT adds what it asks for.                                                    *)
LEMMA SubSlots ==
    ASSUME LinkInv, StepInv, PlaceInv, ThreadsInv, SlotsInv, ResultInv, ModeInv,
           NEW t \in Client, Call(t), PLT_IOC_subEVT(t)
    PROVE  SlotsStay
<1> DEFINE p == Program(suber)
           n == step[suber]
<1>1. At(t, "sub") /\ subEVT(t)
  BY DEF PLT_IOC_subEVT
<1>2. /\ t = suber /\ n # Len(p) + 1 /\ n \in Nat \ {0} /\ live = LiveAt(p, n)
      /\ n \in DOMAIN p /\ p[n].do = "sub" /\ Instr(t) = p[n] /\ case \in Cases
      /\ step \in [Client -> Nat]
  BY <1>1, SuberAt DEF At, Instr, StepInv
<1>3. \/ /\ pc[t] = "idle" /\ pc'[t] = "sub"
         /\ UNCHANGED <<inited, curSuberNum, cbProc, evtIDs>>
      \/ pc[t] = "sub" /\ pc'[t] = "idle"
  BY <1>1, SubMoves DEF LinkInv
<1>4. IF pc'[t] = "idle" THEN step' = [step EXCEPT ![t] = @ + 1] ELSE step' = step
  BY CallGoesOn
<1>5. CASE pc[t] = "idle" /\ pc'[t] = "sub" /\ UNCHANGED <<inited, cbProc, evtIDs>>
  BY <1>2, <1>4, <1>5 DEF SlotsStay, SlotsInv, Subscribed, IsFree
<1>6. CASE pc[t] = "sub" /\ pc'[t] = "idle"
  <2>1. step'[suber] = n + 1
    BY <1>2, <1>4, <1>6
  <2>2. IF Asks(p[n]) THEN SubInstall(t) ELSE SubReject(t)
    BY <1>2, <1>6, SubAnswers
  <2>3. LiveAt(p, n + 1) = live \cup (IF Asks(p[n]) THEN {n} ELSE {})
    <3>1. \A j : ~Drops(p[n], p[j].key)
      BY <1>2 DEF Drops
    <3> QED
      BY <1>2, <3>1, LiveNext
  <2>4. /\ \A s \in Slot : ~IsFree(s) => \E j \in live : Subscribed(s, j)
        /\ \A j \in live : \E s \in Slot : Subscribed(s, j)
        /\ (\E j \in 1 .. n - 1 : Asks(p[j])) => inited
        /\ \A r, s \in Slot : cbProc[r] = cbProc[s] /\ r # s => IsFree(s)
    BY <1>2, <1>6 DEF SlotsInv
  <2>5. CASE Asks(p[n])
    <3>1. PICK r \in Slot, a \in SubArgs : IsFirstFree(r) /\ FillSlot(r, a.key, a.ids)
      BY <2>2, <2>5 DEF SubInstall
    <3>2. inited' = TRUE
      BY <2>2, <2>5 DEF SubInstall
    <3>3. cbProc[r] = None /\ a.key # None /\ a.key \in Key
      BY <3>1, ConlesAssumption DEF IsFirstFree, IsFree
    <3>4. /\ cbProc' = [cbProc EXCEPT ![r] = a.key] /\ evtIDs' = [evtIDs EXCEPT ![r] = a.ids]
          /\ cbProc'[r] = a.key /\ evtIDs'[r] = a.ids
      BY <3>1 DEF FillSlot, LinkInv, TableType
    <3>5. a.key = p[n].key /\ a.ids = p[n].ids
      BY <1>2, <3>3, <3>4 DEF PLT_IOC_subEVT
    <3>6. \A s \in Slot : s # r => cbProc'[s] = cbProc[s] /\ evtIDs'[s] = evtIDs[s]
      BY <3>4 DEF LinkInv, TableType
    <3>7. \A j \in live : p[j].key # p[n].key
      BY <1>2, <2>5, InTurn
    <3>8. \A s \in Slot : s # r /\ cbProc[s] # None => cbProc[s] # a.key
      BY <2>4, <3>5, <3>7 DEF IsFree, Subscribed
    <3>9. \A q, s \in Slot : cbProc'[q] = cbProc'[s] /\ q # s => cbProc'[s] = None
      BY <2>4, <3>3, <3>4, <3>6, <3>8 DEF IsFree
    <3>10. \A s \in Slot : cbProc'[s] # None => \E j \in live \cup {n} :
              cbProc'[s] = p[j].key /\ evtIDs'[s] = p[j].ids
      BY <2>4, <3>4, <3>5, <3>6 DEF IsFree, Subscribed
    <3>11. \A j \in live \cup {n} : \E s \in Slot :
              cbProc'[s] # None /\ cbProc'[s] = p[j].key /\ evtIDs'[s] = p[j].ids
      BY <2>4, <3>3, <3>4, <3>5, <3>6 DEF IsFree, Subscribed
    <3> QED
      BY <1>2, <1>6, <2>1, <2>3, <2>5, <3>2, <3>9, <3>10, <3>11 DEF SlotsStay
  <2>6. CASE ~Asks(p[n])
    <3>1. UNCHANGED <<inited, cbProc, evtIDs>>
      BY <2>2, <2>6 DEF SubReject
    <3>2. \A j \in 1 .. (n + 1) - 1 : j = n \/ j \in 1 .. n - 1
      BY <1>2
    <3> QED
      BY <1>2, <1>6, <2>1, <2>3, <2>4, <2>6, <3>1, <3>2 DEF SlotsStay, IsFree, Subscribed
  <2> QED
    BY <2>5, <2>6
<1> QED
  BY <1>3, <1>5, <1>6

(* A slot is given back: unsubEVT(NULL) goes on behind it, any other unsubEVT of    *)
(* the subscriber returns and has dropped what it had to.                           *)
LEMMA ClearSlots ==
    ASSUME LinkInv, StepInv, PlaceInv, ThreadsInv, SlotsInv, ResultInv, ModeInv,
           NEW t \in Client, Call(t), PLT_IOC_unsubEVT(t), UnsubClear(t) \/ UnsubJoin(t)
    PROVE  SlotsStay
<1> DEFINE p == Program(suber)
           n == step[suber]
           r == idx[t]
<1>1. /\ t = suber /\ n # Len(p) + 1 /\ n \in Nat \ {0} /\ live = LiveAt(p, n)
      /\ n \in DOMAIN p /\ p[n].do = "unsub" /\ Instr(t) = p[n] /\ case \in Cases
      /\ step \in [Client -> Nat] /\ At(t, "unsub")
  BY SuberAt DEF PLT_IOC_unsubEVT, At, Instr, StepInv
<1>2. /\ pc[t] \in {"unsub", "unsubJoin"} /\ ClearSlot(t, r) /\ UNCHANGED inited
      /\ r \in Slot /\ IsTarget(t, r)
  BY <1>1 DEF UnsubClear, UnsubJoin, SlotsInv, LinkInv, FrameInv
<1>3. /\ pc[t] \in InUnsub /\ target[t] = p[n].key /\ inited
      /\ pc'[t] = IF p[n].key = ALL THEN "unsub" ELSE "idle"
  <2>1. pc[t] \in InUnsub /\ target[t] = p[n].key
    BY <1>1, <1>2 DEF PlaceInv
  <2>2. pc \in [Thread -> ClientPc \cup AsyncPc] /\ t \notin Slot /\ t \in Thread
    BY ConlesAssumption DEF LinkInv, PcType
  <2>3. pc'[t] = AfterClear(t)
    BY <1>2, <2>2 DEF UnsubClear, UnsubJoin, Goto
  <2> QED
    BY <1>1, <2>1, <2>3, UnsubAnswers DEF AfterClear
<1>4. IF pc'[t] = "idle" THEN step' = [step EXCEPT ![t] = @ + 1] ELSE step' = step
  BY CallGoesOn
<1>5. /\ \A s \in Slot : ~IsFree(s) => \E j \in live : Subscribed(s, j)
      /\ \A j \in live : (\E s \in Slot : Subscribed(s, j)) \/ Drops(p[n], p[j].key)
      /\ \A q, s \in Slot : cbProc[q] = cbProc[s] /\ q # s => IsFree(s)
  BY <1>1 DEF SlotsInv
<1>6. cbProc \in [Slot -> Key \cup {None}] /\ evtIDs \in [Slot -> {None} \cup SUBSET EvtID]
  BY DEF LinkInv, TableType
<1>7. CASE p[n].key = ALL
  <2>1. \A j : Drops(p[n], p[j].key)
    BY <1>1, <1>7 DEF Drops
  <2>2. pc'[t] = "unsub" /\ step' = step /\ target' = target
    BY <1>2, <1>3, <1>4, <1>7 DEF ClearSlot
  <2>3. \A s \in Slot : \/ cbProc'[s] = None
                        \/ cbProc'[s] = cbProc[s] /\ evtIDs'[s] = evtIDs[s]
    BY <1>2, <1>3, <1>6, <1>7 DEF ClearSlot
  <2> QED
    BY <1>1, <1>2, <1>3, <1>5, <1>7, <2>1, <2>2, <2>3
       DEF SlotsStay, IsFree, Subscribed
<1>8. CASE p[n].key # ALL
  <2>1. /\ pc'[t] = "idle" /\ step'[suber] = n + 1
        /\ cbProc[r] = p[n].key
    BY <1>1, <1>2, <1>3, <1>4, <1>8 DEF IsTarget
  <2>2. /\ cbProc'[r] = None
        /\ \A s \in Slot : s # r => cbProc'[s] = cbProc[s] /\ evtIDs'[s] = evtIDs[s]
    BY <1>2, <1>3, <1>6, <1>8 DEF ClearSlot
  <2>3. LiveAt(p, n + 1) = {j \in live : p[j].key # p[n].key}
    <3>1. ~Asks(p[n]) /\ \A j : Drops(p[n], p[j].key) <=> p[j].key = p[n].key
      BY <1>1, <1>8 DEF Asks, Drops
    <3> QED
      BY <1>1, <3>1, LiveNext
  <2>4. \A s \in Slot : cbProc'[s] # None =>
           s # r /\ cbProc[s] # None /\ cbProc[s] # p[n].key
    BY <1>2, <1>5, <2>1, <2>2 DEF IsFree
  <2>5. \A s \in Slot : cbProc'[s] # None => \E j \in LiveAt(p, n + 1) :
           cbProc'[s] = p[j].key /\ evtIDs'[s] = p[j].ids
    BY <1>5, <2>2, <2>3, <2>4 DEF IsFree, Subscribed
  <2>6. ASSUME NEW j \in LiveAt(p, n + 1)
        PROVE  \E s \in Slot :
                  cbProc'[s] # None /\ cbProc'[s] = p[j].key /\ evtIDs'[s] = p[j].ids
    <3>1. j \in live /\ p[j].key # p[n].key /\ ~Drops(p[n], p[j].key)
      BY <1>8, <2>3 DEF Drops
    <3>2. PICK s \in Slot : Subscribed(s, j)
      BY <1>5, <3>1
    <3>3. s # r
      BY <2>1, <3>1, <3>2 DEF Subscribed
    <3> QED
      BY <2>2, <3>2, <3>3 DEF Subscribed, IsFree
  <2>7. \A q, s \in Slot : cbProc'[q] = cbProc'[s] /\ q # s => cbProc'[s] = None
    BY <1>5, <2>2 DEF IsFree
  <2> QED
    BY <1>1, <1>2, <1>3, <2>1, <2>5, <2>6, <2>7 DEF SlotsStay
<1> QED
  BY <1>7, <1>8

(* The scan of unsubEVT ends: it has met, and given back, whatever it had to.       *)
LEMMA DoneSlots ==
    ASSUME LinkInv, StepInv, PlaceInv, ThreadsInv, SlotsInv, ResultInv, ModeInv,
           NEW t \in Client, Call(t), PLT_IOC_unsubEVT(t), UnsubDone(t)
    PROVE  SlotsStay
<1> DEFINE p == Program(suber)
           n == step[suber]
<1>1. /\ t = suber /\ n # Len(p) + 1 /\ n \in Nat \ {0} /\ live = LiveAt(p, n)
      /\ n \in DOMAIN p /\ p[n].do = "unsub" /\ Instr(t) = p[n] /\ case \in Cases
      /\ step \in [Client -> Nat]
  BY SuberAt DEF PLT_IOC_unsubEVT, At, Instr, StepInv
<1>2. /\ pc[t] = "unsub" /\ inited /\ idx[t] > MaxSuberNum
      /\ UNCHANGED <<inited, cbProc, evtIDs>> /\ target[t] = p[n].key
      /\ pc'[t] = "idle"
  BY <1>1 DEF UnsubDone, PlaceInv, Goto, LinkInv, PcType
<1>3. step'[suber] = n + 1
  BY <1>1, <1>2, CallGoesOn
<1>4. LiveAt(p, n + 1) = {j \in live : ~Drops(p[n], p[j].key)}
  BY <1>1, LiveNext DEF Asks
<1>5. \A s \in Slot : s < idx[t]
  BY <1>2, ConlesAssumption DEF LinkInv, FrameType
<1>6. \A s \in Slot : ~IsFree(s) => p[n].key # ALL /\ cbProc[s] # p[n].key
  <2>1. p[n].key = ALL => \A s \in Slot : IsFree(s)
    BY <1>2, <1>5, NothingFailed DEF LinkInv, CountInv
  <2>2. p[n].key # ALL => \A s \in Slot : cbProc[s] # p[n].key
    BY <1>1, <1>2, <1>5 DEF SlotsInv
  <2> QED
    BY <2>1, <2>2
<1>7. \A s \in Slot : ~IsFree(s) => \E j \in LiveAt(p, n + 1) : Subscribed(s, j)
  BY <1>1, <1>4, <1>6 DEF SlotsInv, Drops, Subscribed
<1>8. \A j \in LiveAt(p, n + 1) : \E s \in Slot : Subscribed(s, j)
  BY <1>1, <1>4 DEF SlotsInv
<1>9. \A q, s \in Slot : cbProc[q] = cbProc[s] /\ q # s => IsFree(s)
  BY DEF SlotsInv
<1> QED
  BY <1>1, <1>2, <1>3, <1>7, <1>8, <1>9 DEF SlotsStay, IsFree, Subscribed

(* unsubEVT keeps the slots and the subscriptions together.                         *)
LEMMA UnsubSlots ==
    ASSUME LinkInv, StepInv, PlaceInv, ThreadsInv, SlotsInv, ResultInv, ModeInv,
           NEW t \in Client, Call(t), PLT_IOC_unsubEVT(t)
    PROVE  SlotsStay
<1> DEFINE p == Program(suber)
           n == step[suber]
<1>1. /\ t = suber /\ n # Len(p) + 1 /\ n \in Nat \ {0} /\ live = LiveAt(p, n)
      /\ n \in DOMAIN p /\ p[n].do = "unsub" /\ Instr(t) = p[n]
      /\ At(t, "unsub") /\ unsubEVT(t)
  BY SuberAt DEF PLT_IOC_unsubEVT, At, Instr, StepInv
<1>2. IF pc'[t] = "idle" THEN step' = [step EXCEPT ![t] = @ + 1] ELSE step' = step
  BY CallGoesOn
<1>3. /\ pc \in [Thread -> ClientPc \cup AsyncPc] /\ t \notin Slot /\ t \in Thread
      /\ idx \in [Thread -> 0 .. MaxSuberNum + 1]
      /\ target \in [Client -> Key \cup {ALL, None}]
  BY ConlesAssumption DEF LinkInv, PcType, FrameType, EnvType
<1>4. CASE \E k \in Key \cup {ALL} : UnsubLock(t, k)
  <2>1. /\ pc[t] = "idle" /\ pc'[t] = "unsub" /\ idx'[t] = 1
        /\ UNCHANGED <<inited, cbProc, evtIDs>>
    BY <1>3, <1>4 DEF UnsubLock, Goto
  <2>2. step' = step /\ \A s \in Slot : ~(s < 1)
    BY <1>2, <2>1
  <2> QED
    BY <1>1, <2>1, <2>2 DEF SlotsStay, SlotsInv, IsFree, Subscribed
<1>5. ~UnsubNoTable(t)
  BY <1>1, UnsubAnswers DEF UnsubNoTable
<1>6. CASE UnsubSkip(t)
  <2>1. /\ pc[t] = "unsub" /\ pc' = pc /\ idx'[t] = idx[t] + 1 /\ ~IsTarget(t, idx[t])
        /\ idx[t] \in Nat /\ UNCHANGED <<inited, cbProc, evtIDs, target>>
    BY <1>3, <1>6 DEF UnsubSkip
  <2>2. step' = step /\ \A s \in Slot : s < idx[t] + 1 => s < idx[t] \/ s = idx[t]
    BY <1>2, <2>1
  <2> QED
    BY <1>1, <2>1, <2>2 DEF SlotsStay, SlotsInv, IsFree, Subscribed, IsTarget
<1>7. CASE UnsubStop(t) \/ UnsubSignal(t)
  <2>1. /\ pc[t] \in {"unsub", "unsubSignal"} /\ pc'[t] \in {"unsubSignal", "unsubJoin"}
        /\ IsTarget(t, idx[t])
        /\ UNCHANGED <<inited, cbProc, evtIDs, target, idx>>
    <3>1. CASE UnsubStop(t)
      BY <1>3, <3>1 DEF UnsubStop, Goto
    <3>2. CASE UnsubSignal(t)
      <4>1. pc[t] = "unsubSignal" /\ idx[t] \in Slot
        BY <3>2 DEF UnsubSignal, LinkInv, FrameInv
      <4> QED
        BY <1>1, <1>3, <3>2, <4>1 DEF UnsubSignal, SignalAndGoto, SlotsInv
    <3> QED
      BY <1>7, <3>1, <3>2
  <2>2. step' = step
    BY <1>2, <2>1
  <2> QED
    BY <1>1, <2>1, <2>2 DEF SlotsStay, SlotsInv, IsFree, Subscribed, IsTarget
<1> QED
  BY <1>1, <1>4, <1>5, <1>6, <1>7, ClearSlots, DoneSlots DEF unsubEVT

(* The slots hold what the subscriber has subscribed and not unsubscribed.          *)
LEMMA SlotsNext ==
    ASSUME LinkInv, StepInv, PlaceInv, ThreadsInv, SlotsInv, ResultInv, ModeInv, TestNext
    PROVE  SlotsInv'
<1>1. /\ case' = case /\ suber \in Client /\ step \in [Client -> Nat]
      /\ \A u \in Client : u \notin Slot /\ u \in Thread
      /\ \A s \in Slot : s \notin Client /\ s \in Thread
  BY ConlesAssumption, StepMoves, SuberIsClient DEF StepInv
<1>2. ASSUME NEW t \in Client, Call(t), PLT_IOC_postEVT(t) PROVE SlotsInv'
  <2>1. /\ UNCHANGED <<inited, cbProc, evtIDs, target>>
        /\ \A u \in Client : u # t => pc'[u] = pc[u] /\ idx'[u] = idx[u]
        /\ pc[t] \notin InUnsub /\ pc'[t] \notin InUnsub
    <3>1. postEVT(t)
      BY <1>2 DEF PLT_IOC_postEVT
    <3> QED
      BY <1>1, <3>1, PostMoves
  <2>2. CASE t = suber
    <3>1. ~At(suber, "sub") /\ ~At(suber, "unsub")
      BY <1>2, <2>2 DEF PLT_IOC_postEVT, At
    <3> QED
      BY <1>1, <2>1, <2>2, <3>1, NothingLive, SlotsKept
  <2>3. CASE t # suber
    <3>1. step'[suber] = step[suber]
      BY <1>1, <1>2, <2>3, CallGoesOn
    <3> QED
      BY <1>1, <2>1, <2>3, <3>1, SlotsKept
  <2> QED
    BY <2>2, <2>3
<1>3. CASE ~\E t \in Client : Call(t)
  <2>1. /\ UNCHANGED <<inited, cbProc, evtIDs, target>>
        /\ pc'[suber] = pc[suber] /\ idx'[suber] = idx[suber]
    <3>1. ASSUME NEW s \in Slot, postEVT(s)
          PROVE  /\ UNCHANGED <<inited, cbProc, evtIDs, target>>
                 /\ pc'[suber] = pc[suber] /\ idx'[suber] = idx[suber]
      BY <1>1, <3>1, PostMoves
    <3>2. ASSUME NEW s \in Slot, ASyncEventThread(s)
          PROVE  /\ UNCHANGED <<inited, cbProc, evtIDs, target>>
                 /\ pc'[suber] = pc[suber] /\ idx'[suber] = idx[suber]
      BY <1>1, <3>2, AsyncMoves DEF LinkInv
    <3> QED
      BY <1>3, <3>1, <3>2, LinkMoves, ReplyPosts
  <2>2. CASE step'[suber] = step[suber]
    BY <1>1, <2>1, <2>2, SlotsKept
  <2>3. CASE step'[suber] # step[suber]
    <3>1. pc'[suber] = "idle" /\ pc[suber] = "idle"
      BY <1>1, <2>1, <2>3, IdleWhenPassing
    <3> QED
      BY <1>1, <1>3, <2>1, <3>1, NothingLive, SlotsKept
  <2> QED
    BY <2>2, <2>3
<1> QED
  BY <1>1, <1>2, <1>3, SubSlots, UnsubSlots, SlotsFrom DEF Call

(* No step makes a call return what its test does not want, where no callback       *)
(* replies.                                                                         *)
LEMMA CallsNext ==
    ASSUME LinkInv, StepInv, PlaceInv, ThreadsInv, SlotsInv, ResultInv, ModeInv, TestNext,
           case # "Typical_Case02", CallsReturnAsAsserted
    PROVE  CallsReturnAsAsserted'
<1>1. /\ case' = case
      /\ \A s \in Slot : s \notin Client /\ s \in Thread
  BY ConlesAssumption, StepMoves
<1>2. SUFFICES failed' \cap CallResults \subseteq
                   (failed \cap CallResults)
                       \cup (IF case = "State_Case02" THEN {"NOT_FOUND"} ELSE {})
  BY <1>1 DEF CallsReturnAsAsserted
<1>3. ASSUME NEW t \in Client, Call(t)
      PROVE  failed' \subseteq failed \cup (IF case = "State_Case02" THEN {"NOT_FOUND"}
                                                                    ELSE {})
  BY <1>3, CallGoesOn
<1>4. ASSUME NEW t \in Client, Check(t)
      PROVE  failed' \cap CallResults \subseteq failed
  BY <1>4 DEF Check, Checked, CallResults
<1>5. ASSUME NEW t \in Client, Start(t) \/ Join(t) \/ Settle(t) \/ CondWait(t)
      PROVE  failed' = failed
  BY <1>5 DEF Start, Join, Settle, CondWait
<1>6. ASSUME NEW s \in Slot, TestSlot(s)
      PROVE  failed' = failed
  <2>1. ~CallbackPosts(s)
    <3>1. SUFFICES ASSUME pc[s] # "cb", postEVT(s) PROVE FALSE
      BY DEF CallbackPosts
    <3>2. pc[s] \in InCall
      BY <1>1, <3>1, PostMoves
    <3> QED
      BY <3>2 DEF ModeInv
  <2> QED
    BY <1>6, <2>1 DEF TestSlot, CallbackEnters, CallbackReplies
<1> QED
  BY <1>3, <1>4, <1>5, <1>6 DEF TestNext, TestThread

(* The invariant holds where a test starts,                                         *)
LEMMA TestStarts ==
    ASSUME TestInit
    PROVE  TestInv
<1>1. /\ Idle /\ case \in Cases /\ asleep = FALSE /\ failed = {}
      /\ step = [t \in Client |-> IF t = main THEN 1 ELSE 0]
      /\ main \in Client /\ suber \in Client
  BY TestAssumption, SuberIsClient DEF TestInit
<1>2. /\ \A t \in Client : pc[t] = "idle" /\ res[t] = None /\ t \notin Slot /\ t \in Thread
      /\ \A s \in Slot : pc[s] = "none" /\ cache[s] = <<>> /\ cbProc[s] = None
  BY <1>1, ConlesAssumption DEF Idle
<1>3. \A t \in Client : /\ Len(Program(t)) \in Nat
                        /\ DOMAIN Program(t) = 1 .. Len(Program(t))
                        /\ step[t] \in {0, 1}
  BY <1>1, ProgramShape
<1>4. StepInv
  BY <1>1, <1>3 DEF StepInv
<1>5. PlaceInv
  BY <1>1, <1>2 DEF PlaceInv
<1>6. ThreadsInv
  BY <1>1, <1>3 DEF ThreadsInv
<1>7. SlotsInv
  <2>1. live = {}
    BY <1>1, <1>3, LiveFirst DEF live
  <2>2. 1 .. step[suber] - 1 = {}
    BY <1>1, <1>3
  <2> QED
    BY <1>1, <1>2, <2>1, <2>2 DEF SlotsInv, IsFree
<1>8. ResultInv
  BY <1>2, ConlesAssumption DEF ResultInv
<1>9. ModeInv
  BY <1>2 DEF ModeInv
<1> QED
  BY <1>1, <1>4, <1>5, <1>6, <1>7, <1>8, <1>9 DEF TestInv, CallsReturnAsAsserted

(* no step breaks it,                                                               *)
LEMMA TestSteps ==
    ASSUME IInv, TestInv, [TestNext]_<<vars, testVars>>
    PROVE  TestInv'
<1>1. LinkInv
  BY Types DEF IInv, LinkInv
<1>2. /\ StepInv /\ PlaceInv /\ ThreadsInv /\ SlotsInv /\ ResultInv /\ ModeInv
      /\ case # "Typical_Case02" => CallsReturnAsAsserted
  BY DEF TestInv
<1>3. CASE TestNext
  <2>1. case' = case
    BY <1>1, <1>2, <1>3, StepMoves
  <2> QED
    BY <1>1, <1>2, <1>3, <2>1, StepNext, PlaceNext, ThreadsNext, SlotsNext, ResultNext,
       ModeNext, CallsNext DEF TestInv
<1>4. CASE UNCHANGED <<vars, testVars>>
  <2>1. StepInv'
    BY <1>2, <1>4 DEF StepInv, Program
  <2>2. PlaceInv'
    BY <1>2, <1>4 DEF PlaceInv, Program, Instr, At
  <2>3. ThreadsInv'
    BY <1>2, <1>4 DEF ThreadsInv, Program
  <2>4. SlotsInv'
    BY <1>2, <1>4, SlotsKept
  <2>5. ResultInv'
    BY <1>2, <1>4 DEF ResultInv, live, suber, Instr, Program
  <2>6. ModeInv'
    BY <1>2, <1>4 DEF ModeInv
  <2>7. case' # "Typical_Case02" => CallsReturnAsAsserted'
    BY <1>2, <1>4 DEF CallsReturnAsAsserted
  <2> QED
    BY <2>1, <2>2, <2>3, <2>4, <2>5, <2>6, <2>7 DEF TestInv
<1> QED
  BY <1>3, <1>4

(* so every reachable state of a test satisfies it.                                 *)
LEMMA TestInductive == TestSpec => []TestInv
<1>1. TestInit => TestInv
  BY TestStarts
<1>2. IInv /\ TestInv /\ [TestNext]_<<vars, testVars>> => TestInv'
  BY TestSteps
<1> QED
  BY <1>1, <1>2, LinkInductive, PTL DEF TestSpec

(* In every interleaving of a test's threads and of its async threads, each call    *)
(* returns what the test asserts; in State_Case02 a post that comes before the      *)
(* first subEVT of the process may get NOT_FOUND. That a reply of Typical_Case02's  *)
(* callbacks gets nothing worse than NOT_ENOUGH_RESOURCE stays with the runs.       *)
THEOREM TestCallsReturn ==
    TestSpec => [](case # "Typical_Case02" => CallsReturnAsAsserted)
<1>1. TestInv => (case # "Typical_Case02" => CallsReturnAsAsserted)
  BY DEF TestInv
<1> QED
  BY <1>1, TestInductive, PTL

(* In no test are two threads inside the callback of one subscription at once: an   *)
(* object that counts without a lock never misses an event.                         *)
THEOREM CallbackExclusive == TestSpec => []CallbackAlone
<1>1. ASSUME IInv, TestInv, NEW k \in Key PROVE Cardinality(InCallbackOf(k)) <= 1
  <2>1. /\ CtxMutexHeld /\ FrameInv /\ SlotsInv /\ ModeInv
        /\ \A c \in Client : c \in Thread
        /\ k # None
    BY <1>1, ConlesAssumption DEF IInv, TestInv
  <2>2. ASSUME NEW r \in Slot, NEW s \in Slot, cbProc[r] = k, cbProc[s] = k
        PROVE  r = s
    BY <2>1, <2>2 DEF SlotsInv, IsFree
  <2>3. ASSUME NEW b \in Client, NEW c \in Client, pc[b] = "syncCb", pc[c] = "syncCb"
        PROVE  b = c
    BY <2>1, <2>3 DEF CtxMutexHeld
  <2>4. ASSUME NEW c \in Client, pc[c] = "syncCb", NEW s \in Slot
        PROVE  ~InAsyncCb(s)
    <3>1. opt[c].sync
      BY <2>1, <2>4 DEF FrameInv
    <3>2. pc[s] = "none"
      BY <2>1, <2>4, <3>1 DEF ModeInv
    <3> QED
      BY <3>2 DEF InAsyncCb
  <2>5. \A x, y \in InCallbackOf(k) : x = y
    BY <2>2, <2>3, <2>4 DEF InCallbackOf
  <2>6. CASE InCallbackOf(k) = {}
    BY <2>6, FS_EmptySet
  <2>7. CASE InCallbackOf(k) # {}
    <3>1. PICK x : InCallbackOf(k) = {x}
      BY <2>5, <2>7
    <3> QED
      BY <3>1, FS_Singleton
  <2> QED
    BY <2>6, <2>7
<1>2. IInv /\ TestInv => CallbackAlone
  BY <1>1 DEF CallbackAlone
<1> QED
  BY <1>2, LinkInductive, TestInductive, PTL
=====================================================================================
