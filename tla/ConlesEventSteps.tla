------------------------------ MODULE ConlesEventSteps ------------------------------
(* The steps of ConlesEvent: facts on sequences, the mutex and the counter; that a  *)
(* step keeps the types; what the larger actions do to a slot; and one step lemma   *)
(* for each part of IInv, first those that speak of locks, locals, slots and        *)
(* threads, then those that speak of events. Each has one step per action.          *)
EXTENDS ConlesEventInv, TLAPS, SequenceTheorems

(* Append, Head and Tail on queues of events.                                       *)
LEMMA SeqFacts ==
    ASSUME NEW q \in Seq(Msg)
    PROVE  /\ \A m \in Msg : /\ Append(q, m) \in Seq(Msg)
                             /\ Append(q, m) # <<>>
                             /\ Len(Append(q, m)) = Len(q) + 1
           /\ q # <<>> => /\ Head(q) \in Msg
                          /\ Tail(q) \in Seq(Msg)
                          /\ Len(Tail(q)) = Len(q) - 1
                          /\ Len(q) > 0
           /\ Len(q) \in Nat
           /\ <<>> \in Seq(Msg)
           /\ Len(<<>>) = 0
  BY SMT

(* A scan that steps over a slot stays within one past the end of the table.        *)
LEMMA NextIdx ==
    ASSUME ConlesAssumption, NEW t \in Thread, FrameType, idx[t] \in Slot,
           idx' = [idx EXCEPT ![t] = @ + 1]
    PROVE  idx' \in [Thread -> 0 .. MaxSuberNum + 1]
<1>1. idx[t] + 1 \in 0 .. MaxSuberNum + 1
  BY SMT DEF Slot, ConlesAssumption
<1>2. QED
  BY <1>1 DEF FrameType

(* pthread_mutex_unlock leaves the recursive mutex with a depth and an owner or     *)
(* none.                                                                            *)
LEMMA Unlock ==
    ASSUME ConlesAssumption, NEW t \in Thread, pc[t] \in InCtx, CtxType, CtxMutexHeld,
           UnlockCtx
    PROVE  ctxDepth' \in Nat /\ ctxOwner' \in Thread \cup {None}
<1>1. ctxOwner # None
  BY DEF ConlesAssumption, CtxMutexHeld
<1> QED
  BY <1>1, SMT DEF CtxType, CtxMutexHeld, UnlockCtx

(* The subscriber counter, an unsigned long, wraps around within its width.         *)
LEMMA Countdown ==
    ASSUME ConlesAssumption, NEW n \in Int
    PROVE  n % ULONG_MOD \in 0 .. ULONG_MOD - 1
  BY SMT DEF ConlesAssumption

(* A postEVT that returns, or whose assertion fails, leaves positions and locals    *)
(* typed.                                                                           *)
LEMMA Returns ==
    ASSUME NEW t \in Thread, NEW r, PcType, FrameType, PostReturn(t, r),
           ConlesAssumption,
           ret[t] \in IF t \in Client THEN {"idle"} ELSE {"cb", "drain"}
    PROVE  PcType' /\ FrameType'
<1>1. FrameType'
  BY SMT DEF FrameType, PostReturn, ConlesAssumption
<1>2. CASE pc' = [u \in Thread |-> "dead"]
  BY <1>1, <1>2 DEF PcType, ClientPc, AsyncPc, Thread
<1>3. CASE pc' = [pc EXCEPT ![t] = ret[t]]
  BY <1>1, <1>3 DEF PcType, ClientPc, AsyncPc, Thread, ConlesAssumption
<1> QED
  BY <1>1, <1>2, <1>3 DEF PostReturn, Abort, Goto

(* Appending to the second of two queues appends to their concatenation.            *)
LEMMA AppendToConcat ==
    ASSUME NEW h \in Seq(Msg), NEW q \in Seq(Msg), NEW m \in Msg, NEW a,
           a = h \o q
    PROVE  Append(a, m) = h \o Append(q, m)
<1>1. Append(q, m) = q \o <<m>> /\ <<m>> \in Seq(Msg)
  BY AppendIsConcat
<1>2. h \o q \in Seq(Msg)
  BY ConcatProperties
<1>3. Append(h \o q, m) = (h \o q) \o <<m>>
  BY <1>2, AppendIsConcat
<1> QED
  BY <1>1, <1>3, ConcatAssociative

(* Moving the head of a queue to the end of the one before keeps their              *)
(* concatenation.                                                                   *)
LEMMA TakeFromConcat ==
    ASSUME NEW h \in Seq(Msg), NEW q \in Seq(Msg), q # <<>>
    PROVE  Append(h, Head(q)) \o Tail(q) = h \o q
<1>1. Head(q) \in Msg /\ Tail(q) \in Seq(Msg) /\ <<Head(q)>> \in Seq(Msg)
  BY SeqFacts
<1>2. <<Head(q)>> \o Tail(q) = q
  <2>1. <<Head(q)>> \o Tail(q) \in Seq(Msg)
    BY <1>1, ConcatProperties
  <2>2. Len(<<Head(q)>> \o Tail(q)) = Len(q)
    BY <1>1, ConcatProperties, SeqFacts
  <2>3. ASSUME NEW i \in 1 .. Len(q) PROVE (<<Head(q)>> \o Tail(q))[i] = q[i]
    BY <1>1, SMT
  <2> QED
    BY <2>1, <2>2, <2>3, SeqEqual
<1>3. Append(h, Head(q)) = h \o <<Head(q)>>
  BY <1>1, AppendIsConcat
<1> QED
  BY <1>1, <1>2, <1>3, ConcatAssociative

(* A post that queues an event at a slot extends what the slot accepted by the same *)
(* event.                                                                           *)
LEMMA EnqueueExtends ==
    ASSUME QueueType, HistInv, NEW s \in Slot, NEW m \in Msg
    PROVE  Append(accepted[s], m) = handled[s] \o Append(queue[s], m)
<1>1. handled[s] \in Seq(Msg) /\ queue[s] \in Seq(Msg)
  BY DEF QueueType
<1>2. accepted[s] = handled[s] \o queue[s]
  BY DEF HistInv
<1> QED
  BY <1>1, <1>2, AppendToConcat, Zenon

(* An appended event is among the events of a queue, and those before it remain.    *)
LEMMA AppendDelivers ==
    ASSUME NEW q \in Seq(Msg), NEW m \in Msg, NEW r, r = Append(q, m)
    PROVE  /\ m \in {r[i] : i \in DOMAIN r}
           /\ {q[i] : i \in DOMAIN q} \subseteq {r[i] : i \in DOMAIN r}
<1>1. /\ DOMAIN q = 1 .. Len(q) /\ DOMAIN r = 1 .. Len(q) + 1
      /\ Len(q) \in Nat
      /\ \A i \in 1 .. Len(q) : r[i] = q[i]
      /\ r[Len(q) + 1] = m
  BY AppendProperties, LenProperties
<1>2. DOMAIN q \subseteq DOMAIN r /\ Len(q) + 1 \in DOMAIN r
  BY <1>1
<1> QED
  BY <1>1, <1>2

(* A post that queues its event has delivered it to the slot, and nothing delivered *)
(* is taken back.                                                                   *)
LEMMA EnqueueDelivers ==
    ASSUME QueueType, FrameInv, NEW t \in Thread, PostEnqueue(t)
    PROVE  /\ evt[t] \in delivered'[idx[t]]
           /\ \A s \in Slot : delivered[s] \subseteq delivered'[s]
<1>1. idx[t] \in Slot /\ evt[t] \in Msg
  BY DEF PostEnqueue, AtMatch, FrameInv, InCall, InScan
<1>2. accepted' = [accepted EXCEPT ![idx[t]] = Append(@, evt[t])]
  BY DEF PostEnqueue
<1>3. accepted[idx[t]] \in Seq(Msg)
  BY <1>1 DEF QueueType
<1>4. /\ accepted'[idx[t]] = Append(accepted[idx[t]], evt[t])
      /\ \A s \in Slot : s # idx[t] => accepted'[s] = accepted[s]
  BY <1>1, <1>2 DEF QueueType
<1>5. \A s \in Slot : /\ delivered[s] = {accepted[s][i] : i \in DOMAIN accepted[s]}
                       /\ delivered'[s] = {accepted'[s][i] : i \in DOMAIN accepted'[s]}
  BY DEF delivered
<1>6. /\ evt[t] \in delivered'[idx[t]]
      /\ delivered[idx[t]] \subseteq delivered'[idx[t]]
  <2> DEFINE q == accepted[idx[t]]
             r == accepted'[idx[t]]
  <2>1. q \in Seq(Msg) /\ evt[t] \in Msg /\ r = Append(q, evt[t])
    BY <1>1, <1>3, <1>4
  <2>2. /\ evt[t] \in {r[i] : i \in DOMAIN r}
        /\ {q[i] : i \in DOMAIN q} \subseteq {r[i] : i \in DOMAIN r}
    <3> HIDE DEF q, r
    <3> QED
      BY <2>1, AppendDelivers
  <2> QED
    BY <1>1, <1>5, <2>2
<1> QED
  BY <1>4, <1>5, <1>6

(* The type invariant is the conjunction of its parts.                              *)
LEMMA Types ==
    TypeOK <=> /\ CtxType /\ TableType /\ QueueType /\ CacheType
               /\ PcType /\ FrameType /\ EnvType
  BY DEF TypeOK, CtxType, TableType, QueueType, CacheType, PcType, FrameType, EnvType


(* The same after a step.                                                           *)
LEMMA TypesNext ==
    TypeOK' <=> /\ CtxType' /\ TableType' /\ QueueType' /\ CacheType'
                /\ PcType' /\ FrameType' /\ EnvType'
  BY DEF TypeOK, CtxType, TableType, QueueType, CacheType, PcType, FrameType, EnvType

\* Tuples of variables and names of sets are expanded throughout.
USE DEF vars, ctxVars, tableVars, slotVars, frameVars, envVars

(* postEVT_ASyncThreadCached adds to the cache of the calling thread or drops the   *)
(* event because the cache is full; either way that cache is not empty afterwards,  *)
(* and no other changes.                                                            *)
LEMMA CacheShape ==
    ASSUME ConlesAssumption, CacheType, FrameInv, NEW t \in Thread,
           postEVT_ASyncThreadCached(t)
    PROVE  /\ t \in Slot
           /\ CacheType'
           /\ cache'[t] # <<>>
           /\ \A s \in Slot : s # t => cache'[s] = cache[s]
<1>1. t \in Slot /\ evt[t] \in Msg
  BY DEF postEVT_ASyncThreadCached, FrameInv, InCall
<1>2. CASE Len(cache[t]) < EVTCACHED_MAX
  <2>1. cache' = [cache EXCEPT ![t] = Append(@, evt[t])]
    BY <1>2 DEF postEVT_ASyncThreadCached
  <2>2. /\ Append(cache[t], evt[t]) \in Seq(Msg)
        /\ Append(cache[t], evt[t]) # <<>>
        /\ Len(Append(cache[t], evt[t])) = Len(cache[t]) + 1
        /\ Len(cache[t]) \in Nat
    BY <1>1, SeqFacts DEF CacheType
  <2>3. CacheType'
    BY <1>1, <1>2, <2>1, <2>2 DEF CacheType, ConlesAssumption
  <2> QED
    BY <1>1, <2>1, <2>2, <2>3 DEF CacheType
<1>3. CASE ~(Len(cache[t]) < EVTCACHED_MAX)
  <2>1. cache' = cache
    BY <1>3 DEF postEVT_ASyncThreadCached
  <2>2. Len(cache[t]) # 0
    BY <1>3, SMT DEF ConlesAssumption
  <2> QED
    BY <1>1, <2>1, <2>2, SeqFacts DEF CacheType
<1> QED
  BY <1>2, <1>3

(* Every step keeps the type invariant. The queues' bounds need the guards of       *)
(* _IOC_postEVT_inConlesMode, the locals' types need FrameInv.                      *)
LEMMA TypeStep ==
  ASSUME ConlesAssumption, TypeOK, CtxMutexHeld, FrameInv, DrainInv, [Next]_vars
  PROVE  TypeOK'
<1>0. /\ CtxType /\ TableType /\ QueueType /\ CacheType
      /\ PcType /\ FrameType /\ EnvType
  BY Types
<1>1. ASSUME NEW c \in Client, SubLock(c) PROVE TypeOK'
  <2>1. CtxType'
    BY <1>0, <1>1 DEF CtxType, Thread, SubLock, LockCtx
  <2>2. TableType'
    BY <1>0, <1>1 DEF TableType, SubLock
  <2>3. QueueType'
    BY <1>0, <1>1 DEF QueueType, SubLock
  <2>4. CacheType'
    BY <1>0, <1>1 DEF CacheType, SubLock
  <2>5. PcType'
    BY <1>0, <1>1 DEF PcType, ClientPc, Thread, SubLock, Goto
  <2>6. FrameType'
    BY <1>0, <1>1 DEF FrameType, SubLock
  <2>7. EnvType'
    BY <1>0, <1>1 DEF EnvType, SubLock
  <2> QED
    BY <2>1, <2>2, <2>3, <2>4, <2>5, <2>6, <2>7, TypesNext
<1>2. ASSUME NEW c \in Client, SubReject(c) PROVE TypeOK'
  <2>1. ctxDepth' \in Nat /\ ctxOwner' \in Thread \cup {None}
    BY <1>0, <1>2, Unlock, c \in Thread DEF InCtx, Thread, SubReject
  <2>2. CtxType'
    BY <1>0, <1>2, <2>1 DEF CtxType, SubReject
  <2>3. TableType'
    BY <1>0, <1>2 DEF TableType, SubReject
  <2>4. QueueType'
    BY <1>0, <1>2 DEF QueueType, SubReject
  <2>5. CacheType'
    BY <1>0, <1>2 DEF CacheType, SubReject
  <2>6. PcType'
    BY <1>0, <1>2 DEF PcType, ClientPc, Thread, SubReject, Goto
  <2>7. FrameType'
    BY <1>0, <1>2 DEF FrameType, SubReject
  <2>8. EnvType'
    BY <1>0, <1>2 DEF EnvType, SubReject
  <2> QED
    BY <2>1, <2>2, <2>3, <2>4, <2>5, <2>6, <2>7, <2>8, TypesNext
<1>3. ASSUME NEW c \in Client, SubNoFreeSlot(c) PROVE TypeOK'
  <2>1. CtxType'
    BY <1>0, <1>3 DEF CtxType, Thread, SubNoFreeSlot, LockCtx
  <2>2. TableType'
    BY <1>0, <1>3 DEF TableType, SubNoFreeSlot
  <2>3. QueueType'
    BY <1>0, <1>3 DEF QueueType, SubNoFreeSlot
  <2>4. CacheType'
    BY <1>0, <1>3 DEF CacheType, SubNoFreeSlot
  <2>5. PcType'
    BY <1>0, <1>3 DEF PcType, ClientPc, Thread, SubNoFreeSlot, Goto
  <2>6. FrameType'
    BY <1>0, <1>3 DEF FrameType, SubNoFreeSlot
  <2>7. EnvType'
    BY <1>0, <1>3 DEF EnvType, SubNoFreeSlot
  <2> QED
    BY <2>1, <2>2, <2>3, <2>4, <2>5, <2>6, <2>7, TypesNext
<1>4. ASSUME NEW c \in Client, SubInstall(c) PROVE TypeOK'
  <2>1. ctxDepth' \in Nat /\ ctxOwner' \in Thread \cup {None}
    BY <1>0, <1>4, Unlock, c \in Thread DEF InCtx, Thread, SubInstall, FillSlot,
       IsFirstFree, IsFree
  <2>2. curSuberNum' \in 0 .. ULONG_MOD - 1
    BY <1>0, <1>4, Countdown DEF CtxType, SubInstall, FillSlot, IsFirstFree, IsFree
  <2>3. CtxType'
    BY <1>0, <1>4, <2>1, <2>2 DEF CtxType, SubInstall
  <2>4. TableType'
    BY <1>0, <1>4 DEF TableType, SubInstall, FillSlot, IsFirstFree, IsFree
  <2>5. QueueType'
    BY <1>0, <1>4, SeqFacts DEF QueueType, SubInstall, FillSlot, IsFirstFree, IsFree
  <2>6. CacheType'
    BY <1>0, <1>4, SeqFacts DEF CacheType, SubInstall, FillSlot, IsFirstFree, IsFree
  <2>7. PcType'
    BY <1>0, <1>4 DEF PcType, ClientPc, Thread, SubInstall, FillSlot, IsFirstFree,
       IsFree, Goto
  <2>8. FrameType'
    BY <1>0, <1>4 DEF FrameType, SubInstall, FillSlot, IsFirstFree, IsFree
  <2>9. EnvType'
    BY <1>0, <1>4 DEF EnvType, SubInstall, FillSlot, IsFirstFree, IsFree
  <2> QED
    BY <2>1, <2>2, <2>3, <2>4, <2>5, <2>6, <2>7, <2>8, <2>9, TypesNext
<1>5. ASSUME NEW c \in Client, SubMallocFails(c) PROVE TypeOK'
  <2>1. ctxDepth' \in Nat /\ ctxOwner' \in Thread \cup {None}
    BY <1>0, <1>5, Unlock, c \in Thread DEF InCtx, Thread, SubMallocFails, FillSlot,
       IsFirstFree, IsFree
  <2>2. CtxType'
    BY <1>0, <1>5, <2>1 DEF CtxType, SubMallocFails, FillSlot, IsFirstFree, IsFree
  <2>3. TableType'
    BY <1>0, <1>5 DEF TableType, SubMallocFails, FillSlot, IsFirstFree, IsFree
  <2>4. QueueType'
    BY <1>0, <1>5, SeqFacts DEF QueueType, SubMallocFails, FillSlot, IsFirstFree,
       IsFree
  <2>5. CacheType'
    BY <1>0, <1>5, SeqFacts DEF CacheType, SubMallocFails, FillSlot, IsFirstFree,
       IsFree
  <2>6. PcType'
    BY <1>0, <1>5 DEF PcType, ClientPc, Thread, SubMallocFails, FillSlot, IsFirstFree,
       IsFree, Goto
  <2>7. FrameType'
    BY <1>0, <1>5 DEF FrameType, SubMallocFails, FillSlot, IsFirstFree, IsFree
  <2>8. EnvType'
    BY <1>0, <1>5 DEF EnvType, SubMallocFails, FillSlot, IsFirstFree, IsFree
  <2> QED
    BY <2>1, <2>2, <2>3, <2>4, <2>5, <2>6, <2>7, <2>8, TypesNext
<1>6. ASSUME NEW c \in Client, SubCallocFails(c) PROVE TypeOK'
  BY <1>6 DEF TypeOK, ClientPc, AsyncPc, Thread, CtxMutexHeld, DrainInv,
     SubCallocFails, Abort
<1>7. ASSUME NEW c \in Client, NEW k \in Key \cup {ALL}, UnsubLock(c, k) PROVE TypeOK'
  <2>1. CtxType'
    BY <1>0, <1>7 DEF CtxType, Thread, UnsubLock, LockCtx
  <2>2. TableType'
    BY <1>0, <1>7 DEF TableType, UnsubLock
  <2>3. QueueType'
    BY <1>0, <1>7 DEF QueueType, UnsubLock
  <2>4. CacheType'
    BY <1>0, <1>7 DEF CacheType, UnsubLock
  <2>5. PcType'
    BY <1>0, <1>7 DEF PcType, ClientPc, Thread, UnsubLock, Goto
  <2>6. FrameType'
    BY <1>0, <1>7 DEF FrameType, Thread, UnsubLock
  <2>7. EnvType'
    BY <1>0, <1>7 DEF EnvType, UnsubLock
  <2> QED
    BY <2>1, <2>2, <2>3, <2>4, <2>5, <2>6, <2>7, TypesNext
<1>8. ASSUME NEW c \in Client, UnsubNoTable(c) PROVE TypeOK'
  <2>1. ctxDepth' \in Nat /\ ctxOwner' \in Thread \cup {None}
    BY <1>0, <1>8, Unlock, c \in Thread DEF InCtx, InUnsub, Thread, UnsubNoTable,
       UnsubReturn
  <2>2. CtxType'
    BY <1>0, <1>8, <2>1 DEF CtxType, UnsubNoTable
  <2>3. TableType'
    BY <1>0, <1>8 DEF TableType, UnsubNoTable
  <2>4. QueueType'
    BY <1>0, <1>8 DEF QueueType, UnsubNoTable
  <2>5. CacheType'
    BY <1>0, <1>8 DEF CacheType, UnsubNoTable
  <2>6. PcType'
    BY <1>0, <1>8 DEF PcType, ClientPc, Thread, UnsubNoTable, Goto
  <2>7. FrameType'
    BY <1>0, <1>8 DEF FrameType, Thread, UnsubNoTable, UnsubReturn
  <2>8. EnvType'
    BY <1>0, <1>8 DEF EnvType, UnsubNoTable, UnsubReturn
  <2> QED
    BY <2>1, <2>2, <2>3, <2>4, <2>5, <2>6, <2>7, <2>8, TypesNext
<1>9. ASSUME NEW c \in Client, UnsubSkip(c) PROVE TypeOK'
  <2>1. idx' \in [Thread -> 0 .. MaxSuberNum + 1]
    BY <1>0, <1>9, NextIdx, c \in Thread DEF AtFullQueue, Thread, UnsubSkip
  <2>2. CtxType'
    BY <1>0, <1>9 DEF CtxType, UnsubSkip
  <2>3. TableType'
    BY <1>0, <1>9 DEF TableType, UnsubSkip
  <2>4. QueueType'
    BY <1>0, <1>9 DEF QueueType, UnsubSkip
  <2>5. CacheType'
    BY <1>0, <1>9 DEF CacheType, UnsubSkip
  <2>6. PcType'
    BY <1>0, <1>9 DEF PcType, UnsubSkip
  <2>7. FrameType'
    BY <1>0, <1>9, <2>1 DEF FrameType, UnsubSkip
  <2>8. EnvType'
    BY <1>0, <1>9 DEF EnvType, UnsubSkip
  <2> QED
    BY <2>1, <2>2, <2>3, <2>4, <2>5, <2>6, <2>7, <2>8, TypesNext
<1>10. ASSUME NEW c \in Client, UnsubStop(c) PROVE TypeOK'
  BY <1>10 DEF TypeOK, ClientPc, Thread, UnsubStop, Goto
<1>11. ASSUME NEW c \in Client, UnsubSignal(c) PROVE TypeOK'
  BY <1>11 DEF TypeOK, ClientPc, AsyncPc, Thread, UnsubSignal, SignalAndGoto
<1>12. ASSUME NEW c \in Client, UnsubClear(c) PROVE TypeOK'
  <2>1. ctxDepth' \in Nat /\ ctxOwner' \in Thread \cup {None}
    BY <1>0, <1>12, Unlock, c \in Thread
       DEF CtxType, InCtx, InUnsub, Thread, UnsubClear, ClearSlot, UnsubReturn
  <2>2. curSuberNum' \in 0 .. ULONG_MOD - 1
    BY <1>0, <1>12, Countdown DEF CtxType, UnsubClear, ClearSlot, UnlockCtx
  <2>3. CtxType'
    BY <1>0, <1>12, <2>1, <2>2 DEF CtxType, UnsubClear
  <2>4. TableType'
    BY <1>0, <1>12 DEF TableType, UnsubClear, ClearSlot
  <2>5. QueueType'
    BY <1>0, <1>12 DEF QueueType, UnsubClear
  <2>6. CacheType'
    BY <1>0, <1>12 DEF CacheType, UnsubClear
  <2>7. PcType'
    BY <1>0, <1>12 DEF PcType, ClientPc, Thread, UnsubClear, AfterClear, Goto
  <2>8. FrameType'
    BY <1>0, <1>12 DEF FrameType, Slot, UnsubClear, ClearSlot, UnsubReturn
  <2>9. EnvType'
    BY <1>0, <1>12 DEF EnvType, UnsubClear, ClearSlot, UnsubReturn
  <2> QED
    BY <2>1, <2>2, <2>3, <2>4, <2>5, <2>6, <2>7, <2>8, <2>9, TypesNext
<1>13. ASSUME NEW c \in Client, UnsubJoin(c) PROVE TypeOK'
  <2>1. ctxDepth' \in Nat /\ ctxOwner' \in Thread \cup {None}
    BY <1>0, <1>13, Unlock, c \in Thread
       DEF CtxType, InCtx, InUnsub, Thread, UnsubJoin, ClearSlot, UnsubReturn
  <2>2. curSuberNum' \in 0 .. ULONG_MOD - 1
    BY <1>0, <1>13, Countdown DEF CtxType, UnsubJoin, ClearSlot
  <2>3. CtxType'
    BY <1>0, <1>13, <2>1, <2>2 DEF CtxType, UnsubJoin
  <2>4. TableType'
    BY <1>0, <1>13 DEF TableType, UnsubJoin, ClearSlot
  <2>5. QueueType'
    BY <1>0, <1>13 DEF QueueType, UnsubJoin
  <2>6. CacheType'
    BY <1>0, <1>13 DEF CacheType, UnsubJoin
  <2>7. PcType'
    BY <1>0, <1>13 DEF PcType, ClientPc, AsyncPc, Thread, UnsubJoin, CanJoin,
       AfterClear
  <2>8. FrameType'
    BY <1>0, <1>13 DEF FrameType, Slot, FrameInv, UnsubJoin, ClearSlot, UnsubReturn
  <2>9. EnvType'
    BY <1>0, <1>13 DEF EnvType, UnsubJoin, ClearSlot, UnsubReturn
  <2> QED
    BY <2>1, <2>2, <2>3, <2>4, <2>5, <2>6, <2>7, <2>8, <2>9, TypesNext
<1>14. ASSUME NEW c \in Client, UnsubDone(c) PROVE TypeOK'
  <2>1. ctxDepth' \in Nat /\ ctxOwner' \in Thread \cup {None}
    BY <1>0, <1>14, Unlock, c \in Thread
       DEF InCtx, InUnsub, Thread, UnsubDone, UnsubReturn
  <2>2. CtxType'
    BY <1>0, <1>14, <2>1 DEF CtxType, UnsubDone
  <2>3. TableType'
    BY <1>0, <1>14 DEF TableType, UnsubDone
  <2>4. QueueType'
    BY <1>0, <1>14 DEF QueueType, UnsubDone
  <2>5. CacheType'
    BY <1>0, <1>14 DEF CacheType, UnsubDone
  <2>6. PcType'
    BY <1>0, <1>14 DEF PcType, ClientPc, Thread, UnsubDone, Goto
  <2>7. FrameType'
    BY <1>0, <1>14 DEF FrameType, Thread, UnsubDone, UnsubReturn
  <2>8. EnvType'
    BY <1>0, <1>14 DEF EnvType, UnsubDone, UnsubReturn
  <2> QED
    BY <2>1, <2>2, <2>3, <2>4, <2>5, <2>6, <2>7, <2>8, TypesNext
<1>15. ASSUME NEW t \in Thread, NEW m \in Msg, NEW o \in Options,
    PostCall(t, m, o) PROVE TypeOK'
  BY <1>15 DEF TypeOK, ClientPc, AsyncPc, Thread, PostCall, IsNextPost, Goto
<1>16. ASSUME NEW t \in Thread, PostLock(t) PROVE TypeOK'
  BY <1>16 DEF TypeOK, ClientPc, AsyncPc, PostLock, CanLock, LockCtx, Goto
<1>17. ASSUME NEW t \in Thread, PostNoTable(t) PROVE TypeOK'
  <2>1. PcType' /\ FrameType'
    BY <1>0, <1>17, Returns DEF FrameInv, InCall, PostNoTable
  <2>2. CtxType'
    BY <1>0, <1>17 DEF CtxType, PostNoTable, PostReturn
  <2>3. TableType'
    BY <1>0, <1>17 DEF TableType, PostNoTable, PostReturn
  <2>4. QueueType'
    BY <1>0, <1>17 DEF QueueType, PostNoTable, PostReturn
  <2>5. CacheType'
    BY <1>0, <1>17 DEF CacheType, PostNoTable, PostReturn
  <2>6. EnvType'
    BY <1>0, <1>17 DEF EnvType, PostNoTable, PostReturn
  <2> QED
    BY <2>1, <2>2, <2>3, <2>4, <2>5, <2>6, TypesNext
<1>18. ASSUME NEW t \in Thread, PostLockTimeout(t) PROVE TypeOK'
  <2>1. PcType' /\ FrameType'
    BY <1>0, <1>18, Returns DEF FrameInv, InCall, PostLockTimeout
  <2>2. CtxType'
    BY <1>0, <1>18 DEF CtxType, PostLockTimeout, PostReturn
  <2>3. TableType'
    BY <1>0, <1>18 DEF TableType, PostLockTimeout, PostReturn
  <2>4. QueueType'
    BY <1>0, <1>18 DEF QueueType, PostLockTimeout, PostReturn
  <2>5. CacheType'
    BY <1>0, <1>18 DEF CacheType, PostLockTimeout, PostReturn
  <2>6. EnvType'
    BY <1>0, <1>18 DEF EnvType, PostLockTimeout, PostReturn
  <2> QED
    BY <2>1, <2>2, <2>3, <2>4, <2>5, <2>6, TypesNext
<1>19. ASSUME NEW t \in Thread, postEVT_ASyncThreadCached(t) PROVE TypeOK'
  <2>1. PcType' /\ FrameType'
    BY <1>0, <1>19, Returns DEF FrameInv, InCall, postEVT_ASyncThreadCached
  <2>2. CtxType'
    BY <1>0, <1>19 DEF CtxType, postEVT_ASyncThreadCached, PostReturn
  <2>3. TableType'
    BY <1>0, <1>19 DEF TableType, postEVT_ASyncThreadCached, PostReturn
  <2>4. QueueType'
    BY <1>0, <1>19, SeqFacts DEF QueueType, postEVT_ASyncThreadCached, PostReturn
  <2>5. CacheType'
    BY <1>0, <1>19, CacheShape
  <2>6. EnvType'
    BY <1>0, <1>19 DEF EnvType, postEVT_ASyncThreadCached, PostReturn
  <2> QED
    BY <2>1, <2>2, <2>3, <2>4, <2>5, <2>6, TypesNext
<1>20. ASSUME NEW t \in Thread, PostSkip(t) PROVE TypeOK'
  <2>1. idx' \in [Thread -> 0 .. MaxSuberNum + 1]
    BY <1>0, <1>20, NextIdx, t \in Thread DEF AtFullQueue, PostSkip, NextSlot
  <2>2. CtxType'
    BY <1>0, <1>20 DEF CtxType, PostSkip, NextSlot
  <2>3. TableType'
    BY <1>0, <1>20 DEF TableType, PostSkip, NextSlot
  <2>4. QueueType'
    BY <1>0, <1>20 DEF QueueType, PostSkip, NextSlot
  <2>5. CacheType'
    BY <1>0, <1>20 DEF CacheType, PostSkip, NextSlot
  <2>6. PcType'
    BY <1>0, <1>20 DEF PcType, PostSkip, NextSlot
  <2>7. FrameType'
    BY <1>0, <1>20, <2>1 DEF FrameType, PostSkip
  <2>8. EnvType'
    BY <1>0, <1>20 DEF EnvType, PostSkip, NextSlot
  <2> QED
    BY <2>1, <2>2, <2>3, <2>4, <2>5, <2>6, <2>7, <2>8, TypesNext
<1>21. ASSUME NEW t \in Thread, PostSync(t) PROVE TypeOK'
  BY <1>21 DEF TypeOK, ClientPc, AsyncPc, Thread, PostSync, Goto
<1>22. ASSUME NEW t \in Thread, PostSyncReturn(t) PROVE TypeOK'
  <2>1. idx' \in [Thread -> 0 .. MaxSuberNum + 1]
    BY <1>0, <1>22, NextIdx, t \in Thread
       DEF FrameInv, AtFullQueue, PostSyncReturn, NextSlot
  <2>2. CtxType'
    BY <1>0, <1>22 DEF CtxType, PostSyncReturn, NextSlot
  <2>3. TableType'
    BY <1>0, <1>22 DEF TableType, PostSyncReturn, NextSlot
  <2>4. QueueType'
    BY <1>0, <1>22 DEF QueueType, PostSyncReturn, NextSlot
  <2>5. CacheType'
    BY <1>0, <1>22 DEF CacheType, PostSyncReturn, NextSlot
  <2>6. PcType'
    BY <1>0, <1>22 DEF PcType, ClientPc, AsyncPc, PostSyncReturn, NextSlot, Goto
  <2>7. FrameType'
    BY <1>0, <1>22, <2>1 DEF FrameType, Results, PostSyncReturn
  <2>8. EnvType'
    BY <1>0, <1>22 DEF EnvType, PostSyncReturn, NextSlot
  <2> QED
    BY <2>1, <2>2, <2>3, <2>4, <2>5, <2>6, <2>7, <2>8, TypesNext
<1>23. ASSUME NEW t \in Thread, PostEnqueue(t) PROVE TypeOK'
  <2>1. CtxType'
    BY <1>0, <1>23 DEF CtxType, PostEnqueue
  <2>2. TableType'
    BY <1>0, <1>23 DEF TableType, PostEnqueue
  <2>3. QueueType'
    BY <1>0, <1>23, SeqFacts DEF QueueType, FrameInv, InCall, InScan, PostEnqueue,
       AtMatch, IsFull
  <2>4. CacheType'
    BY <1>0, <1>23, SeqFacts DEF CacheType, PostEnqueue
  <2>5. PcType'
    BY <1>0, <1>23 DEF PcType, ClientPc, AsyncPc, Thread, PostEnqueue
  <2>6. FrameType'
    BY <1>0, <1>23 DEF FrameType, Results, PostEnqueue
  <2>7. EnvType'
    BY <1>0, <1>23 DEF EnvType, PostEnqueue
  <2> QED
    BY <2>1, <2>2, <2>3, <2>4, <2>5, <2>6, <2>7, TypesNext
<1>24. ASSUME NEW t \in Thread, PostSignal(t) PROVE TypeOK'
  <2>1. idx' \in [Thread -> 0 .. MaxSuberNum + 1]
    BY <1>0, <1>24, NextIdx, t \in Thread
       DEF FrameInv, AtFullQueue, PostSignal, NextSlot
  <2>2. CtxType'
    BY <1>0, <1>24 DEF CtxType, PostSignal, SignalAndGoto, NextSlot
  <2>3. TableType'
    BY <1>0, <1>24 DEF TableType, PostSignal, SignalAndGoto, NextSlot
  <2>4. QueueType'
    BY <1>0, <1>24 DEF QueueType, PostSignal, SignalAndGoto, NextSlot
  <2>5. CacheType'
    BY <1>0, <1>24 DEF CacheType, PostSignal, SignalAndGoto, NextSlot
  <2>6. PcType'
    BY <1>0, <1>24 DEF PcType, ClientPc, AsyncPc, Thread, PostSignal, SignalAndGoto,
       NextSlot
  <2>7. FrameType'
    BY <1>0, <1>24, <2>1 DEF FrameType, PostSignal, SignalAndGoto
  <2>8. EnvType'
    BY <1>0, <1>24 DEF EnvType, PostSignal, SignalAndGoto, NextSlot
  <2> QED
    BY <2>1, <2>2, <2>3, <2>4, <2>5, <2>6, <2>7, <2>8, TypesNext
<1>25. ASSUME NEW t \in Thread, PostCreateFails(t) PROVE TypeOK'
  <2>1. CtxType'
    BY <1>0, <1>25 DEF CtxType, PostCreateFails
  <2>2. TableType'
    BY <1>0, <1>25 DEF TableType, PostCreateFails
  <2>3. QueueType'
    BY <1>0, <1>25 DEF QueueType, PostCreateFails
  <2>4. CacheType'
    BY <1>0, <1>25 DEF CacheType, PostCreateFails
  <2>5. PcType'
    BY <1>0, <1>25 DEF PcType, ClientPc, AsyncPc, Thread, PostCreateFails, Abort
  <2>6. FrameType'
    BY <1>0, <1>25 DEF FrameType, PostCreateFails
  <2>7. EnvType'
    BY <1>0, <1>25 DEF EnvType, PostCreateFails
  <2> QED
    BY <2>1, <2>2, <2>3, <2>4, <2>5, <2>6, <2>7, TypesNext
<1>26. ASSUME NEW t \in Thread, PostFullNonBlock(t) PROVE TypeOK'
  <2>1. idx' \in [Thread -> 0 .. MaxSuberNum + 1]
    BY <1>0, <1>26, NextIdx, t \in Thread
       DEF AtMatch, AtFullQueue, PostFullNonBlock, NextSlot
  <2>2. CtxType'
    BY <1>0, <1>26 DEF CtxType, PostFullNonBlock, AtFullQueue, NextSlot
  <2>3. TableType'
    BY <1>0, <1>26 DEF TableType, PostFullNonBlock, AtFullQueue, NextSlot
  <2>4. QueueType'
    BY <1>0, <1>26 DEF QueueType, PostFullNonBlock, AtFullQueue, NextSlot
  <2>5. CacheType'
    BY <1>0, <1>26 DEF CacheType, PostFullNonBlock, AtFullQueue, NextSlot
  <2>6. PcType'
    BY <1>0, <1>26 DEF PcType, PostFullNonBlock, AtFullQueue, NextSlot
  <2>7. FrameType'
    BY <1>0, <1>26, <2>1 DEF FrameType, Results, PostFullNonBlock, AtFullQueue
  <2>8. EnvType'
    BY <1>0, <1>26 DEF EnvType, PostFullNonBlock, AtFullQueue, NextSlot
  <2> QED
    BY <2>1, <2>2, <2>3, <2>4, <2>5, <2>6, <2>7, <2>8, TypesNext
<1>27. ASSUME NEW t \in Thread, PostFullTimeout(t) PROVE TypeOK'
  BY <1>27 DEF TypeOK, ClientPc, AsyncPc, Thread, PostFullTimeout, AtFullQueue, Abort
<1>28. ASSUME NEW t \in Thread, PostFullRetry(t) PROVE TypeOK'
  BY <1>28 DEF TypeOK, ClientPc, AsyncPc, Thread, PostFullRetry, AtFullQueue,
     SignalAndGoto
<1>29. ASSUME NEW t \in Thread, PostDone(t) PROVE TypeOK'
  <2>1. ctxDepth' \in Nat /\ ctxOwner' \in Thread \cup {None}
    BY <1>0, <1>29, Unlock, t \in Thread DEF InCtx, InScan, PostDone, PostReturn
  <2>2. PcType' /\ FrameType'
    BY <1>0, <1>29, Returns DEF FrameInv, InCall, InScan, PostDone
  <2>3. CtxType'
    BY <1>0, <1>29, <2>1 DEF CtxType, PostDone, PostReturn
  <2>4. TableType'
    BY <1>0, <1>29 DEF TableType, PostDone, PostReturn
  <2>5. QueueType'
    BY <1>0, <1>29, SeqFacts DEF QueueType, PostDone, PostReturn
  <2>6. CacheType'
    BY <1>0, <1>29, SeqFacts DEF CacheType, DrainInv, InCall, InScan, FrameInv,
       Thread, PostDone, PostReturn
  <2>7. EnvType'
    BY <1>0, <1>29 DEF EnvType, PostDone, PostReturn
  <2> QED
    BY <2>1, <2>2, <2>3, <2>4, <2>5, <2>6, <2>7, TypesNext
<1>30. ASSUME NEW s \in Slot, AsyncExit(s) PROVE TypeOK'
  BY <1>30 DEF TypeOK, AsyncPc, Thread, AsyncExit, Goto
<1>31. ASSUME NEW s \in Slot, AsyncWait(s) PROVE TypeOK'
  BY <1>31 DEF TypeOK, AsyncPc, Thread, AsyncWait, Goto
<1>32. ASSUME NEW s \in Slot, AsyncSpuriousWakeup(s) PROVE TypeOK'
  BY <1>32 DEF TypeOK, AsyncPc, Thread, AsyncSpuriousWakeup, Goto
<1>33. ASSUME NEW s \in Slot, AsyncTake(s) PROVE TypeOK'
  <2>1. CtxType'
    BY <1>0, <1>33 DEF CtxType, AsyncTake
  <2>2. TableType'
    BY <1>0, <1>33 DEF TableType, AsyncTake
  <2>3. QueueType'
    BY <1>0, <1>33, SeqFacts DEF QueueType, AsyncTake, IsEmpty
  <2>4. CacheType'
    BY <1>0, <1>33, SeqFacts DEF CacheType, AsyncTake
  <2>5. PcType'
    BY <1>0, <1>33 DEF PcType, AsyncPc, Thread, AsyncTake, Goto
  <2>6. FrameType'
    BY <1>0, <1>33 DEF FrameType, AsyncTake
  <2>7. EnvType'
    BY <1>0, <1>33 DEF EnvType, AsyncTake
  <2> QED
    BY <2>1, <2>2, <2>3, <2>4, <2>5, <2>6, <2>7, TypesNext
<1>34. ASSUME NEW s \in Slot, AsyncCbReturn(s) PROVE TypeOK'
  BY <1>34 DEF TypeOK, AsyncPc, Thread, AsyncCbReturn, Goto
<1>35. ASSUME NEW s \in Slot, AsyncDrain(s) PROVE TypeOK'
  <2>1. CtxType'
    BY <1>0, <1>35 DEF CtxType, AsyncDrain, OptNonBlock
  <2>2. TableType'
    BY <1>0, <1>35 DEF TableType, AsyncDrain, OptNonBlock
  <2>3. QueueType'
    BY <1>0, <1>35 DEF QueueType, AsyncDrain, OptNonBlock
  <2>4. CacheType'
    BY <1>0, <1>35 DEF CacheType, AsyncDrain, OptNonBlock
  <2>5. PcType'
    BY <1>0, <1>35 DEF PcType, AsyncPc, Thread, AsyncDrain, OptNonBlock, Goto
  <2>6. FrameType'
    BY <1>0, <1>35, SeqFacts DEF FrameType, CacheType, AnyOption, AsyncDrain,
       OptNonBlock
  <2>7. EnvType'
    BY <1>0, <1>35 DEF EnvType, AsyncDrain, OptNonBlock
  <2> QED
    BY <2>1, <2>2, <2>3, <2>4, <2>5, <2>6, <2>7, TypesNext
<1>36. ASSUME NEW s \in Slot, AsyncDrained(s) PROVE TypeOK'
  BY <1>36 DEF TypeOK, AsyncPc, Thread, AsyncDrained, Goto
<1>37. CASE UNCHANGED vars
  BY <1>37 DEF TypeOK
<1> QED
  BY <1>1, <1>2, <1>3, <1>4, <1>5, <1>6, <1>7, <1>8, <1>9, <1>10, <1>11, <1>12, <1>13,
     <1>14, <1>15, <1>16, <1>17, <1>18, <1>19, <1>20, <1>21, <1>22, <1>23, <1>24,
     <1>25, <1>26, <1>27, <1>28, <1>29, <1>30, <1>31, <1>32, <1>33, <1>34, <1>35,
     <1>36, <1>37 DEF Next, subEVT, unsubEVT, postEVT, PostScan, ASyncEventThread

-------------------------------------------------------------------------------------
\* The names of sets are expanded from here on.
USE DEF Thread, Slot, InCall, InScan, InUnsub, InCtx, ClientPc, AsyncPc

(* A post that finds room adds to the queue of the slot its index points to, and to *)
(* no other.                                                                        *)
LEMMA QueueShape ==
    ASSUME ConlesAssumption, QueueType, FrameInv, NEW t \in Thread, PostEnqueue(t)
    PROVE  /\ idx[t] \in Slot
           /\ queue' \in [Slot -> Seq(Msg)]
           /\ queue'[idx[t]] # <<>>
           /\ \A s \in Slot : s # idx[t] => queue'[s] = queue[s]
<1>1. idx[t] \in Slot /\ evt[t] \in Msg /\ pc[t] = "post"
  BY DEF PostEnqueue, AtMatch, FrameInv
<1>2. queue' = [queue EXCEPT ![idx[t]] = Append(@, evt[t])]
  BY DEF PostEnqueue
<1>3. /\ Append(queue[idx[t]], evt[t]) \in Seq(Msg)
      /\ Append(queue[idx[t]], evt[t]) # <<>>
  BY <1>1, SeqFacts DEF QueueType
<1> QED
  BY <1>1, <1>2, <1>3 DEF QueueType

(* A postEVT that returns or aborts leaves the locals of every thread in order.     *)
LEMMA ReturnFrame ==
    ASSUME ConlesAssumption, PcType, FrameType, FrameInv, NEW t \in Thread, NEW r,
           PostReturn(t, r), pc[t] \in InCall, UNCHANGED target
    PROVE  FrameInv'
<1>1. CASE pc' = [u \in Thread |-> "dead"]
  BY <1>1 DEF FrameInv
<1>2. CASE pc' = [pc EXCEPT ![t] = ret[t]]
  <2>1. pc'[t] \in {"idle", "cb", "drain"}
    BY <1>2 DEF FrameInv, PcType
  <2>2. \A u \in Thread : u # t =>
            /\ pc'[u] = pc[u] /\ evt'[u] = evt[u] /\ opt'[u] = opt[u]
            /\ ret'[u] = ret[u] /\ idx'[u] = idx[u] /\ res'[u] = res[u]
    BY <1>2 DEF PostReturn, PcType, FrameType
  <2> QED
    BY <2>1, <2>2 DEF FrameInv
<1> QED
  BY <1>1, <1>2 DEF PostReturn, Abort, Goto

(* A postEVT that returns goes on where its caller left off, and touches no other   *)
(* thread; one whose assertion fails stops them all.                                *)
LEMMA PcReturns ==
    ASSUME PcType, FrameType, FrameInv, NEW t \in Thread, NEW r, PostReturn(t, r),
           pc[t] \in InCall
    PROVE  \/ \A u \in Thread : pc'[u] = "dead"
           \/ /\ pc'[t] \in {"idle", "cb", "drain"}
              /\ \A u \in Thread : u # t =>
                    /\ pc'[u] = pc[u] /\ evt'[u] = evt[u] /\ opt'[u] = opt[u]
                    /\ ret'[u] = ret[u] /\ idx'[u] = idx[u] /\ res'[u] = res[u]
<1>1. CASE pc' = [u \in Thread |-> "dead"]
  BY <1>1
<1>2. CASE pc' = [pc EXCEPT ![t] = ret[t]]
  <2>1. pc'[t] \in {"idle", "cb", "drain"}
    BY <1>2 DEF FrameInv, PcType
  <2>2. \A u \in Thread : u # t =>
            /\ pc'[u] = pc[u] /\ evt'[u] = evt[u] /\ opt'[u] = opt[u]
            /\ ret'[u] = ret[u] /\ idx'[u] = idx[u] /\ res'[u] = res[u]
    BY <1>2 DEF PostReturn, PcType, FrameType
  <2> QED
    BY <2>1, <2>2
<1> QED
  BY <1>1, <1>2 DEF PostReturn, Abort, Goto

(* subEVT fills a free slot, whose thread does not run and whose queue is empty,    *)
(* with its stop flag cleared, and touches no other slot.                           *)
LEMMA FillShape ==
    ASSUME ConlesAssumption, TableType, QueueType, CacheType, PcType, FreeSlotIsQuiet,
           NEW c \in Client, SubInstall(c) \/ SubMallocFails(c)
    PROVE  /\ UNCHANGED <<queue, cache, frameVars, target>>
           /\ pc'[c] = "idle"
           /\ \A t \in Thread : t # c => pc'[t] = pc[t]
           /\ \E r \in Slot :
                 /\ cbProc[r] = None
                 /\ cbProc'[r] # None
                 /\ pc[r] \in {"none", "dead"}
                 /\ ~shouldExit'[r]
                 /\ accepted'[r] = <<>> /\ handled'[r] = <<>> /\ queue[r] = <<>>
                 /\ \A s \in Slot : s # r =>
                       /\ cbProc'[s] = cbProc[s] /\ evtIDs'[s] = evtIDs[s]
                       /\ shouldExit'[s] = shouldExit[s]
                       /\ accepted'[s] = accepted[s] /\ handled'[s] = handled[s]
<1>1. PICK r \in Slot, a \in SubArgs, ids \in {None} \cup SUBSET EvtID :
          IsFree(r) /\ FillSlot(r, a.key, ids)
  BY DEF SubInstall, SubMallocFails, IsFirstFree, ConlesAssumption
<1>2. pc' = [pc EXCEPT ![c] = "idle"] /\ UNCHANGED <<frameVars, target>>
  BY DEF SubInstall, SubMallocFails, Goto
<1>3. a.key \in Key /\ a.key # None
  BY <1>1 DEF ConlesAssumption
<1>4. pc[r] \in {"none", "dead"} /\ queue[r] = <<>> /\ cache[r] = <<>>
  BY <1>1 DEF FreeSlotIsQuiet
<1>5. queue' = queue /\ cache' = cache
  BY <1>1, <1>4 DEF FillSlot, QueueType, CacheType
<1>6. /\ cbProc[r] = None
      /\ cbProc'[r] # None
      /\ ~shouldExit'[r]
      /\ accepted'[r] = <<>> /\ handled'[r] = <<>>
      /\ \A s \in Slot : s # r =>
             /\ cbProc'[s] = cbProc[s] /\ evtIDs'[s] = evtIDs[s]
             /\ shouldExit'[s] = shouldExit[s]
             /\ accepted'[s] = accepted[s] /\ handled'[s] = handled[s]
  BY <1>1, <1>3 DEF FillSlot, IsFree, TableType, QueueType
<1>7. pc'[c] = "idle" /\ \A t \in Thread : t # c => pc'[t] = pc[t]
  BY <1>2 DEF PcType
<1> QED
  BY <1>2, <1>4, <1>5, <1>6, <1>7

(* unsubEVT gives back the slot its index points to only when that slot's thread    *)
(* never started or has ended; no other slot changes.                               *)
LEMMA ClearShape ==
    ASSUME ConlesAssumption, TableType, PcType, FrameType, FrameInv,
           NEW c \in Client, UnsubClear(c) \/ UnsubJoin(c)
    PROVE  /\ idx[c] \in Slot
           /\ pc[idx[c]] \in {"none", "exited"}
           /\ pc'[idx[c]] = "none"
           /\ pc'[c] \in {"unsub", "idle"}
           /\ \A t \in Thread : t \notin {c, idx[c]} => pc'[t] = pc[t] /\ idx'[t] = idx[t]
           /\ UNCHANGED slotVars
           /\ \A s \in Slot : s # idx[c] => cbProc'[s] = cbProc[s] /\ evtIDs'[s] = evtIDs[s]
           /\ \/ cbProc'[idx[c]] = None /\ evtIDs'[idx[c]] = None
              \/ UNCHANGED tableVars /\ evtIDs[idx[c]] = None
<1>1. idx[c] \in Slot /\ c \notin Slot /\ UNCHANGED slotVars
  BY DEF UnsubClear, UnsubJoin, FrameInv, ConlesAssumption
<1>2. /\ pc[idx[c]] \in {"none", "exited"}
      /\ pc'[idx[c]] = "none"
      /\ pc'[c] \in {"unsub", "idle"}
      /\ \A t \in Thread : t \notin {c, idx[c]} => pc'[t] = pc[t]
  BY <1>1 DEF UnsubClear, UnsubJoin, CanJoin, HasASyncThread, Goto, AfterClear, PcType
<1>3. /\ \A t \in Thread : t # c => idx'[t] = idx[t]
      /\ \A s \in Slot : s # idx[c] => cbProc'[s] = cbProc[s] /\ evtIDs'[s] = evtIDs[s]
      /\ \/ cbProc'[idx[c]] = None /\ evtIDs'[idx[c]] = None
         \/ UNCHANGED tableVars /\ evtIDs[idx[c]] = None
  <2>1. ClearSlot(c, idx[c])
    BY DEF UnsubClear, UnsubJoin
  <2> QED
    BY <1>1, <2>1 DEF ClearSlot, UnsubReturn, TableType, FrameType
<1> QED
  BY <1>1, <1>2, <1>3

(* Every step keeps mutual exclusion in the context mutex: a thread inside a locked *)
(* region owns it, and it has no owner exactly when its depth is 0.                 *)
LEMMA CtxStep ==
  ASSUME ConlesAssumption, CtxType, TableType, QueueType, CacheType, PcType,
         FrameType, EnvType, CtxMutexHeld, FrameInv, [Next]_vars
  PROVE  CtxMutexHeld'
<1>1. ASSUME NEW c \in Client, SubLock(c) PROVE CtxMutexHeld'
  BY <1>1 DEF CtxMutexHeld, CtxType, SubLock, LockCtx, CanLock, Goto
<1>2. ASSUME NEW c \in Client, SubReject(c) PROVE CtxMutexHeld'
  BY <1>2 DEF PcType, CtxMutexHeld, SubReject, UnlockCtx, Goto
<1>3. ASSUME NEW c \in Client, SubNoFreeSlot(c) PROVE CtxMutexHeld'
  BY <1>3 DEF CtxMutexHeld, CtxType, SubNoFreeSlot, LockCtx, Goto
<1>4. ASSUME NEW c \in Client, SubInstall(c) PROVE CtxMutexHeld'
  BY <1>4 DEF PcType, CtxMutexHeld, SubInstall, FillSlot, IsFirstFree, IsFree,
     UnlockCtx, Goto
<1>5. ASSUME NEW c \in Client, SubMallocFails(c) PROVE CtxMutexHeld'
  BY <1>5 DEF PcType, CtxMutexHeld, SubMallocFails, FillSlot, IsFirstFree, IsFree,
     UnlockCtx, Goto
<1>6. ASSUME NEW c \in Client, SubCallocFails(c) PROVE CtxMutexHeld'
  BY <1>6 DEF CtxMutexHeld, SubCallocFails, Abort
<1>7. ASSUME NEW c \in Client, NEW k \in Key \cup {ALL}, UnsubLock(c, k)
    PROVE CtxMutexHeld'
  BY <1>7 DEF CtxMutexHeld, CtxType, UnsubLock, LockCtx, CanLock, Goto
<1>8. ASSUME NEW c \in Client, UnsubNoTable(c) PROVE CtxMutexHeld'
  BY <1>8 DEF PcType, CtxMutexHeld, UnsubNoTable, UnsubReturn, UnlockCtx, Goto
<1>9. ASSUME NEW c \in Client, UnsubSkip(c) PROVE CtxMutexHeld'
  BY <1>9 DEF CtxMutexHeld, UnsubSkip
<1>10. ASSUME NEW c \in Client, UnsubStop(c) PROVE CtxMutexHeld'
  BY <1>10 DEF CtxMutexHeld, UnsubStop, Goto
<1>11. ASSUME NEW c \in Client, UnsubSignal(c) PROVE CtxMutexHeld'
  BY <1>11 DEF PcType, CtxMutexHeld, UnsubSignal, SignalAndGoto
<1>12. ASSUME NEW c \in Client, UnsubClear(c) PROVE CtxMutexHeld'
  BY <1>12 DEF PcType, CtxMutexHeld, CtxType, UnsubClear, ClearSlot, UnsubReturn,
     UnlockCtx, AfterClear, Goto
<1>13. ASSUME NEW c \in Client, UnsubJoin(c) PROVE CtxMutexHeld'
  BY <1>13 DEF PcType, CtxMutexHeld, CtxType, UnsubJoin, ClearSlot, UnsubReturn,
     UnlockCtx, AfterClear
<1>14. ASSUME NEW c \in Client, UnsubDone(c) PROVE CtxMutexHeld'
  BY <1>14 DEF PcType, CtxMutexHeld, UnsubDone, UnsubReturn, UnlockCtx, Goto
<1>15. ASSUME NEW t \in Thread, NEW m \in Msg, NEW o \in Options,
    PostCall(t, m, o) PROVE CtxMutexHeld'
  BY <1>15 DEF CtxMutexHeld, PostCall, IsNextPost, Goto
<1>16. ASSUME NEW t \in Thread, PostLock(t) PROVE CtxMutexHeld'
  BY <1>16 DEF CtxMutexHeld, CtxType, PostLock, CanLock, LockCtx, Goto
<1>17. ASSUME NEW t \in Thread, PostNoTable(t) PROVE CtxMutexHeld'
  BY <1>17 DEF PcType, CtxMutexHeld, FrameInv, PostNoTable, PostReturn, Abort, Goto
<1>18. ASSUME NEW t \in Thread, PostLockTimeout(t) PROVE CtxMutexHeld'
  BY <1>18 DEF PcType, CtxMutexHeld, FrameInv, PostLockTimeout, PostReturn, Abort,
     Goto
<1>19. ASSUME NEW t \in Thread, postEVT_ASyncThreadCached(t) PROVE CtxMutexHeld'
  BY <1>19 DEF PcType, CtxMutexHeld, FrameInv, postEVT_ASyncThreadCached, PostReturn,
     Abort, Goto
<1>20. ASSUME NEW t \in Thread, PostSkip(t) PROVE CtxMutexHeld'
  BY <1>20 DEF CtxMutexHeld, PostSkip, NextSlot
<1>21. ASSUME NEW t \in Thread, PostSync(t) PROVE CtxMutexHeld'
  BY <1>21 DEF CtxMutexHeld, PostSync, AtMatch, Goto
<1>22. ASSUME NEW t \in Thread, PostSyncReturn(t) PROVE CtxMutexHeld'
  BY <1>22 DEF CtxMutexHeld, PostSyncReturn, NextSlot, Goto
<1>23. ASSUME NEW t \in Thread, PostEnqueue(t) PROVE CtxMutexHeld'
  BY <1>23 DEF PcType, CtxMutexHeld, PostEnqueue, AtMatch
<1>24. ASSUME NEW t \in Thread, PostSignal(t) PROVE CtxMutexHeld'
  BY <1>24 DEF PcType, CtxMutexHeld, PostSignal, SignalAndGoto, NextSlot
<1>25. ASSUME NEW t \in Thread, PostCreateFails(t) PROVE CtxMutexHeld'
  BY <1>25 DEF CtxMutexHeld, PostCreateFails, Abort
<1>26. ASSUME NEW t \in Thread, PostFullNonBlock(t) PROVE CtxMutexHeld'
  BY <1>26 DEF CtxMutexHeld, PostFullNonBlock, AtFullQueue, NextSlot
<1>27. ASSUME NEW t \in Thread, PostFullTimeout(t) PROVE CtxMutexHeld'
  BY <1>27 DEF CtxMutexHeld, PostFullTimeout, AtFullQueue, Abort
<1>28. ASSUME NEW t \in Thread, PostFullRetry(t) PROVE CtxMutexHeld'
  BY <1>28 DEF PcType, CtxMutexHeld, PostFullRetry, AtFullQueue, AtMatch,
     SignalAndGoto
<1>29. ASSUME NEW t \in Thread, PostDone(t) PROVE CtxMutexHeld'
  BY <1>29 DEF PcType, CtxMutexHeld, FrameInv, PostDone, UnlockCtx, PostReturn, Abort,
     Goto
<1>30. ASSUME NEW s \in Slot, AsyncExit(s) PROVE CtxMutexHeld'
  BY <1>30 DEF CtxMutexHeld, AsyncExit, Goto
<1>31. ASSUME NEW s \in Slot, AsyncWait(s) PROVE CtxMutexHeld'
  BY <1>31 DEF CtxMutexHeld, AsyncWait, Goto
<1>32. ASSUME NEW s \in Slot, AsyncSpuriousWakeup(s) PROVE CtxMutexHeld'
  BY <1>32 DEF CtxMutexHeld, AsyncSpuriousWakeup, Goto
<1>33. ASSUME NEW s \in Slot, AsyncTake(s) PROVE CtxMutexHeld'
  BY <1>33 DEF CtxMutexHeld, AsyncTake, Goto
<1>34. ASSUME NEW s \in Slot, AsyncCbReturn(s) PROVE CtxMutexHeld'
  BY <1>34 DEF CtxMutexHeld, AsyncCbReturn, Goto
<1>35. ASSUME NEW s \in Slot, AsyncDrain(s) PROVE CtxMutexHeld'
  BY <1>35 DEF CtxMutexHeld, AsyncDrain, OptNonBlock, Goto
<1>36. ASSUME NEW s \in Slot, AsyncDrained(s) PROVE CtxMutexHeld'
  BY <1>36 DEF CtxMutexHeld, AsyncDrained, Goto
<1>37. CASE UNCHANGED vars
  BY <1>37 DEF CtxMutexHeld
<1> QED
  BY <1>1, <1>2, <1>3, <1>4, <1>5, <1>6, <1>7, <1>8, <1>9, <1>10, <1>11, <1>12, <1>13,
     <1>14, <1>15, <1>16, <1>17, <1>18, <1>19, <1>20, <1>21, <1>22, <1>23, <1>24,
     <1>25, <1>26, <1>27, <1>28, <1>29, <1>30, <1>31, <1>32, <1>33, <1>34, <1>35,
     <1>36, <1>37 DEF Next, subEVT, unsubEVT, postEVT, PostScan, ASyncEventThread

(* Every step keeps the locals of the calls in order.                               *)
LEMMA FrameStep ==
  ASSUME ConlesAssumption, CtxType, TableType, QueueType, CacheType, PcType,
         FrameType, EnvType, FrameInv, CtxMutexHeld, [Next]_vars
  PROVE  FrameInv'
<1>1. ASSUME NEW c \in Client, SubLock(c) PROVE FrameInv'
  BY <1>1 DEF FrameInv, SubLock, Goto
<1>2. ASSUME NEW c \in Client, SubReject(c) PROVE FrameInv'
  BY <1>2 DEF FrameInv, SubReject, Goto
<1>3. ASSUME NEW c \in Client, SubNoFreeSlot(c) PROVE FrameInv'
  BY <1>3 DEF FrameInv, SubNoFreeSlot, Goto
<1>4. ASSUME NEW c \in Client, SubInstall(c) PROVE FrameInv'
  BY <1>4 DEF FrameInv, SubInstall, FillSlot, IsFirstFree, IsFree, Goto
<1>5. ASSUME NEW c \in Client, SubMallocFails(c) PROVE FrameInv'
  BY <1>5 DEF FrameInv, SubMallocFails, FillSlot, IsFirstFree, IsFree, Goto
<1>6. ASSUME NEW c \in Client, SubCallocFails(c) PROVE FrameInv'
  BY <1>6 DEF FrameInv, SubCallocFails, Abort
<1>7. ASSUME NEW c \in Client, NEW k \in Key \cup {ALL}, UnsubLock(c, k)
    PROVE FrameInv'
  BY <1>7 DEF FrameInv, FrameType, EnvType, UnsubLock, Goto
<1>8. ASSUME NEW c \in Client, UnsubNoTable(c) PROVE FrameInv'
  BY <1>8 DEF PcType, FrameInv, UnsubNoTable, UnsubReturn, Goto
<1>9. ASSUME NEW c \in Client, UnsubSkip(c) PROVE FrameInv'
  BY <1>9 DEF FrameInv, UnsubSkip
<1>10. ASSUME NEW c \in Client, UnsubStop(c) PROVE FrameInv'
  BY <1>10 DEF FrameInv, UnsubStop, Goto
<1>11. ASSUME NEW c \in Client, UnsubSignal(c) PROVE FrameInv'
  BY <1>11 DEF PcType, FrameInv, UnsubSignal, SignalAndGoto
<1>12. ASSUME NEW c \in Client, UnsubClear(c) PROVE FrameInv'
  BY <1>12 DEF PcType, FrameInv, FrameType, EnvType, UnsubClear, ClearSlot,
     UnsubReturn, AfterClear, Goto
<1>13. ASSUME NEW c \in Client, UnsubJoin(c) PROVE FrameInv'
  BY <1>13 DEF PcType, FrameInv, FrameType, EnvType, UnsubJoin, ClearSlot,
     UnsubReturn, AfterClear
<1>14. ASSUME NEW c \in Client, UnsubDone(c) PROVE FrameInv'
  BY <1>14 DEF PcType, FrameInv, UnsubDone, UnsubReturn, Goto
<1>15. ASSUME NEW t \in Thread, NEW m \in Msg, NEW o \in Options,
    PostCall(t, m, o) PROVE FrameInv'
  BY <1>15 DEF FrameInv, FrameType, PostCall, IsNextPost, Goto
<1>16. ASSUME NEW t \in Thread, PostLock(t) PROVE FrameInv'
  BY <1>16 DEF FrameInv, FrameType, PostLock, Goto
<1>17. ASSUME NEW t \in Thread, PostNoTable(t) PROVE FrameInv'
  BY <1>17, ReturnFrame DEF PostNoTable
<1>18. ASSUME NEW t \in Thread, PostLockTimeout(t) PROVE FrameInv'
  BY <1>18, ReturnFrame DEF PostLockTimeout
<1>19. ASSUME NEW t \in Thread, postEVT_ASyncThreadCached(t) PROVE FrameInv'
  BY <1>19, ReturnFrame DEF postEVT_ASyncThreadCached
<1>20. ASSUME NEW t \in Thread, PostSkip(t) PROVE FrameInv'
  BY <1>20 DEF FrameInv, PostSkip, NextSlot
<1>21. ASSUME NEW t \in Thread, PostSync(t) PROVE FrameInv'
  BY <1>21 DEF FrameInv, PostSync, AtMatch, Goto
<1>22. ASSUME NEW t \in Thread, PostSyncReturn(t) PROVE FrameInv'
  BY <1>22 DEF PcType, FrameInv, PostSyncReturn, NextSlot, Goto
<1>23. ASSUME NEW t \in Thread, PostEnqueue(t) PROVE FrameInv'
  BY <1>23 DEF PcType, FrameInv, FrameType, PostEnqueue, AtMatch
<1>24. ASSUME NEW t \in Thread, PostSignal(t) PROVE FrameInv'
  BY <1>24 DEF PcType, FrameInv, PostSignal, SignalAndGoto, NextSlot
<1>25. ASSUME NEW t \in Thread, PostCreateFails(t) PROVE FrameInv'
  BY <1>25 DEF FrameInv, PostCreateFails, Abort
<1>26. ASSUME NEW t \in Thread, PostFullNonBlock(t) PROVE FrameInv'
  BY <1>26 DEF FrameInv, PostFullNonBlock, AtFullQueue, AtMatch, NextSlot
<1>27. ASSUME NEW t \in Thread, PostFullTimeout(t) PROVE FrameInv'
  BY <1>27 DEF FrameInv, PostFullTimeout, AtFullQueue, Abort
<1>28. ASSUME NEW t \in Thread, PostFullRetry(t) PROVE FrameInv'
  BY <1>28 DEF PcType, FrameInv, PostFullRetry, AtFullQueue, AtMatch, SignalAndGoto
<1>29. ASSUME NEW t \in Thread, PostDone(t) PROVE FrameInv'
  BY <1>29, ReturnFrame DEF PostDone
<1>30. ASSUME NEW s \in Slot, AsyncExit(s) PROVE FrameInv'
  BY <1>30 DEF FrameInv, AsyncExit, Goto
<1>31. ASSUME NEW s \in Slot, AsyncWait(s) PROVE FrameInv'
  BY <1>31 DEF FrameInv, AsyncWait, Goto
<1>32. ASSUME NEW s \in Slot, AsyncSpuriousWakeup(s) PROVE FrameInv'
  BY <1>32 DEF FrameInv, AsyncSpuriousWakeup, Goto
<1>33. ASSUME NEW s \in Slot, AsyncTake(s) PROVE FrameInv'
  BY <1>33 DEF FrameInv, AsyncTake, Goto
<1>34. ASSUME NEW s \in Slot, AsyncCbReturn(s) PROVE FrameInv'
  BY <1>34 DEF FrameInv, AsyncCbReturn, Goto
<1>35. ASSUME NEW s \in Slot, AsyncDrain(s) PROVE FrameInv'
  <2>1. Head(cache[s]) \in Msg
    BY <1>35, SeqFacts DEF AsyncDrain, CacheType
  <2>2. OptNonBlock \in AnyOption
    BY DEF OptNonBlock, AnyOption
  <2> QED
    BY <1>35, <2>1, <2>2 DEF FrameInv, FrameType, AsyncDrain, Goto
<1>36. ASSUME NEW s \in Slot, AsyncDrained(s) PROVE FrameInv'
  BY <1>36 DEF FrameInv, AsyncDrained, Goto
<1>37. CASE UNCHANGED vars
  BY <1>37 DEF FrameInv
<1> QED
  BY <1>1, <1>2, <1>3, <1>4, <1>5, <1>6, <1>7, <1>8, <1>9, <1>10, <1>11, <1>12, <1>13,
     <1>14, <1>15, <1>16, <1>17, <1>18, <1>19, <1>20, <1>21, <1>22, <1>23, <1>24,
     <1>25, <1>26, <1>27, <1>28, <1>29, <1>30, <1>31, <1>32, <1>33, <1>34, <1>35,
     <1>36, <1>37 DEF Next, subEVT, unsubEVT, postEVT, PostScan, ASyncEventThread

(* Every step keeps the cached event that is being retried in its cache: only the   *)
(* thread itself takes from it, after the retry.                                    *)
LEMMA DrainStep ==
  ASSUME ConlesAssumption, CtxType, TableType, QueueType, CacheType, PcType,
         FrameType, EnvType, DrainInv, FreeSlotIsQuiet, FrameInv, [Next]_vars
  PROVE  DrainInv'
<1>1. ASSUME NEW c \in Client, SubLock(c) PROVE DrainInv'
  BY <1>1 DEF DrainInv, FreeSlotIsQuiet, SubLock, Goto
<1>2. ASSUME NEW c \in Client, SubReject(c) PROVE DrainInv'
  BY <1>2 DEF DrainInv, FreeSlotIsQuiet, SubReject, Goto
<1>3. ASSUME NEW c \in Client, SubNoFreeSlot(c) PROVE DrainInv'
  BY <1>3 DEF DrainInv, FreeSlotIsQuiet, SubNoFreeSlot, Goto
<1>4. ASSUME NEW c \in Client, SubInstall(c) PROVE DrainInv'
  BY <1>4, FillShape DEF DrainInv
<1>5. ASSUME NEW c \in Client, SubMallocFails(c) PROVE DrainInv'
  BY <1>5, FillShape DEF DrainInv
<1>6. ASSUME NEW c \in Client, SubCallocFails(c) PROVE DrainInv'
  BY <1>6 DEF DrainInv, FreeSlotIsQuiet, SubCallocFails, Abort
<1>7. ASSUME NEW c \in Client, NEW k \in Key \cup {ALL}, UnsubLock(c, k)
    PROVE DrainInv'
  BY <1>7 DEF DrainInv, FreeSlotIsQuiet, UnsubLock, Goto
<1>8. ASSUME NEW c \in Client, UnsubNoTable(c) PROVE DrainInv'
  BY <1>8 DEF DrainInv, FreeSlotIsQuiet, UnsubNoTable, Goto
<1>9. ASSUME NEW c \in Client, UnsubSkip(c) PROVE DrainInv'
  BY <1>9 DEF DrainInv, FreeSlotIsQuiet, UnsubSkip
<1>10. ASSUME NEW c \in Client, UnsubStop(c) PROVE DrainInv'
  BY <1>10 DEF DrainInv, FreeSlotIsQuiet, UnsubStop, Goto
<1>11. ASSUME NEW c \in Client, UnsubSignal(c) PROVE DrainInv'
  BY <1>11 DEF PcType, DrainInv, FreeSlotIsQuiet, UnsubSignal, SignalAndGoto
<1>12. ASSUME NEW c \in Client, UnsubClear(c) PROVE DrainInv'
  BY <1>12 DEF DrainInv, FreeSlotIsQuiet, UnsubClear, Goto
<1>13. ASSUME NEW c \in Client, UnsubJoin(c) PROVE DrainInv'
  BY <1>13 DEF PcType, DrainInv, FreeSlotIsQuiet, UnsubJoin
<1>14. ASSUME NEW c \in Client, UnsubDone(c) PROVE DrainInv'
  BY <1>14 DEF DrainInv, FreeSlotIsQuiet, UnsubDone, Goto
<1>15. ASSUME NEW t \in Thread, NEW m \in Msg, NEW o \in Options,
    PostCall(t, m, o) PROVE DrainInv'
  BY <1>15 DEF DrainInv, FreeSlotIsQuiet, FrameType, PostCall, IsNextPost, Goto
<1>16. ASSUME NEW t \in Thread, PostLock(t) PROVE DrainInv'
  BY <1>16 DEF DrainInv, FreeSlotIsQuiet, PostLock, Goto
<1>17. ASSUME NEW t \in Thread, PostNoTable(t) PROVE DrainInv'
  BY <1>17, PcReturns DEF DrainInv, PostNoTable
<1>18. ASSUME NEW t \in Thread, PostLockTimeout(t) PROVE DrainInv'
  BY <1>18, PcReturns DEF DrainInv, PostLockTimeout
<1>19. ASSUME NEW t \in Thread, postEVT_ASyncThreadCached(t) PROVE DrainInv'
  <2>1. cache'[t] # <<>> /\ \A s \in Slot : s # t => cache'[s] = cache[s]
    BY <1>19, CacheShape
  <2>2. pc[t] \in InCall
    BY <1>19 DEF postEVT_ASyncThreadCached
  <2>3. PICK r : PostReturn(t, r)
    BY <1>19 DEF postEVT_ASyncThreadCached
  <2>4. \/ \A u \in Thread : pc'[u] = "dead"
        \/ \A u \in Thread : u # t => pc'[u] = pc[u] /\ ret'[u] = ret[u]
    BY <2>2, <2>3, PcReturns
  <2>5. \A s \in Slot : s # t /\ pc[s] \in InCall /\ ret[s] = "drain" => cache'[s] # <<>>
    BY <2>1 DEF DrainInv
  <2> QED
    BY <2>1, <2>4, <2>5 DEF DrainInv
<1>20. ASSUME NEW t \in Thread, PostSkip(t) PROVE DrainInv'
  BY <1>20 DEF DrainInv, FreeSlotIsQuiet, PostSkip, NextSlot
<1>21. ASSUME NEW t \in Thread, PostSync(t) PROVE DrainInv'
  BY <1>21 DEF DrainInv, FreeSlotIsQuiet, PostSync, AtMatch, Goto
<1>22. ASSUME NEW t \in Thread, PostSyncReturn(t) PROVE DrainInv'
  BY <1>22 DEF DrainInv, FreeSlotIsQuiet, PostSyncReturn, NextSlot, Goto
<1>23. ASSUME NEW t \in Thread, PostEnqueue(t) PROVE DrainInv'
  BY <1>23 DEF PcType, DrainInv, FreeSlotIsQuiet, PostEnqueue, AtMatch
<1>24. ASSUME NEW t \in Thread, PostSignal(t) PROVE DrainInv'
  BY <1>24 DEF PcType, DrainInv, FreeSlotIsQuiet, PostSignal, SignalAndGoto, NextSlot
<1>25. ASSUME NEW t \in Thread, PostCreateFails(t) PROVE DrainInv'
  BY <1>25 DEF DrainInv, FreeSlotIsQuiet, PostCreateFails, Abort
<1>26. ASSUME NEW t \in Thread, PostFullNonBlock(t) PROVE DrainInv'
  BY <1>26 DEF DrainInv, FreeSlotIsQuiet, PostFullNonBlock, AtFullQueue, NextSlot
<1>27. ASSUME NEW t \in Thread, PostFullTimeout(t) PROVE DrainInv'
  BY <1>27 DEF DrainInv, FreeSlotIsQuiet, PostFullTimeout, AtFullQueue, Abort
<1>28. ASSUME NEW t \in Thread, PostFullRetry(t) PROVE DrainInv'
  BY <1>28 DEF PcType, DrainInv, FreeSlotIsQuiet, PostFullRetry, AtFullQueue, AtMatch,
     SignalAndGoto
<1>29. ASSUME NEW t \in Thread, PostDone(t) PROVE DrainInv'
  <2>1. \A s \in Slot : s # t => cache'[s] = cache[s]
    BY <1>29 DEF PostDone
  <2> QED
    BY <1>29, <2>1, PcReturns DEF DrainInv, PostDone
<1>30. ASSUME NEW s \in Slot, AsyncExit(s) PROVE DrainInv'
  BY <1>30 DEF DrainInv, FreeSlotIsQuiet, AsyncExit, Goto
<1>31. ASSUME NEW s \in Slot, AsyncWait(s) PROVE DrainInv'
  BY <1>31 DEF DrainInv, FreeSlotIsQuiet, AsyncWait, Goto
<1>32. ASSUME NEW s \in Slot, AsyncSpuriousWakeup(s) PROVE DrainInv'
  BY <1>32 DEF DrainInv, FreeSlotIsQuiet, AsyncSpuriousWakeup, Goto
<1>33. ASSUME NEW s \in Slot, AsyncTake(s) PROVE DrainInv'
  BY <1>33 DEF DrainInv, FreeSlotIsQuiet, AsyncTake, Goto
<1>34. ASSUME NEW s \in Slot, AsyncCbReturn(s) PROVE DrainInv'
  BY <1>34 DEF DrainInv, FreeSlotIsQuiet, AsyncCbReturn, Goto
<1>35. ASSUME NEW s \in Slot, AsyncDrain(s) PROVE DrainInv'
  BY <1>35 DEF DrainInv, FreeSlotIsQuiet, AsyncDrain, OptNonBlock, Goto
<1>36. ASSUME NEW s \in Slot, AsyncDrained(s) PROVE DrainInv'
  BY <1>36 DEF DrainInv, FreeSlotIsQuiet, AsyncDrained, Goto
<1>37. CASE UNCHANGED vars
  BY <1>37 DEF DrainInv, FreeSlotIsQuiet
<1> QED
  BY <1>1, <1>2, <1>3, <1>4, <1>5, <1>6, <1>7, <1>8, <1>9, <1>10, <1>11, <1>12, <1>13,
     <1>14, <1>15, <1>16, <1>17, <1>18, <1>19, <1>20, <1>21, <1>22, <1>23, <1>24,
     <1>25, <1>26, <1>27, <1>28, <1>29, <1>30, <1>31, <1>32, <1>33, <1>34, <1>35,
     <1>36, <1>37 DEF Next, subEVT, unsubEVT, postEVT, PostScan, ASyncEventThread

(* Every step keeps what is left behind by a slot's thread. A thread ends only when *)
(* it sees its stop flag and an empty queue together, and goes back to the top of   *)
(* its loop only with an empty cache or a new event.                                *)
LEMMA LifeStep ==
  ASSUME ConlesAssumption, CtxType, TableType, QueueType, CacheType, PcType,
         FrameType, EnvType, LifeInv, StopInv, CtxMutexHeld, FrameInv,
         FreeSlotIsQuiet, [Next]_vars
  PROVE  LifeInv'
<1>1. ASSUME NEW c \in Client, SubLock(c) PROVE LifeInv'
  BY <1>1 DEF LifeInv, SubLock, Goto
<1>2. ASSUME NEW c \in Client, SubReject(c) PROVE LifeInv'
  BY <1>2 DEF LifeInv, SubReject, Goto
<1>3. ASSUME NEW c \in Client, SubNoFreeSlot(c) PROVE LifeInv'
  BY <1>3 DEF LifeInv, SubNoFreeSlot, Goto
<1>4. ASSUME NEW c \in Client, SubInstall(c) PROVE LifeInv'
  BY <1>4, FillShape DEF LifeInv
<1>5. ASSUME NEW c \in Client, SubMallocFails(c) PROVE LifeInv'
  BY <1>5, FillShape DEF LifeInv
<1>6. ASSUME NEW c \in Client, SubCallocFails(c) PROVE LifeInv'
  BY <1>6 DEF LifeInv, SubCallocFails, Abort
<1>7. ASSUME NEW c \in Client, NEW k \in Key \cup {ALL}, UnsubLock(c, k)
    PROVE LifeInv'
  BY <1>7 DEF LifeInv, UnsubLock, Goto
<1>8. ASSUME NEW c \in Client, UnsubNoTable(c) PROVE LifeInv'
  BY <1>8 DEF LifeInv, UnsubNoTable, Goto
<1>9. ASSUME NEW c \in Client, UnsubSkip(c) PROVE LifeInv'
  BY <1>9 DEF LifeInv, UnsubSkip
<1>10. ASSUME NEW c \in Client, UnsubStop(c) PROVE LifeInv'
  BY <1>10 DEF LifeInv, UnsubStop, Goto
<1>11. ASSUME NEW c \in Client, UnsubSignal(c) PROVE LifeInv'
  BY <1>11 DEF PcType, LifeInv, UnsubSignal, SignalAndGoto
<1>12. ASSUME NEW c \in Client, UnsubClear(c) PROVE LifeInv'
  BY <1>12, ClearShape DEF LifeInv
<1>13. ASSUME NEW c \in Client, UnsubJoin(c) PROVE LifeInv'
  BY <1>13, ClearShape DEF LifeInv
<1>14. ASSUME NEW c \in Client, UnsubDone(c) PROVE LifeInv'
  BY <1>14 DEF LifeInv, UnsubDone, Goto
<1>15. ASSUME NEW t \in Thread, NEW m \in Msg, NEW o \in Options,
    PostCall(t, m, o) PROVE LifeInv'
  BY <1>15 DEF LifeInv, PostCall, IsNextPost, Goto
<1>16. ASSUME NEW t \in Thread, PostLock(t) PROVE LifeInv'
  BY <1>16 DEF LifeInv, PostLock, Goto
<1>17. ASSUME NEW t \in Thread, PostNoTable(t) PROVE LifeInv'
  BY <1>17, PcReturns DEF LifeInv, PostNoTable
<1>18. ASSUME NEW t \in Thread, PostLockTimeout(t) PROVE LifeInv'
  BY <1>18, PcReturns DEF LifeInv, PostLockTimeout
<1>19. ASSUME NEW t \in Thread, postEVT_ASyncThreadCached(t) PROVE LifeInv'
  BY <1>19, PcReturns, CacheShape DEF LifeInv, postEVT_ASyncThreadCached
<1>20. ASSUME NEW t \in Thread, PostSkip(t) PROVE LifeInv'
  BY <1>20 DEF LifeInv, PostSkip, NextSlot
<1>21. ASSUME NEW t \in Thread, PostSync(t) PROVE LifeInv'
  BY <1>21 DEF LifeInv, PostSync, Goto
<1>22. ASSUME NEW t \in Thread, PostSyncReturn(t) PROVE LifeInv'
  BY <1>22 DEF LifeInv, PostSyncReturn, NextSlot, Goto
<1>23. ASSUME NEW t \in Thread, PostEnqueue(t) PROVE LifeInv'
  <2>1. pc[idx[t]] # "exited"
    <3>1. SUFFICES ASSUME pc[idx[t]] = "exited" PROVE FALSE
      OBVIOUS
    <3>2. /\ idx[t] \in Slot /\ pc[t] = "post"
          /\ cbProc[idx[t]] # None /\ evtIDs[idx[t]] # None
      BY <1>23 DEF PostEnqueue, AtMatch, IsMatch
    <3>3. PICK c \in Client : pc[c] \in {"unsubSignal", "unsubJoin"}
      BY <3>1, <3>2 DEF LifeInv, StopInv
    <3> QED
      BY <3>2, <3>3 DEF CtxMutexHeld
  <2>2. /\ \A s \in Slot : s # idx[t] => queue'[s] = queue[s]
        /\ queue'[idx[t]] # <<>>
        /\ UNCHANGED <<cache, shouldExit>>
    BY <1>23, QueueShape DEF PostEnqueue
  <2>3. \A s \in Slot :
           /\ pc'[s] \notin {"none", "exited"} \/ pc'[s] = pc[s]
           /\ pc'[s] = "top" => pc[s] \in {"none", "top"}
           /\ pc'[s] = "wait" => pc[s] = "wait"
    BY <1>23 DEF PostEnqueue, PcType
  <2>4. pc'[idx[t]] # "none" 
    BY <1>23, QueueShape DEF PostEnqueue, PcType
  <2>5. ASSUME NEW s \in Slot, s = idx[t]
        PROVE  /\ pc'[s] = "top" => queue'[s] # <<>> \/ cache'[s] = <<>>
               /\ pc'[s] = "wait" => cache'[s] = <<>>
               /\ pc'[s] # "exited" /\ pc'[s] # "none"
    BY <2>1, <2>2, <2>3, <2>4, <2>5 DEF LifeInv
  <2>6. ASSUME NEW s \in Slot, s # idx[t]
        PROVE  /\ pc'[s] \in {"none", "exited", "wait", "top"} => pc'[s] = pc[s]
               /\ queue'[s] = queue[s]
    BY <1>23, <2>2, <2>6 DEF PostEnqueue, PcType
  <2> QED
    BY <2>2, <2>5, <2>6 DEF LifeInv
<1>24. ASSUME NEW t \in Thread, PostSignal(t) PROVE LifeInv'
  BY <1>24 DEF PcType, LifeInv, PostSignal, SignalAndGoto, NextSlot
<1>25. ASSUME NEW t \in Thread, PostCreateFails(t) PROVE LifeInv'
  BY <1>25 DEF LifeInv, PostCreateFails, Abort
<1>26. ASSUME NEW t \in Thread, PostFullNonBlock(t) PROVE LifeInv'
  BY <1>26 DEF LifeInv, PostFullNonBlock, AtFullQueue, NextSlot
<1>27. ASSUME NEW t \in Thread, PostFullTimeout(t) PROVE LifeInv'
  BY <1>27 DEF LifeInv, PostFullTimeout, AtFullQueue, Abort
<1>28. ASSUME NEW t \in Thread, PostFullRetry(t) PROVE LifeInv'
  BY <1>28 DEF PcType, LifeInv, PostFullRetry, AtFullQueue, SignalAndGoto
<1>29. ASSUME NEW t \in Thread, PostDone(t) PROVE LifeInv'
  <2>1. \A s \in Slot : s # t => cache'[s] = cache[s]
    BY <1>29 DEF PostDone
  <2>2. UNCHANGED <<queue, shouldExit>> /\ pc[t] = "post"
    BY <1>29 DEF PostDone
  <2>3. \/ \A s \in Slot : pc'[s] = "dead"
        \/ \A s \in Slot : (pc'[s] = pc[s] /\ s # t) \/ pc'[s] \in {"idle", "cb", "drain"}
    BY <1>29, PcReturns DEF PostDone
  <2> QED
    BY <2>1, <2>2, <2>3 DEF LifeInv
<1>30. ASSUME NEW s \in Slot, AsyncExit(s) PROVE LifeInv'
  BY <1>30 DEF LifeInv, AsyncExit, IsEmpty, Goto
<1>31. ASSUME NEW s \in Slot, AsyncWait(s) PROVE LifeInv'
  <2>1. cache[s] = <<>> /\ pc'[s] = "wait"
    BY <1>31 DEF AsyncWait, IsEmpty, LifeInv, Goto, PcType
  <2>2. \A r \in Slot : r # s => pc'[r] = pc[r]
    BY <1>31 DEF AsyncWait, Goto
  <2> QED
    BY <1>31, <2>1, <2>2 DEF LifeInv, AsyncWait
<1>32. ASSUME NEW s \in Slot, AsyncSpuriousWakeup(s) PROVE LifeInv'
  BY <1>32 DEF LifeInv, AsyncSpuriousWakeup, Goto
<1>33. ASSUME NEW s \in Slot, AsyncTake(s) PROVE LifeInv'
  BY <1>33 DEF PcType, LifeInv, AsyncTake, Goto
<1>34. ASSUME NEW s \in Slot, AsyncCbReturn(s) PROVE LifeInv'
  BY <1>34 DEF LifeInv, AsyncCbReturn, Goto
<1>35. ASSUME NEW s \in Slot, AsyncDrain(s) PROVE LifeInv'
  BY <1>35 DEF LifeInv, AsyncDrain, OptNonBlock, Goto
<1>36. ASSUME NEW s \in Slot, AsyncDrained(s) PROVE LifeInv'
  BY <1>36 DEF LifeInv, AsyncDrained, IsEmpty, Goto
<1>37. CASE UNCHANGED vars
  BY <1>37 DEF LifeInv
<1> QED
  BY <1>1, <1>2, <1>3, <1>4, <1>5, <1>6, <1>7, <1>8, <1>9, <1>10, <1>11, <1>12, <1>13,
     <1>14, <1>15, <1>16, <1>17, <1>18, <1>19, <1>20, <1>21, <1>22, <1>23, <1>24,
     <1>25, <1>26, <1>27, <1>28, <1>29, <1>30, <1>31, <1>32, <1>33, <1>34, <1>35,
     <1>36, <1>37 DEF Next, subEVT, unsubEVT, postEVT, PostScan, ASyncEventThread

(* Every step keeps a free slot quiet: it becomes free when its thread has ended    *)
(* with both queues empty, and nothing is queued at it while it is free.            *)
LEMMA QuietStep ==
  ASSUME ConlesAssumption, CtxType, TableType, QueueType, CacheType, PcType,
         FrameType, EnvType, LifeInv, FrameInv, FreeSlotIsQuiet, [Next]_vars
  PROVE  FreeSlotIsQuiet'
<1>1. ASSUME NEW c \in Client, SubLock(c) PROVE FreeSlotIsQuiet'
  BY <1>1 DEF FreeSlotIsQuiet, IsFree, SubLock, Goto
<1>2. ASSUME NEW c \in Client, SubReject(c) PROVE FreeSlotIsQuiet'
  BY <1>2 DEF FreeSlotIsQuiet, IsFree, SubReject, Goto
<1>3. ASSUME NEW c \in Client, SubNoFreeSlot(c) PROVE FreeSlotIsQuiet'
  BY <1>3 DEF FreeSlotIsQuiet, IsFree, SubNoFreeSlot
<1>4. ASSUME NEW c \in Client, SubInstall(c) PROVE FreeSlotIsQuiet'
  BY <1>4, FillShape DEF FreeSlotIsQuiet, IsFree
<1>5. ASSUME NEW c \in Client, SubMallocFails(c) PROVE FreeSlotIsQuiet'
  BY <1>5, FillShape DEF FreeSlotIsQuiet, IsFree
<1>6. ASSUME NEW c \in Client, SubCallocFails(c) PROVE FreeSlotIsQuiet'
  BY <1>6 DEF FreeSlotIsQuiet, IsFree, SubCallocFails, Abort
<1>7. ASSUME NEW c \in Client, NEW k \in Key \cup {ALL}, UnsubLock(c, k)
    PROVE FreeSlotIsQuiet'
  BY <1>7 DEF FreeSlotIsQuiet, IsFree, UnsubLock, Goto
<1>8. ASSUME NEW c \in Client, UnsubNoTable(c) PROVE FreeSlotIsQuiet'
  BY <1>8 DEF FreeSlotIsQuiet, IsFree, UnsubNoTable, Goto
<1>9. ASSUME NEW c \in Client, UnsubSkip(c) PROVE FreeSlotIsQuiet'
  BY <1>9 DEF FreeSlotIsQuiet, IsFree, UnsubSkip
<1>10. ASSUME NEW c \in Client, UnsubStop(c) PROVE FreeSlotIsQuiet'
  BY <1>10 DEF FreeSlotIsQuiet, IsFree, UnsubStop, Goto
<1>11. ASSUME NEW c \in Client, UnsubSignal(c) PROVE FreeSlotIsQuiet'
  BY <1>11 DEF PcType, FreeSlotIsQuiet, IsFree, UnsubSignal, SignalAndGoto
<1>12. ASSUME NEW c \in Client, UnsubClear(c) PROVE FreeSlotIsQuiet'
  BY <1>12, ClearShape DEF FreeSlotIsQuiet, IsFree, LifeInv
<1>13. ASSUME NEW c \in Client, UnsubJoin(c) PROVE FreeSlotIsQuiet'
  BY <1>13, ClearShape DEF FreeSlotIsQuiet, IsFree, LifeInv
<1>14. ASSUME NEW c \in Client, UnsubDone(c) PROVE FreeSlotIsQuiet'
  BY <1>14 DEF FreeSlotIsQuiet, IsFree, UnsubDone, Goto
<1>15. ASSUME NEW t \in Thread, NEW m \in Msg, NEW o \in Options,
    PostCall(t, m, o) PROVE FreeSlotIsQuiet'
  BY <1>15 DEF FreeSlotIsQuiet, IsFree, PostCall, IsNextPost, Goto
<1>16. ASSUME NEW t \in Thread, PostLock(t) PROVE FreeSlotIsQuiet'
  BY <1>16 DEF FreeSlotIsQuiet, IsFree, PostLock, Goto
<1>17. ASSUME NEW t \in Thread, PostNoTable(t) PROVE FreeSlotIsQuiet'
  BY <1>17, PcReturns DEF FreeSlotIsQuiet, IsFree, PostNoTable
<1>18. ASSUME NEW t \in Thread, PostLockTimeout(t) PROVE FreeSlotIsQuiet'
  BY <1>18, PcReturns DEF FreeSlotIsQuiet, IsFree, PostLockTimeout
<1>19. ASSUME NEW t \in Thread, postEVT_ASyncThreadCached(t) PROVE FreeSlotIsQuiet'
  BY <1>19, PcReturns, CacheShape DEF FreeSlotIsQuiet, IsFree,
     postEVT_ASyncThreadCached
<1>20. ASSUME NEW t \in Thread, PostSkip(t) PROVE FreeSlotIsQuiet'
  BY <1>20 DEF FreeSlotIsQuiet, IsFree, PostSkip, NextSlot
<1>21. ASSUME NEW t \in Thread, PostSync(t) PROVE FreeSlotIsQuiet'
  BY <1>21 DEF FreeSlotIsQuiet, IsFree, PostSync, AtMatch, Goto
<1>22. ASSUME NEW t \in Thread, PostSyncReturn(t) PROVE FreeSlotIsQuiet'
  BY <1>22 DEF FreeSlotIsQuiet, IsFree, PostSyncReturn, NextSlot, Goto
<1>23. ASSUME NEW t \in Thread, PostEnqueue(t) PROVE FreeSlotIsQuiet'
  BY <1>23 DEF PcType, FreeSlotIsQuiet, IsFree, QueueType, PostEnqueue, AtMatch,
     IsMatch
<1>24. ASSUME NEW t \in Thread, PostSignal(t) PROVE FreeSlotIsQuiet'
  BY <1>24 DEF PcType, FreeSlotIsQuiet, IsFree, PostSignal, SignalAndGoto, NextSlot
<1>25. ASSUME NEW t \in Thread, PostCreateFails(t) PROVE FreeSlotIsQuiet'
  BY <1>25 DEF FreeSlotIsQuiet, IsFree, PostCreateFails, Abort
<1>26. ASSUME NEW t \in Thread, PostFullNonBlock(t) PROVE FreeSlotIsQuiet'
  BY <1>26 DEF FreeSlotIsQuiet, IsFree, PostFullNonBlock, AtFullQueue, NextSlot
<1>27. ASSUME NEW t \in Thread, PostFullTimeout(t) PROVE FreeSlotIsQuiet'
  BY <1>27 DEF FreeSlotIsQuiet, IsFree, PostFullTimeout, AtFullQueue, Abort
<1>28. ASSUME NEW t \in Thread, PostFullRetry(t) PROVE FreeSlotIsQuiet'
  BY <1>28 DEF PcType, FreeSlotIsQuiet, IsFree, PostFullRetry, AtFullQueue, AtMatch,
     SignalAndGoto
<1>29. ASSUME NEW t \in Thread, PostDone(t) PROVE FreeSlotIsQuiet'
  <2>1. \A s \in Slot : s # t => cache'[s] = cache[s]
    BY <1>29 DEF PostDone
  <2> QED
    BY <1>29, <2>1, PcReturns DEF FreeSlotIsQuiet, IsFree, PostDone
<1>30. ASSUME NEW s \in Slot, AsyncExit(s) PROVE FreeSlotIsQuiet'
  BY <1>30 DEF FreeSlotIsQuiet, IsFree, AsyncExit, Goto
<1>31. ASSUME NEW s \in Slot, AsyncWait(s) PROVE FreeSlotIsQuiet'
  BY <1>31 DEF FreeSlotIsQuiet, IsFree, AsyncWait, Goto
<1>32. ASSUME NEW s \in Slot, AsyncSpuriousWakeup(s) PROVE FreeSlotIsQuiet'
  BY <1>32 DEF FreeSlotIsQuiet, IsFree, AsyncSpuriousWakeup, Goto
<1>33. ASSUME NEW s \in Slot, AsyncTake(s) PROVE FreeSlotIsQuiet'
  BY <1>33 DEF FreeSlotIsQuiet, IsFree, AsyncTake, Goto
<1>34. ASSUME NEW s \in Slot, AsyncCbReturn(s) PROVE FreeSlotIsQuiet'
  BY <1>34 DEF FreeSlotIsQuiet, IsFree, AsyncCbReturn, Goto
<1>35. ASSUME NEW s \in Slot, AsyncDrain(s) PROVE FreeSlotIsQuiet'
  BY <1>35 DEF FreeSlotIsQuiet, IsFree, AsyncDrain, OptNonBlock, Goto
<1>36. ASSUME NEW s \in Slot, AsyncDrained(s) PROVE FreeSlotIsQuiet'
  BY <1>36 DEF FreeSlotIsQuiet, IsFree, AsyncDrained, Goto
<1>37. CASE UNCHANGED vars
  BY <1>37 DEF FreeSlotIsQuiet, IsFree
<1> QED
  BY <1>1, <1>2, <1>3, <1>4, <1>5, <1>6, <1>7, <1>8, <1>9, <1>10, <1>11, <1>12, <1>13,
     <1>14, <1>15, <1>16, <1>17, <1>18, <1>19, <1>20, <1>21, <1>22, <1>23, <1>24,
     <1>25, <1>26, <1>27, <1>28, <1>29, <1>30, <1>31, <1>32, <1>33, <1>34, <1>35,
     <1>36, <1>37 DEF Next, subEVT, unsubEVT, postEVT, PostScan, ASyncEventThread

(* StopInv survives a step that changes no slot and moves no thread away from a     *)
(* slot it is stopping.                                                             *)
LEMMA StopKept ==
    ASSUME StopInv, UNCHANGED <<shouldExit, cbProc, evtIDs>>,
           \A s \in Slot : pc[s] = "dead" => pc'[s] = "dead",
           \A c \in Client : pc[c] \in {"unsubSignal", "unsubJoin"} =>
              pc'[c] \in {"unsubSignal", "unsubJoin"} /\ idx'[c] = idx[c]
    PROVE  StopInv'
  BY DEF StopInv

(* Every step keeps the stop flags to slots that are being given back: subEVT       *)
(* clears the flag of the slot it fills, whatever its last user left there.         *)
LEMMA StopStep ==
  ASSUME ConlesAssumption, CtxType, TableType, QueueType, CacheType, PcType,
         FrameType, EnvType, StopInv, LifeInv, FrameInv, FreeSlotIsQuiet,
         CtxMutexHeld, [Next]_vars
  PROVE  StopInv'
<1>1. ASSUME NEW c \in Client, SubLock(c) PROVE StopInv'
  BY <1>1, StopKept DEF SubLock, Goto
<1>2. ASSUME NEW c \in Client, SubReject(c) PROVE StopInv'
  BY <1>2, StopKept DEF SubReject, Goto
<1>3. ASSUME NEW c \in Client, SubNoFreeSlot(c) PROVE StopInv'
  BY <1>3, StopKept DEF SubNoFreeSlot, Goto
<1>4. ASSUME NEW c \in Client, SubInstall(c) PROVE StopInv'
  <2>1. \A u \in Client : pc[u] \in {"unsubSignal", "unsubJoin"} =>
            pc'[u] = pc[u] /\ idx'[u] = idx[u]
    BY <1>4, FillShape DEF SubInstall
  <2> QED
    BY <1>4, <2>1, FillShape DEF StopInv
<1>5. ASSUME NEW c \in Client, SubMallocFails(c) PROVE StopInv'
  <2>1. \A u \in Client : pc[u] \in {"unsubSignal", "unsubJoin"} =>
            pc'[u] = pc[u] /\ idx'[u] = idx[u]
    BY <1>5, FillShape DEF SubMallocFails
  <2> QED
    BY <1>5, <2>1, FillShape DEF StopInv
<1>6. ASSUME NEW c \in Client, SubCallocFails(c) PROVE StopInv'
  BY <1>6 DEF StopInv, SubCallocFails, Abort
<1>7. ASSUME NEW c \in Client, NEW k \in Key \cup {ALL}, UnsubLock(c, k)
    PROVE StopInv'
  BY <1>7, StopKept DEF UnsubLock, Goto
<1>8. ASSUME NEW c \in Client, UnsubNoTable(c) PROVE StopInv'
  BY <1>8, StopKept DEF UnsubNoTable, UnsubReturn, Goto
<1>9. ASSUME NEW c \in Client, UnsubSkip(c) PROVE StopInv'
  BY <1>9, StopKept DEF UnsubSkip
<1>10. ASSUME NEW c \in Client, UnsubStop(c) PROVE StopInv'
  <2>1. idx[c] \in Slot /\ c \notin Slot /\ pc[c] = "unsub"
    BY <1>10 DEF UnsubStop
  <2>2. /\ pc'[c] = "unsubSignal"
        /\ \A u \in Thread : u # c => pc'[u] = pc[u]
        /\ UNCHANGED <<idx, cbProc, evtIDs>>
        /\ \A s \in Slot : s # idx[c] => shouldExit'[s] = shouldExit[s]
    BY <1>10, <2>1 DEF UnsubStop, Goto, PcType
  <2> QED
    BY <2>1, <2>2 DEF StopInv
<1>11. ASSUME NEW c \in Client, UnsubSignal(c) PROVE StopInv'
  BY <1>11, StopKept DEF PcType, UnsubSignal, SignalAndGoto
<1>12. ASSUME NEW c \in Client, UnsubClear(c) PROVE StopInv'
  <2>1. \A u \in Client : pc[u] \in {"unsubSignal", "unsubJoin"} /\ idx[u] # idx[c] =>
            pc'[u] = pc[u] /\ idx'[u] = idx[u]
    BY <1>12, ClearShape
  <2>2. \A s \in Slot : s # idx[c] => pc'[s] = pc[s] \/ pc'[s] = "none"
    BY <1>12, ClearShape
  <2> QED
    BY <1>12, <2>1, <2>2, ClearShape DEF StopInv
<1>13. ASSUME NEW c \in Client, UnsubJoin(c) PROVE StopInv'
  <2>1. \A u \in Client : pc[u] \in {"unsubSignal", "unsubJoin"} /\ idx[u] # idx[c] =>
            pc'[u] = pc[u] /\ idx'[u] = idx[u]
    BY <1>13, ClearShape
  <2>2. \A s \in Slot : s # idx[c] => pc'[s] = pc[s] \/ pc'[s] = "none"
    BY <1>13, ClearShape
  <2> QED
    BY <1>13, <2>1, <2>2, ClearShape DEF StopInv
<1>14. ASSUME NEW c \in Client, UnsubDone(c) PROVE StopInv'
  BY <1>14, StopKept DEF UnsubDone, UnsubReturn, Goto
<1>15. ASSUME NEW t \in Thread, NEW m \in Msg, NEW o \in Options,
    PostCall(t, m, o) PROVE StopInv'
  BY <1>15, StopKept DEF PostCall, IsNextPost, Goto
<1>16. ASSUME NEW t \in Thread, PostLock(t) PROVE StopInv'
  BY <1>16, StopKept DEF PostLock, Goto
<1>17. ASSUME NEW t \in Thread, PostNoTable(t) PROVE StopInv'
  BY <1>17, PcReturns DEF StopInv, PostNoTable
<1>18. ASSUME NEW t \in Thread, PostLockTimeout(t) PROVE StopInv'
  BY <1>18, PcReturns DEF StopInv, PostLockTimeout
<1>19. ASSUME NEW t \in Thread, postEVT_ASyncThreadCached(t) PROVE StopInv'
  <2>1. UNCHANGED <<shouldExit, cbProc, evtIDs>> /\ pc[t] = "lock"
    BY <1>19 DEF postEVT_ASyncThreadCached
  <2>2. \/ \A u \in Thread : pc'[u] = "dead"
        \/ \A u \in Thread : u # t => pc'[u] = pc[u] /\ idx'[u] = idx[u]
    BY <1>19, PcReturns DEF postEVT_ASyncThreadCached
  <2> QED
    BY <2>1, <2>2 DEF StopInv
<1>20. ASSUME NEW t \in Thread, PostSkip(t) PROVE StopInv'
  BY <1>20, StopKept DEF PostSkip, NextSlot
<1>21. ASSUME NEW t \in Thread, PostSync(t) PROVE StopInv'
  BY <1>21, StopKept DEF PostSync, AtMatch, Goto
<1>22. ASSUME NEW t \in Thread, PostSyncReturn(t) PROVE StopInv'
  BY <1>22, StopKept DEF PostSyncReturn, NextSlot, Goto
<1>23. ASSUME NEW t \in Thread, PostEnqueue(t) PROVE StopInv'
  BY <1>23, StopKept DEF PcType, PostEnqueue, AtMatch
<1>24. ASSUME NEW t \in Thread, PostSignal(t) PROVE StopInv'
  BY <1>24, StopKept DEF PcType, PostSignal, SignalAndGoto, NextSlot
<1>25. ASSUME NEW t \in Thread, PostCreateFails(t) PROVE StopInv'
  BY <1>25 DEF StopInv, PostCreateFails, Abort
<1>26. ASSUME NEW t \in Thread, PostFullNonBlock(t) PROVE StopInv'
  BY <1>26, StopKept DEF PostFullNonBlock, AtFullQueue, AtMatch, NextSlot
<1>27. ASSUME NEW t \in Thread, PostFullTimeout(t) PROVE StopInv'
  BY <1>27 DEF StopInv, PostFullTimeout, AtFullQueue, Abort
<1>28. ASSUME NEW t \in Thread, PostFullRetry(t) PROVE StopInv'
  BY <1>28, StopKept DEF PcType, PostFullRetry, AtFullQueue, AtMatch, SignalAndGoto
<1>29. ASSUME NEW t \in Thread, PostDone(t) PROVE StopInv'
  BY <1>29, PcReturns DEF StopInv, PostDone
<1>30. ASSUME NEW s \in Slot, AsyncExit(s) PROVE StopInv'
  BY <1>30, StopKept DEF AsyncExit, Goto
<1>31. ASSUME NEW s \in Slot, AsyncWait(s) PROVE StopInv'
  BY <1>31, StopKept DEF AsyncWait, Goto
<1>32. ASSUME NEW s \in Slot, AsyncSpuriousWakeup(s) PROVE StopInv'
  BY <1>32, StopKept DEF AsyncSpuriousWakeup, Goto
<1>33. ASSUME NEW s \in Slot, AsyncTake(s) PROVE StopInv'
  BY <1>33, StopKept DEF AsyncTake, Goto
<1>34. ASSUME NEW s \in Slot, AsyncCbReturn(s) PROVE StopInv'
  BY <1>34, StopKept DEF AsyncCbReturn, Goto
<1>35. ASSUME NEW s \in Slot, AsyncDrain(s) PROVE StopInv'
  BY <1>35, StopKept DEF AsyncDrain, OptNonBlock, Goto
<1>36. ASSUME NEW s \in Slot, AsyncDrained(s) PROVE StopInv'
  BY <1>36, StopKept DEF AsyncDrained, Goto
<1>37. CASE UNCHANGED vars
  BY <1>37 DEF StopInv
<1> QED
  BY <1>1, <1>2, <1>3, <1>4, <1>5, <1>6, <1>7, <1>8, <1>9, <1>10, <1>11, <1>12, <1>13,
     <1>14, <1>15, <1>16, <1>17, <1>18, <1>19, <1>20, <1>21, <1>22, <1>23, <1>24,
     <1>25, <1>26, <1>27, <1>28, <1>29, <1>30, <1>31, <1>32, <1>33, <1>34, <1>35,
     <1>36, <1>37 DEF Next, subEVT, unsubEVT, postEVT, PostScan, ASyncEventThread

(* Every step keeps NoSuberIsTrue: a post that skips a slot has looked at it, and   *)
(* the table does not change while a post holds the context mutex.                  *)
LEMMA NoSuberStep ==
  ASSUME ConlesAssumption, CtxType, TableType, QueueType, CacheType, PcType,
         FrameType, EnvType, NoSuberIsTrue, CtxMutexHeld, FrameInv, [Next]_vars
  PROVE  NoSuberIsTrue'
<1>1. ASSUME NEW c \in Client, SubLock(c) PROVE NoSuberIsTrue'
  BY <1>1 DEF NoSuberIsTrue, CtxMutexHeld, SubLock, CanLock, Goto
<1>2. ASSUME NEW c \in Client, SubReject(c) PROVE NoSuberIsTrue'
  BY <1>2 DEF NoSuberIsTrue, CtxMutexHeld, SubReject, Goto
<1>3. ASSUME NEW c \in Client, SubNoFreeSlot(c) PROVE NoSuberIsTrue'
  BY <1>3 DEF NoSuberIsTrue, CtxMutexHeld, SubNoFreeSlot, Goto
<1>4. ASSUME NEW c \in Client, SubInstall(c) PROVE NoSuberIsTrue'
  BY <1>4 DEF NoSuberIsTrue, CtxMutexHeld, SubInstall, FillSlot, IsFirstFree, IsFree,
     Goto
<1>5. ASSUME NEW c \in Client, SubMallocFails(c) PROVE NoSuberIsTrue'
  BY <1>5 DEF NoSuberIsTrue, CtxMutexHeld, SubMallocFails, FillSlot, IsFirstFree,
     IsFree, Goto
<1>6. ASSUME NEW c \in Client, SubCallocFails(c) PROVE NoSuberIsTrue'
  BY <1>6 DEF NoSuberIsTrue, SubCallocFails, Abort
<1>7. ASSUME NEW c \in Client, NEW k \in Key \cup {ALL}, UnsubLock(c, k)
    PROVE NoSuberIsTrue'
  BY <1>7 DEF NoSuberIsTrue, CtxMutexHeld, UnsubLock, CanLock, Goto
<1>8. ASSUME NEW c \in Client, UnsubNoTable(c) PROVE NoSuberIsTrue'
  BY <1>8 DEF NoSuberIsTrue, CtxMutexHeld, UnsubNoTable, Goto
<1>9. ASSUME NEW c \in Client, UnsubSkip(c) PROVE NoSuberIsTrue'
  BY <1>9 DEF NoSuberIsTrue, CtxMutexHeld, UnsubSkip
<1>10. ASSUME NEW c \in Client, UnsubStop(c) PROVE NoSuberIsTrue'
  BY <1>10 DEF NoSuberIsTrue, CtxMutexHeld, UnsubStop, Goto
<1>11. ASSUME NEW c \in Client, UnsubSignal(c) PROVE NoSuberIsTrue'
  BY <1>11 DEF PcType, NoSuberIsTrue, CtxMutexHeld, UnsubSignal, SignalAndGoto
<1>12. ASSUME NEW c \in Client, UnsubClear(c) PROVE NoSuberIsTrue'
  BY <1>12 DEF NoSuberIsTrue, CtxMutexHeld, UnsubClear, AfterClear, Goto
<1>13. ASSUME NEW c \in Client, UnsubJoin(c) PROVE NoSuberIsTrue'
  BY <1>13 DEF PcType, NoSuberIsTrue, CtxMutexHeld, UnsubJoin, AfterClear
<1>14. ASSUME NEW c \in Client, UnsubDone(c) PROVE NoSuberIsTrue'
  BY <1>14 DEF NoSuberIsTrue, CtxMutexHeld, UnsubDone, Goto
<1>15. ASSUME NEW t \in Thread, NEW m \in Msg, NEW o \in Options,
    PostCall(t, m, o) PROVE NoSuberIsTrue'
  BY <1>15 DEF NoSuberIsTrue, IsMatch, PostCall, IsNextPost, Goto
<1>16. ASSUME NEW t \in Thread, PostLock(t) PROVE NoSuberIsTrue'
  BY <1>16 DEF NoSuberIsTrue, CtxMutexHeld, FrameType, PostLock, CanLock, Goto
<1>17. ASSUME NEW t \in Thread, PostNoTable(t) PROVE NoSuberIsTrue'
  BY <1>17, PcReturns DEF NoSuberIsTrue, IsMatch, PostNoTable
<1>18. ASSUME NEW t \in Thread, PostLockTimeout(t) PROVE NoSuberIsTrue'
  BY <1>18, PcReturns DEF NoSuberIsTrue, IsMatch, PostLockTimeout
<1>19. ASSUME NEW t \in Thread, postEVT_ASyncThreadCached(t) PROVE NoSuberIsTrue'
  BY <1>19, PcReturns DEF NoSuberIsTrue, IsMatch, postEVT_ASyncThreadCached
<1>20. ASSUME NEW t \in Thread, PostSkip(t) PROVE NoSuberIsTrue'
  BY <1>20 DEF NoSuberIsTrue, IsMatch, PostSkip, NextSlot
<1>21. ASSUME NEW t \in Thread, PostSync(t) PROVE NoSuberIsTrue'
  BY <1>21 DEF NoSuberIsTrue, IsMatch, PostSync, AtMatch, Goto
<1>22. ASSUME NEW t \in Thread, PostSyncReturn(t) PROVE NoSuberIsTrue'
  BY <1>22 DEF NoSuberIsTrue, CtxMutexHeld, FrameType, PostSyncReturn, NextSlot, Goto
<1>23. ASSUME NEW t \in Thread, PostEnqueue(t) PROVE NoSuberIsTrue'
  BY <1>23 DEF PcType, NoSuberIsTrue, IsMatch, PostEnqueue, AtMatch
<1>24. ASSUME NEW t \in Thread, PostSignal(t) PROVE NoSuberIsTrue'
  BY <1>24 DEF PcType, NoSuberIsTrue, CtxMutexHeld, FrameInv, PostSignal,
     SignalAndGoto, NextSlot
<1>25. ASSUME NEW t \in Thread, PostCreateFails(t) PROVE NoSuberIsTrue'
  BY <1>25 DEF NoSuberIsTrue, PostCreateFails, Abort
<1>26. ASSUME NEW t \in Thread, PostFullNonBlock(t) PROVE NoSuberIsTrue'
  BY <1>26 DEF NoSuberIsTrue, CtxMutexHeld, FrameType, PostFullNonBlock, AtFullQueue,
     AtMatch, NextSlot
<1>27. ASSUME NEW t \in Thread, PostFullTimeout(t) PROVE NoSuberIsTrue'
  BY <1>27 DEF NoSuberIsTrue, PostFullTimeout, AtFullQueue, Abort
<1>28. ASSUME NEW t \in Thread, PostFullRetry(t) PROVE NoSuberIsTrue'
  BY <1>28 DEF PcType, NoSuberIsTrue, IsMatch, PostFullRetry, AtFullQueue, AtMatch,
     SignalAndGoto
<1>29. ASSUME NEW t \in Thread, PostDone(t) PROVE NoSuberIsTrue'
  BY <1>29, PcReturns DEF NoSuberIsTrue, IsMatch, PostDone
<1>30. ASSUME NEW s \in Slot, AsyncExit(s) PROVE NoSuberIsTrue'
  BY <1>30 DEF NoSuberIsTrue, IsMatch, AsyncExit, Goto
<1>31. ASSUME NEW s \in Slot, AsyncWait(s) PROVE NoSuberIsTrue'
  BY <1>31 DEF NoSuberIsTrue, IsMatch, AsyncWait, Goto
<1>32. ASSUME NEW s \in Slot, AsyncSpuriousWakeup(s) PROVE NoSuberIsTrue'
  BY <1>32 DEF NoSuberIsTrue, IsMatch, AsyncSpuriousWakeup, Goto
<1>33. ASSUME NEW s \in Slot, AsyncTake(s) PROVE NoSuberIsTrue'
  BY <1>33 DEF NoSuberIsTrue, IsMatch, AsyncTake, Goto
<1>34. ASSUME NEW s \in Slot, AsyncCbReturn(s) PROVE NoSuberIsTrue'
  BY <1>34 DEF NoSuberIsTrue, IsMatch, AsyncCbReturn, Goto
<1>35. ASSUME NEW s \in Slot, AsyncDrain(s) PROVE NoSuberIsTrue'
  BY <1>35 DEF NoSuberIsTrue, IsMatch, AsyncDrain, OptNonBlock, Goto
<1>36. ASSUME NEW s \in Slot, AsyncDrained(s) PROVE NoSuberIsTrue'
  BY <1>36 DEF NoSuberIsTrue, IsMatch, AsyncDrained, Goto
<1>37. CASE UNCHANGED vars
  BY <1>37 DEF NoSuberIsTrue, IsMatch
<1> QED
  BY <1>1, <1>2, <1>3, <1>4, <1>5, <1>6, <1>7, <1>8, <1>9, <1>10, <1>11, <1>12, <1>13,
     <1>14, <1>15, <1>16, <1>17, <1>18, <1>19, <1>20, <1>21, <1>22, <1>23, <1>24,
     <1>25, <1>26, <1>27, <1>28, <1>29, <1>30, <1>31, <1>32, <1>33, <1>34, <1>35,
     <1>36, <1>37 DEF Next, subEVT, unsubEVT, postEVT, PostScan, ASyncEventThread
-------------------------------------------------------------------------------------
(* The parts of IInv that speak of events: what was accepted, what was handled,     *)
(* and what a post has delivered so far.                                            *)

(* The part of IInv on blocking posts is the property BlockingPostReachesAll.       *)
LEMMA ReachInvMeans ==
    ASSUME PcType, FrameType PROVE ReachInv <=> BlockingPostReachesAll
  BY DEF ReachInv, BlockingPostReachesAll, delivered

(* While subEVT or unsubEVT is inside the context mutex, no post scans the table.   *)
LEMMA NoScan ==
    ASSUME CtxMutexHeld, NEW c \in Client, pc[c] \in {"sub"} \cup InUnsub
    PROVE  \A t \in Thread : pc[t] \notin InScan
  BY DEF CtxMutexHeld

(* Every step keeps a slot's history: posts append to queue and history alike, the  *)
(* thread moves the head of the queue to what it handled, and subEVT starts both    *)
(* anew.                                                                            *)
LEMMA HistStep ==
  ASSUME ConlesAssumption, CtxType, TableType, QueueType, CacheType, PcType,
         FrameType, EnvType, HistInv, FreeSlotIsQuiet, FrameInv, [Next]_vars
  PROVE  HistInv'
<1>1. ASSUME NEW c \in Client, SubLock(c) PROVE HistInv'
  BY <1>1 DEF HistInv, SubLock
<1>2. ASSUME NEW c \in Client, SubReject(c) PROVE HistInv'
  BY <1>2 DEF HistInv, SubReject
<1>3. ASSUME NEW c \in Client, SubNoFreeSlot(c) PROVE HistInv'
  BY <1>3 DEF HistInv, SubNoFreeSlot
<1>4. ASSUME NEW c \in Client, SubInstall(c) PROVE HistInv'
  <2>1. <<>> \o <<>> = <<>>
    BY ConcatEmptySeq, EmptySeq
  <2> QED
    BY <1>4, <2>1, FillShape DEF HistInv
<1>5. ASSUME NEW c \in Client, SubMallocFails(c) PROVE HistInv'
  <2>1. <<>> \o <<>> = <<>>
    BY ConcatEmptySeq, EmptySeq
  <2> QED
    BY <1>5, <2>1, FillShape DEF HistInv
<1>6. ASSUME NEW c \in Client, SubCallocFails(c) PROVE HistInv'
  BY <1>6 DEF HistInv, SubCallocFails
<1>7. ASSUME NEW c \in Client, NEW k \in Key \cup {ALL}, UnsubLock(c, k)
    PROVE HistInv'
  BY <1>7 DEF HistInv, UnsubLock
<1>8. ASSUME NEW c \in Client, UnsubNoTable(c) PROVE HistInv'
  BY <1>8 DEF HistInv, UnsubNoTable
<1>9. ASSUME NEW c \in Client, UnsubSkip(c) PROVE HistInv'
  BY <1>9 DEF HistInv, UnsubSkip
<1>10. ASSUME NEW c \in Client, UnsubStop(c) PROVE HistInv'
  BY <1>10 DEF HistInv, UnsubStop
<1>11. ASSUME NEW c \in Client, UnsubSignal(c) PROVE HistInv'
  BY <1>11 DEF HistInv, UnsubSignal, SignalAndGoto
<1>12. ASSUME NEW c \in Client, UnsubClear(c) PROVE HistInv'
  BY <1>12 DEF HistInv, UnsubClear
<1>13. ASSUME NEW c \in Client, UnsubJoin(c) PROVE HistInv'
  BY <1>13 DEF HistInv, UnsubJoin
<1>14. ASSUME NEW c \in Client, UnsubDone(c) PROVE HistInv'
  BY <1>14 DEF HistInv, UnsubDone
<1>15. ASSUME NEW t \in Thread, NEW m \in Msg, NEW o \in Options,
    PostCall(t, m, o) PROVE HistInv'
  BY <1>15 DEF HistInv, PostCall, IsNextPost
<1>16. ASSUME NEW t \in Thread, PostLock(t) PROVE HistInv'
  BY <1>16 DEF HistInv, PostLock
<1>17. ASSUME NEW t \in Thread, PostNoTable(t) PROVE HistInv'
  BY <1>17 DEF HistInv, PostNoTable
<1>18. ASSUME NEW t \in Thread, PostLockTimeout(t) PROVE HistInv'
  BY <1>18 DEF HistInv, PostLockTimeout
<1>19. ASSUME NEW t \in Thread, postEVT_ASyncThreadCached(t) PROVE HistInv'
  BY <1>19 DEF HistInv, postEVT_ASyncThreadCached
<1>20. ASSUME NEW t \in Thread, PostSkip(t) PROVE HistInv'
  BY <1>20 DEF HistInv, PostSkip, NextSlot
<1>21. ASSUME NEW t \in Thread, PostSync(t) PROVE HistInv'
  BY <1>21 DEF HistInv, PostSync
<1>22. ASSUME NEW t \in Thread, PostSyncReturn(t) PROVE HistInv'
  BY <1>22 DEF HistInv, PostSyncReturn, NextSlot
<1>23. ASSUME NEW t \in Thread, PostEnqueue(t) PROVE HistInv'
  <2>1. idx[t] \in Slot /\ evt[t] \in Msg
    BY <1>23 DEF PostEnqueue, AtMatch, FrameInv
  <2>2. /\ queue' = [queue EXCEPT ![idx[t]] = Append(@, evt[t])]
        /\ accepted' = [accepted EXCEPT ![idx[t]] = Append(@, evt[t])]
        /\ handled' = handled
    BY <1>23 DEF PostEnqueue
  <2>3. Append(accepted[idx[t]], evt[t]) = handled[idx[t]] \o Append(queue[idx[t]], evt[t])
    BY <2>1, EnqueueExtends
  <2> QED
    BY <2>1, <2>2, <2>3 DEF HistInv, QueueType
<1>24. ASSUME NEW t \in Thread, PostSignal(t) PROVE HistInv'
  BY <1>24 DEF HistInv, PostSignal, SignalAndGoto, NextSlot
<1>25. ASSUME NEW t \in Thread, PostCreateFails(t) PROVE HistInv'
  BY <1>25 DEF HistInv, PostCreateFails
<1>26. ASSUME NEW t \in Thread, PostFullNonBlock(t) PROVE HistInv'
  BY <1>26 DEF HistInv, PostFullNonBlock, AtFullQueue, NextSlot
<1>27. ASSUME NEW t \in Thread, PostFullTimeout(t) PROVE HistInv'
  BY <1>27 DEF HistInv, PostFullTimeout, AtFullQueue
<1>28. ASSUME NEW t \in Thread, PostFullRetry(t) PROVE HistInv'
  BY <1>28 DEF HistInv, PostFullRetry, AtFullQueue, SignalAndGoto
<1>29. ASSUME NEW t \in Thread, PostDone(t) PROVE HistInv'
  BY <1>29 DEF HistInv, PostDone
<1>30. ASSUME NEW s \in Slot, AsyncExit(s) PROVE HistInv'
  BY <1>30 DEF HistInv, AsyncExit
<1>31. ASSUME NEW s \in Slot, AsyncWait(s) PROVE HistInv'
  BY <1>31 DEF HistInv, AsyncWait
<1>32. ASSUME NEW s \in Slot, AsyncSpuriousWakeup(s) PROVE HistInv'
  BY <1>32 DEF HistInv, AsyncSpuriousWakeup
<1>33. ASSUME NEW s \in Slot, AsyncTake(s) PROVE HistInv'
  <2>1. /\ queue[s] # <<>>
        /\ queue' = [queue EXCEPT ![s] = Tail(@)]
        /\ handled' = [handled EXCEPT ![s] = Append(@, Head(queue[s]))]
        /\ accepted' = accepted
    BY <1>33 DEF AsyncTake, IsEmpty
  <2>2. Append(handled[s], Head(queue[s])) \o Tail(queue[s]) = accepted[s]
    BY <2>1, TakeFromConcat DEF HistInv, QueueType
  <2> QED
    BY <2>1, <2>2 DEF HistInv, QueueType
<1>34. ASSUME NEW s \in Slot, AsyncCbReturn(s) PROVE HistInv'
  BY <1>34 DEF HistInv, AsyncCbReturn
<1>35. ASSUME NEW s \in Slot, AsyncDrain(s) PROVE HistInv'
  BY <1>35 DEF HistInv, AsyncDrain, OptNonBlock
<1>36. ASSUME NEW s \in Slot, AsyncDrained(s) PROVE HistInv'
  BY <1>36 DEF HistInv, AsyncDrained
<1>37. CASE UNCHANGED vars
  BY <1>37 DEF HistInv
<1> QED
  BY <1>1, <1>2, <1>3, <1>4, <1>5, <1>6, <1>7, <1>8, <1>9, <1>10, <1>11, <1>12, <1>13,
     <1>14, <1>15, <1>16, <1>17, <1>18, <1>19, <1>20, <1>21, <1>22, <1>23, <1>24,
     <1>25, <1>26, <1>27, <1>28, <1>29, <1>30, <1>31, <1>32, <1>33, <1>34, <1>35,
     <1>36, <1>37 DEF Next, subEVT, unsubEVT, postEVT, PostScan, ASyncEventThread

(* Every step keeps an event that is about to be signalled in the slot's history.   *)
LEMMA SignalStep ==
  ASSUME ConlesAssumption, CtxType, TableType, QueueType, CacheType, PcType,
         FrameType, EnvType, SignalInv, FreeSlotIsQuiet, FrameInv, CtxMutexHeld,
         [Next]_vars
  PROVE  SignalInv'
<1>1. ASSUME NEW c \in Client, SubLock(c) PROVE SignalInv'
  <2>1. delivered' = delivered
    BY <1>1 DEF delivered, SubLock
  <2> QED
    BY <1>1, <2>1 DEF SignalInv, SubLock, Goto
<1>2. ASSUME NEW c \in Client, SubReject(c) PROVE SignalInv'
  <2>1. delivered' = delivered
    BY <1>2 DEF delivered, SubReject
  <2> QED
    BY <1>2, <2>1 DEF SignalInv, SubReject, Goto
<1>3. ASSUME NEW c \in Client, SubNoFreeSlot(c) PROVE SignalInv'
  <2>1. delivered' = delivered
    BY <1>3 DEF delivered, SubNoFreeSlot
  <2> QED
    BY <1>3, <2>1 DEF SignalInv, SubNoFreeSlot, Goto
<1>4. ASSUME NEW c \in Client, SubInstall(c) PROVE SignalInv'
  BY <1>4, NoScan, FillShape DEF SignalInv, SubInstall
<1>5. ASSUME NEW c \in Client, SubMallocFails(c) PROVE SignalInv'
  BY <1>5, NoScan, FillShape DEF SignalInv, SubMallocFails
<1>6. ASSUME NEW c \in Client, SubCallocFails(c) PROVE SignalInv'
  <2>1. delivered' = delivered
    BY <1>6 DEF delivered, SubCallocFails
  <2> QED
    BY <1>6, <2>1 DEF SignalInv, SubCallocFails, Abort
<1>7. ASSUME NEW c \in Client, NEW k \in Key \cup {ALL}, UnsubLock(c, k)
    PROVE SignalInv'
  <2>1. delivered' = delivered
    BY <1>7 DEF delivered, UnsubLock
  <2> QED
    BY <1>7, <2>1 DEF SignalInv, UnsubLock, Goto
<1>8. ASSUME NEW c \in Client, UnsubNoTable(c) PROVE SignalInv'
  <2>1. delivered' = delivered
    BY <1>8 DEF delivered, UnsubNoTable
  <2> QED
    BY <1>8, <2>1 DEF SignalInv, UnsubNoTable, UnsubReturn, Goto
<1>9. ASSUME NEW c \in Client, UnsubSkip(c) PROVE SignalInv'
  <2>1. delivered' = delivered
    BY <1>9 DEF delivered, UnsubSkip
  <2> QED
    BY <1>9, <2>1 DEF SignalInv, UnsubSkip
<1>10. ASSUME NEW c \in Client, UnsubStop(c) PROVE SignalInv'
  <2>1. delivered' = delivered
    BY <1>10 DEF delivered, UnsubStop
  <2> QED
    BY <1>10, <2>1 DEF SignalInv, UnsubStop, Goto
<1>11. ASSUME NEW c \in Client, UnsubSignal(c) PROVE SignalInv'
  <2>1. delivered' = delivered
    BY <1>11 DEF delivered, UnsubSignal
  <2> QED
    BY <1>11, <2>1 DEF SignalInv, PcType, UnsubSignal, SignalAndGoto
<1>12. ASSUME NEW c \in Client, UnsubClear(c) PROVE SignalInv'
  <2>1. \A u \in Thread : pc[u] \notin InScan
    BY <1>12, NoScan DEF UnsubClear
  <2>2. \A u \in Thread : pc'[u] \notin InScan
    BY <1>12, <2>1, ClearShape
  <2> QED
    BY <2>2 DEF SignalInv
<1>13. ASSUME NEW c \in Client, UnsubJoin(c) PROVE SignalInv'
  <2>1. \A u \in Thread : pc[u] \notin InScan
    BY <1>13, NoScan DEF UnsubJoin
  <2>2. \A u \in Thread : pc'[u] \notin InScan
    BY <1>13, <2>1, ClearShape
  <2> QED
    BY <2>2 DEF SignalInv
<1>14. ASSUME NEW c \in Client, UnsubDone(c) PROVE SignalInv'
  <2>1. delivered' = delivered
    BY <1>14 DEF delivered, UnsubDone
  <2> QED
    BY <1>14, <2>1 DEF SignalInv, UnsubDone, UnsubReturn, Goto
<1>15. ASSUME NEW t \in Thread, NEW m \in Msg, NEW o \in Options,
    PostCall(t, m, o) PROVE SignalInv'
  <2>1. delivered' = delivered
    BY <1>15 DEF delivered, PostCall
  <2> QED
    BY <1>15, <2>1 DEF SignalInv, PostCall, IsNextPost, Goto
<1>16. ASSUME NEW t \in Thread, PostLock(t) PROVE SignalInv'
  <2>1. delivered' = delivered
    BY <1>16 DEF delivered, PostLock
  <2> QED
    BY <1>16, <2>1 DEF SignalInv, PostLock, Goto
<1>17. ASSUME NEW t \in Thread, PostNoTable(t) PROVE SignalInv'
  <2>1. delivered' = delivered
    BY <1>17 DEF delivered, PostNoTable
  <2> QED
    BY <1>17, <2>1, PcReturns DEF SignalInv, PostNoTable
<1>18. ASSUME NEW t \in Thread, PostLockTimeout(t) PROVE SignalInv'
  <2>1. delivered' = delivered
    BY <1>18 DEF delivered, PostLockTimeout
  <2> QED
    BY <1>18, <2>1, PcReturns DEF SignalInv, PostLockTimeout
<1>19. ASSUME NEW t \in Thread, postEVT_ASyncThreadCached(t) PROVE SignalInv'
  <2>1. delivered' = delivered
    BY <1>19 DEF delivered, postEVT_ASyncThreadCached
  <2> QED
    BY <1>19, <2>1, PcReturns DEF SignalInv, postEVT_ASyncThreadCached
<1>20. ASSUME NEW t \in Thread, PostSkip(t) PROVE SignalInv'
  <2>1. delivered' = delivered
    BY <1>20 DEF delivered, PostSkip
  <2> QED
    BY <1>20, <2>1 DEF SignalInv, PostSkip, NextSlot
<1>21. ASSUME NEW t \in Thread, PostSync(t) PROVE SignalInv'
  <2>1. delivered' = delivered
    BY <1>21 DEF delivered, PostSync
  <2> QED
    BY <1>21, <2>1 DEF SignalInv, PostSync, Goto
<1>22. ASSUME NEW t \in Thread, PostSyncReturn(t) PROVE SignalInv'
  <2>1. delivered' = delivered
    BY <1>22 DEF delivered, PostSyncReturn
  <2> QED
    BY <1>22, <2>1 DEF SignalInv, PostSyncReturn, NextSlot, Goto
<1>23. ASSUME NEW t \in Thread, PostEnqueue(t) PROVE SignalInv'
  <2>1. \A u \in Thread : u # t /\ pc'[u] = "signal" => pc[u] = "signal"
    BY <1>23 DEF PostEnqueue, PcType
  <2>2. \A u \in Thread : pc[u] = "signal" => idx[u] \in Slot
    BY DEF FrameInv
  <2>3. UNCHANGED <<idx, evt>>
    BY <1>23 DEF PostEnqueue
  <2> QED
    BY <1>23, <2>1, <2>2, <2>3, EnqueueDelivers DEF SignalInv
<1>24. ASSUME NEW t \in Thread, PostSignal(t) PROVE SignalInv'
  <2>1. delivered' = delivered
    BY <1>24 DEF delivered, PostSignal
  <2> QED
    BY <1>24, <2>1 DEF SignalInv, PcType, PostSignal, SignalAndGoto, NextSlot
<1>25. ASSUME NEW t \in Thread, PostCreateFails(t) PROVE SignalInv'
  <2>1. delivered' = delivered
    BY <1>25 DEF delivered, PostCreateFails
  <2> QED
    BY <1>25, <2>1 DEF SignalInv, PostCreateFails, Abort
<1>26. ASSUME NEW t \in Thread, PostFullNonBlock(t) PROVE SignalInv'
  <2>1. delivered' = delivered
    BY <1>26 DEF delivered, PostFullNonBlock
  <2> QED
    BY <1>26, <2>1 DEF SignalInv, PostFullNonBlock, AtFullQueue, AtMatch, NextSlot
<1>27. ASSUME NEW t \in Thread, PostFullTimeout(t) PROVE SignalInv'
  <2>1. delivered' = delivered
    BY <1>27 DEF delivered, PostFullTimeout
  <2> QED
    BY <1>27, <2>1 DEF SignalInv, PostFullTimeout, AtFullQueue, Abort
<1>28. ASSUME NEW t \in Thread, PostFullRetry(t) PROVE SignalInv'
  <2>1. delivered' = delivered
    BY <1>28 DEF delivered, PostFullRetry
  <2> QED
    BY <1>28, <2>1 DEF SignalInv, PcType, PostFullRetry, AtFullQueue, SignalAndGoto
<1>29. ASSUME NEW t \in Thread, PostDone(t) PROVE SignalInv'
  <2>1. delivered' = delivered
    BY <1>29 DEF delivered, PostDone
  <2> QED
    BY <1>29, <2>1, PcReturns DEF SignalInv, PostDone
<1>30. ASSUME NEW s \in Slot, AsyncExit(s) PROVE SignalInv'
  <2>1. delivered' = delivered
    BY <1>30 DEF delivered, AsyncExit
  <2> QED
    BY <1>30, <2>1 DEF SignalInv, AsyncExit, Goto
<1>31. ASSUME NEW s \in Slot, AsyncWait(s) PROVE SignalInv'
  <2>1. delivered' = delivered
    BY <1>31 DEF delivered, AsyncWait
  <2> QED
    BY <1>31, <2>1 DEF SignalInv, AsyncWait, Goto
<1>32. ASSUME NEW s \in Slot, AsyncSpuriousWakeup(s) PROVE SignalInv'
  <2>1. delivered' = delivered
    BY <1>32 DEF delivered, AsyncSpuriousWakeup
  <2> QED
    BY <1>32, <2>1 DEF SignalInv, AsyncSpuriousWakeup, Goto
<1>33. ASSUME NEW s \in Slot, AsyncTake(s) PROVE SignalInv'
  <2>1. delivered' = delivered
    BY <1>33 DEF delivered, AsyncTake
  <2> QED
    BY <1>33, <2>1 DEF SignalInv, AsyncTake, Goto
<1>34. ASSUME NEW s \in Slot, AsyncCbReturn(s) PROVE SignalInv'
  <2>1. delivered' = delivered
    BY <1>34 DEF delivered, AsyncCbReturn
  <2> QED
    BY <1>34, <2>1 DEF SignalInv, AsyncCbReturn, Goto
<1>35. ASSUME NEW s \in Slot, AsyncDrain(s) PROVE SignalInv'
  <2>1. delivered' = delivered
    BY <1>35 DEF delivered, AsyncDrain
  <2> QED
    BY <1>35, <2>1 DEF SignalInv, AsyncDrain, OptNonBlock, Goto
<1>36. ASSUME NEW s \in Slot, AsyncDrained(s) PROVE SignalInv'
  <2>1. delivered' = delivered
    BY <1>36 DEF delivered, AsyncDrained
  <2> QED
    BY <1>36, <2>1 DEF SignalInv, AsyncDrained, Goto
<1>37. CASE UNCHANGED vars
  <2>1. delivered' = delivered
    BY <1>37 DEF delivered
  <2> QED
    BY <1>37, <2>1 DEF SignalInv
<1> QED
  BY <1>1, <1>2, <1>3, <1>4, <1>5, <1>6, <1>7, <1>8, <1>9, <1>10, <1>11, <1>12, <1>13,
     <1>14, <1>15, <1>16, <1>17, <1>18, <1>19, <1>20, <1>21, <1>22, <1>23, <1>24,
     <1>25, <1>26, <1>27, <1>28, <1>29, <1>30, <1>31, <1>32, <1>33, <1>34, <1>35,
     <1>36, <1>37 DEF Next, subEVT, unsubEVT, postEVT, PostScan, ASyncEventThread

(* Every step of a blocking post that leaves a matching slot behind has queued the  *)
(* event there; no step of another thread takes it away while the scan lasts.       *)
LEMMA ReachStep ==
  ASSUME ConlesAssumption, CtxType, TableType, QueueType, CacheType, PcType,
         FrameType, EnvType, ReachInv, SignalInv, FreeSlotIsQuiet, FrameInv,
         CtxMutexHeld, [Next]_vars
  PROVE  ReachInv'
<1>1. ASSUME NEW c \in Client, SubLock(c) PROVE ReachInv'
  <2>1. delivered' = delivered
    BY <1>1 DEF delivered, SubLock
  <2> QED
    BY <1>1, <2>1 DEF ReachInv, IsMatch, SubLock, Goto
<1>2. ASSUME NEW c \in Client, SubReject(c) PROVE ReachInv'
  <2>1. delivered' = delivered
    BY <1>2 DEF delivered, SubReject
  <2> QED
    BY <1>2, <2>1 DEF ReachInv, IsMatch, SubReject, Goto
<1>3. ASSUME NEW c \in Client, SubNoFreeSlot(c) PROVE ReachInv'
  <2>1. delivered' = delivered
    BY <1>3 DEF delivered, SubNoFreeSlot
  <2> QED
    BY <1>3, <2>1 DEF ReachInv, IsMatch, SubNoFreeSlot, Goto
<1>4. ASSUME NEW c \in Client, SubInstall(c) PROVE ReachInv'
  BY <1>4, NoScan, FillShape DEF ReachInv, SubInstall
<1>5. ASSUME NEW c \in Client, SubMallocFails(c) PROVE ReachInv'
  BY <1>5, NoScan, FillShape DEF ReachInv, SubMallocFails
<1>6. ASSUME NEW c \in Client, SubCallocFails(c) PROVE ReachInv'
  <2>1. delivered' = delivered
    BY <1>6 DEF delivered, SubCallocFails
  <2> QED
    BY <1>6, <2>1 DEF ReachInv, SubCallocFails, Abort
<1>7. ASSUME NEW c \in Client, NEW k \in Key \cup {ALL}, UnsubLock(c, k)
    PROVE ReachInv'
  <2>1. delivered' = delivered
    BY <1>7 DEF delivered, UnsubLock
  <2> QED
    BY <1>7, <2>1 DEF ReachInv, IsMatch, UnsubLock, Goto
<1>8. ASSUME NEW c \in Client, UnsubNoTable(c) PROVE ReachInv'
  <2>1. delivered' = delivered
    BY <1>8 DEF delivered, UnsubNoTable
  <2> QED
    BY <1>8, <2>1 DEF ReachInv, IsMatch, UnsubNoTable, UnsubReturn, Goto
<1>9. ASSUME NEW c \in Client, UnsubSkip(c) PROVE ReachInv'
  <2>1. delivered' = delivered
    BY <1>9 DEF delivered, UnsubSkip
  <2> QED
    BY <1>9, <2>1 DEF ReachInv, IsMatch, UnsubSkip
<1>10. ASSUME NEW c \in Client, UnsubStop(c) PROVE ReachInv'
  <2>1. delivered' = delivered
    BY <1>10 DEF delivered, UnsubStop
  <2> QED
    BY <1>10, <2>1 DEF ReachInv, IsMatch, UnsubStop, Goto
<1>11. ASSUME NEW c \in Client, UnsubSignal(c) PROVE ReachInv'
  <2>1. delivered' = delivered
    BY <1>11 DEF delivered, UnsubSignal
  <2> QED
    BY <1>11, <2>1 DEF ReachInv, IsMatch, PcType, UnsubSignal, SignalAndGoto
<1>12. ASSUME NEW c \in Client, UnsubClear(c) PROVE ReachInv'
  <2>1. \A u \in Thread : pc[u] \notin InScan
    BY <1>12, NoScan DEF UnsubClear
  <2>2. \A u \in Thread : pc'[u] \notin InScan
    BY <1>12, <2>1, ClearShape
  <2> QED
    BY <2>2 DEF ReachInv
<1>13. ASSUME NEW c \in Client, UnsubJoin(c) PROVE ReachInv'
  <2>1. \A u \in Thread : pc[u] \notin InScan
    BY <1>13, NoScan DEF UnsubJoin
  <2>2. \A u \in Thread : pc'[u] \notin InScan
    BY <1>13, <2>1, ClearShape
  <2> QED
    BY <2>2 DEF ReachInv
<1>14. ASSUME NEW c \in Client, UnsubDone(c) PROVE ReachInv'
  <2>1. delivered' = delivered
    BY <1>14 DEF delivered, UnsubDone
  <2> QED
    BY <1>14, <2>1 DEF ReachInv, IsMatch, UnsubDone, UnsubReturn, Goto
<1>15. ASSUME NEW t \in Thread, NEW m \in Msg, NEW o \in Options,
    PostCall(t, m, o) PROVE ReachInv'
  <2>1. delivered' = delivered
    BY <1>15 DEF delivered, PostCall
  <2> QED
    BY <1>15, <2>1 DEF ReachInv, IsMatch, PostCall, IsNextPost, Goto
<1>16. ASSUME NEW t \in Thread, PostLock(t) PROVE ReachInv'
  <2>1. delivered' = delivered
    BY <1>16 DEF delivered, PostLock
  <2> QED
    BY <1>16, <2>1 DEF ReachInv, IsMatch, FrameType, PostLock, Goto
<1>17. ASSUME NEW t \in Thread, PostNoTable(t) PROVE ReachInv'
  <2>1. delivered' = delivered
    BY <1>17 DEF delivered, PostNoTable
  <2> QED
    BY <1>17, <2>1, PcReturns DEF ReachInv, IsMatch, PostNoTable
<1>18. ASSUME NEW t \in Thread, PostLockTimeout(t) PROVE ReachInv'
  <2>1. delivered' = delivered
    BY <1>18 DEF delivered, PostLockTimeout
  <2> QED
    BY <1>18, <2>1, PcReturns DEF ReachInv, IsMatch, PostLockTimeout
<1>19. ASSUME NEW t \in Thread, postEVT_ASyncThreadCached(t) PROVE ReachInv'
  <2>1. delivered' = delivered
    BY <1>19 DEF delivered, postEVT_ASyncThreadCached
  <2> QED
    BY <1>19, <2>1, PcReturns DEF ReachInv, IsMatch, postEVT_ASyncThreadCached
<1>20. ASSUME NEW t \in Thread, PostSkip(t) PROVE ReachInv'
  <2>1. delivered' = delivered
    BY <1>20 DEF delivered, PostSkip
  <2>2. /\ idx[t] \in Slot /\ ~IsMatch(idx[t], evt[t])
        /\ idx'[t] = idx[t] + 1
        /\ \A u \in Thread : u # t => idx'[u] = idx[u]
        /\ UNCHANGED <<pc, evt, opt, cbProc, evtIDs>>
    BY <1>20 DEF PostSkip, NextSlot, FrameType
  <2>3. \A s \in Slot : s < idx'[t] => s < idx[t] \/ s = idx[t]
    BY <2>2, SMT
  <2> QED
    BY <2>1, <2>2, <2>3 DEF ReachInv, IsMatch
<1>21. ASSUME NEW t \in Thread, PostSync(t) PROVE ReachInv'
  <2>1. delivered' = delivered
    BY <1>21 DEF delivered, PostSync
  <2> QED
    BY <1>21, <2>1 DEF ReachInv, IsMatch, PostSync, Goto
<1>22. ASSUME NEW t \in Thread, PostSyncReturn(t) PROVE ReachInv'
  <2>1. delivered' = delivered
    BY <1>22 DEF delivered, PostSyncReturn
  <2> QED
    BY <1>22, <2>1 DEF ReachInv, IsMatch, FrameInv, PostSyncReturn, NextSlot, Goto
<1>23. ASSUME NEW t \in Thread, PostEnqueue(t) PROVE ReachInv'
  <2>1. /\ \A u \in Thread : pc'[u] \in InScan => pc[u] \in InScan
        /\ UNCHANGED <<idx, evt, opt, cbProc, evtIDs>>
    BY <1>23 DEF PostEnqueue, AtMatch, PcType
  <2> QED
    BY <1>23, <2>1, EnqueueDelivers DEF ReachInv, IsMatch
<1>24. ASSUME NEW t \in Thread, PostSignal(t) PROVE ReachInv'
  <2>1. delivered' = delivered
    BY <1>24 DEF delivered, PostSignal
  <2> QED
    BY <1>24, <2>1 DEF ReachInv, IsMatch, SignalInv, FrameType, PcType, PostSignal,
       SignalAndGoto, NextSlot
<1>25. ASSUME NEW t \in Thread, PostCreateFails(t) PROVE ReachInv'
  <2>1. delivered' = delivered
    BY <1>25 DEF delivered, PostCreateFails
  <2> QED
    BY <1>25, <2>1 DEF ReachInv, PostCreateFails, Abort
<1>26. ASSUME NEW t \in Thread, PostFullNonBlock(t) PROVE ReachInv'
  <2>1. delivered' = delivered
    BY <1>26 DEF delivered, PostFullNonBlock
  <2> QED
    BY <1>26, <2>1 DEF ReachInv, IsMatch, PostFullNonBlock, AtFullQueue, NextSlot
<1>27. ASSUME NEW t \in Thread, PostFullTimeout(t) PROVE ReachInv'
  <2>1. delivered' = delivered
    BY <1>27 DEF delivered, PostFullTimeout
  <2> QED
    BY <1>27, <2>1 DEF ReachInv, PostFullTimeout, AtFullQueue, Abort
<1>28. ASSUME NEW t \in Thread, PostFullRetry(t) PROVE ReachInv'
  <2>1. delivered' = delivered
    BY <1>28 DEF delivered, PostFullRetry
  <2> QED
    BY <1>28, <2>1 DEF ReachInv, IsMatch, PcType, PostFullRetry, AtFullQueue, AtMatch,
       SignalAndGoto
<1>29. ASSUME NEW t \in Thread, PostDone(t) PROVE ReachInv'
  <2>1. delivered' = delivered
    BY <1>29 DEF delivered, PostDone
  <2> QED
    BY <1>29, <2>1, PcReturns DEF ReachInv, IsMatch, PostDone
<1>30. ASSUME NEW s \in Slot, AsyncExit(s) PROVE ReachInv'
  <2>1. delivered' = delivered
    BY <1>30 DEF delivered, AsyncExit
  <2> QED
    BY <1>30, <2>1 DEF ReachInv, IsMatch, AsyncExit, Goto
<1>31. ASSUME NEW s \in Slot, AsyncWait(s) PROVE ReachInv'
  <2>1. delivered' = delivered
    BY <1>31 DEF delivered, AsyncWait
  <2> QED
    BY <1>31, <2>1 DEF ReachInv, IsMatch, AsyncWait, Goto
<1>32. ASSUME NEW s \in Slot, AsyncSpuriousWakeup(s) PROVE ReachInv'
  <2>1. delivered' = delivered
    BY <1>32 DEF delivered, AsyncSpuriousWakeup
  <2> QED
    BY <1>32, <2>1 DEF ReachInv, IsMatch, AsyncSpuriousWakeup, Goto
<1>33. ASSUME NEW s \in Slot, AsyncTake(s) PROVE ReachInv'
  <2>1. delivered' = delivered
    BY <1>33 DEF delivered, AsyncTake
  <2> QED
    BY <1>33, <2>1 DEF ReachInv, IsMatch, AsyncTake, Goto
<1>34. ASSUME NEW s \in Slot, AsyncCbReturn(s) PROVE ReachInv'
  <2>1. delivered' = delivered
    BY <1>34 DEF delivered, AsyncCbReturn
  <2> QED
    BY <1>34, <2>1 DEF ReachInv, IsMatch, AsyncCbReturn, Goto
<1>35. ASSUME NEW s \in Slot, AsyncDrain(s) PROVE ReachInv'
  <2>1. delivered' = delivered
    BY <1>35 DEF delivered, AsyncDrain
  <2> QED
    BY <1>35, <2>1 DEF ReachInv, IsMatch, AsyncDrain, OptNonBlock, Goto
<1>36. ASSUME NEW s \in Slot, AsyncDrained(s) PROVE ReachInv'
  <2>1. delivered' = delivered
    BY <1>36 DEF delivered, AsyncDrained
  <2> QED
    BY <1>36, <2>1 DEF ReachInv, IsMatch, AsyncDrained, Goto
<1>37. CASE UNCHANGED vars
  <2>1. delivered' = delivered
    BY <1>37 DEF delivered
  <2> QED
    BY <1>37, <2>1 DEF ReachInv, IsMatch
<1> QED
  BY <1>1, <1>2, <1>3, <1>4, <1>5, <1>6, <1>7, <1>8, <1>9, <1>10, <1>11, <1>12, <1>13,
     <1>14, <1>15, <1>16, <1>17, <1>18, <1>19, <1>20, <1>21, <1>22, <1>23, <1>24,
     <1>25, <1>26, <1>27, <1>28, <1>29, <1>30, <1>31, <1>32, <1>33, <1>34, <1>35,
     <1>36, <1>37 DEF Next, subEVT, unsubEVT, postEVT, PostScan, ASyncEventThread

(* The wakeups survive a step that lets no slot's thread begin to wait, fills no    *)
(* queue of a waiting one, and moves nobody who is about to signal or to join.      *)
LEMMA WakeupKept ==
    ASSUME WakeupNotLost,
           \A s \in Slot : /\ pc'[s] \in {"none", "wait"} => pc'[s] = pc[s]
                           /\ pc[s] = "wait" => /\ queue'[s] = queue[s]
                                                /\ shouldExit'[s] = shouldExit[s],
           \A t \in Thread : pc[t] \in {"signal", "unsubSignal"} =>
                                pc'[t] = pc[t] /\ idx'[t] = idx[t],
           \A c \in Client : pc'[c] \in {"unsubSignal", "unsubJoin"} =>
              /\ pc'[c] = pc[c] /\ idx'[c] = idx[c]
              /\ idx[c] \in Slot /\ shouldExit'[idx[c]] = shouldExit[idx[c]]
    PROVE  WakeupNotLost'
  BY DEF WakeupNotLost, IsEmpty, HasASyncThread

(* A postEVT that returns, or aborts, was not about to signal, and waits for nobody. *)
LEMMA WakeupReturns ==
    ASSUME PcType, FrameType, FrameInv, WakeupNotLost, NEW t \in Thread, NEW r,
           PostReturn(t, r), pc[t] \in {"lock", "post"}, UNCHANGED <<queue, shouldExit>>
    PROVE  WakeupNotLost'
<1>1. CASE \A u \in Thread : pc'[u] = "dead"
  BY <1>1 DEF WakeupNotLost
<1>2. CASE /\ pc'[t] \in {"idle", "cb", "drain"}
           /\ \A u \in Thread : u # t => pc'[u] = pc[u] /\ idx'[u] = idx[u]
  BY <1>2, WakeupKept DEF FrameInv
<1> QED
  BY <1>1, <1>2, PcReturns

(* Every step keeps the wakeups: the thread of a slot waits only after it has seen  *)
(* an empty queue and no stop flag, and whoever changes one of them signals.        *)
LEMMA WakeupStep ==
  ASSUME ConlesAssumption, CtxType, TableType, QueueType, CacheType, PcType,
         FrameType, EnvType, CtxMutexHeld, FrameInv, FreeSlotIsQuiet,
         WakeupNotLost, [Next]_vars
  PROVE  WakeupNotLost'
<1>1. ASSUME NEW c \in Client, SubLock(c) PROVE WakeupNotLost'
  BY <1>1, WakeupKept DEF SubLock, Goto, PcType, FrameInv
<1>2. ASSUME NEW c \in Client, SubReject(c) PROVE WakeupNotLost'
  BY <1>2, WakeupKept DEF SubReject, Goto, PcType, FrameInv
<1>3. ASSUME NEW c \in Client, SubNoFreeSlot(c) PROVE WakeupNotLost'
  BY <1>3, WakeupKept DEF SubNoFreeSlot, Goto, PcType, FrameInv
<1>4. ASSUME NEW c \in Client, SubInstall(c) PROVE WakeupNotLost'
  <2>1. \A u \in Client : pc'[u] \notin {"unsubSignal", "unsubJoin"}
    BY <1>4, FillShape DEF SubInstall, CtxMutexHeld
  <2>2. /\ UNCHANGED <<queue, idx>> /\ \A u \in Thread : u # c => pc'[u] = pc[u]
        /\ pc[c] = "sub" /\ pc'[c] = "idle" /\ c \notin Slot
    BY <1>4, FillShape DEF SubInstall, ConlesAssumption
  <2>3. \A s \in Slot : pc[s] = "wait" => shouldExit'[s] = shouldExit[s]
    BY <1>4, FillShape
  <2> QED
    BY <2>1, <2>2, <2>3, WakeupKept
<1>5. ASSUME NEW c \in Client, SubMallocFails(c) PROVE WakeupNotLost'
  <2>1. \A u \in Client : pc'[u] \notin {"unsubSignal", "unsubJoin"}
    BY <1>5, FillShape DEF SubMallocFails, CtxMutexHeld
  <2>2. /\ UNCHANGED <<queue, idx>> /\ \A u \in Thread : u # c => pc'[u] = pc[u]
        /\ pc[c] = "sub" /\ pc'[c] = "idle" /\ c \notin Slot
    BY <1>5, FillShape DEF SubMallocFails, ConlesAssumption
  <2>3. \A s \in Slot : pc[s] = "wait" => shouldExit'[s] = shouldExit[s]
    BY <1>5, FillShape
  <2> QED
    BY <2>1, <2>2, <2>3, WakeupKept
<1>6. ASSUME NEW c \in Client, SubCallocFails(c) PROVE WakeupNotLost'
  BY <1>6 DEF SubCallocFails, Abort, WakeupNotLost
<1>7. ASSUME NEW c \in Client, NEW k \in Key \cup {ALL}, UnsubLock(c, k)
      PROVE  WakeupNotLost'
  BY <1>7, WakeupKept DEF UnsubLock, Goto, PcType, FrameInv
<1>8. ASSUME NEW c \in Client, UnsubNoTable(c) PROVE WakeupNotLost'
  BY <1>8, WakeupKept DEF UnsubNoTable, UnsubReturn, Goto, PcType, FrameInv
<1>9. ASSUME NEW c \in Client, UnsubSkip(c) PROVE WakeupNotLost'
  BY <1>9, WakeupKept DEF UnsubSkip, PcType, FrameInv
<1>10. ASSUME NEW c \in Client, UnsubStop(c) PROVE WakeupNotLost'
  <2>1. /\ idx[c] \in Slot /\ c \notin Slot /\ UNCHANGED <<queue, idx>>
        /\ pc[c] = "unsub" /\ pc'[c] = "unsubSignal"
        /\ \A u \in Thread : u # c => pc'[u] = pc[u]
        /\ \A r \in Slot : r # idx[c] => shouldExit'[r] = shouldExit[r]
    BY <1>10 DEF UnsubStop, Goto, PcType
  <2>2. \A u \in Client : u # c => pc'[u] \notin {"unsubSignal", "unsubJoin"}
    BY <1>10, <2>1 DEF UnsubStop, CtxMutexHeld
  <2>3. shouldExit'[idx[c]] /\ pc[idx[c]] # "none"
    BY <1>10, <2>1 DEF UnsubStop, HasASyncThread, QueueType
  <2> QED
    BY <2>1, <2>2, <2>3 DEF WakeupNotLost, IsEmpty, HasASyncThread
<1>11. ASSUME NEW c \in Client, UnsubSignal(c) PROVE WakeupNotLost'
  <2>1. /\ idx[c] \in Slot /\ c \notin Slot /\ UNCHANGED <<queue, idx, shouldExit>>
        /\ pc[c] = "unsubSignal" /\ pc'[c] = "unsubJoin"
        /\ pc'[idx[c]] = IF pc[idx[c]] = "wait" THEN "top" ELSE pc[idx[c]]
        /\ \A u \in Thread : u \notin {c, idx[c]} => pc'[u] = pc[u]
    BY <1>11 DEF UnsubSignal, SignalAndGoto, PcType, FrameInv
  <2>2. \A u \in Client : u # c => pc'[u] \notin {"unsubSignal", "unsubJoin"}
    BY <1>11, <2>1 DEF CtxMutexHeld
  <2> QED
    BY <2>1, <2>2 DEF WakeupNotLost, IsEmpty, HasASyncThread
<1>12. ASSUME NEW c \in Client, UnsubClear(c) PROVE WakeupNotLost'
  <2>1. \A u \in Client : pc'[u] \notin {"unsubSignal", "unsubJoin"}
    BY <1>12, ClearShape DEF UnsubClear, CtxMutexHeld
  <2> QED
    BY <1>12, <2>1, ClearShape DEF WakeupNotLost, IsEmpty, HasASyncThread
<1>13. ASSUME NEW c \in Client, UnsubJoin(c) PROVE WakeupNotLost'
  <2>1. \A u \in Client : pc'[u] \notin {"unsubSignal", "unsubJoin"}
    BY <1>13, ClearShape DEF UnsubJoin, CtxMutexHeld
  <2> QED
    BY <1>13, <2>1, ClearShape DEF WakeupNotLost, IsEmpty, HasASyncThread
<1>14. ASSUME NEW c \in Client, UnsubDone(c) PROVE WakeupNotLost'
  BY <1>14, WakeupKept DEF UnsubDone, UnsubReturn, Goto, PcType, FrameInv
<1>15. ASSUME NEW t \in Thread, NEW m \in Msg, NEW o \in Options,
             PostCall(t, m, o)
      PROVE  WakeupNotLost'
  BY <1>15, WakeupKept DEF PostCall, IsNextPost, Goto, PcType, FrameInv
<1>16. ASSUME NEW t \in Thread, PostLock(t) PROVE WakeupNotLost'
  BY <1>16, WakeupKept DEF PostLock, Goto, PcType, FrameInv
<1>17. ASSUME NEW t \in Thread, PostNoTable(t) PROVE WakeupNotLost'
  BY <1>17, WakeupReturns DEF PostNoTable
<1>18. ASSUME NEW t \in Thread, PostLockTimeout(t) PROVE WakeupNotLost'
  BY <1>18, WakeupReturns DEF PostLockTimeout
<1>19. ASSUME NEW t \in Thread, postEVT_ASyncThreadCached(t) PROVE WakeupNotLost'
  BY <1>19, WakeupReturns DEF postEVT_ASyncThreadCached
<1>20. ASSUME NEW t \in Thread, PostSkip(t) PROVE WakeupNotLost'
  BY <1>20, WakeupKept DEF PostSkip, NextSlot, PcType, FrameInv
<1>21. ASSUME NEW t \in Thread, PostSync(t) PROVE WakeupNotLost'
  BY <1>21, WakeupKept DEF PostSync, AtMatch, Goto, PcType, FrameInv
<1>22. ASSUME NEW t \in Thread, PostSyncReturn(t) PROVE WakeupNotLost'
  BY <1>22, WakeupKept DEF PostSyncReturn, NextSlot, Goto, PcType, FrameInv
<1>23. ASSUME NEW t \in Thread, PostEnqueue(t) PROVE WakeupNotLost'
  <2>1. /\ idx[t] \in Slot /\ pc[t] = "post" /\ UNCHANGED <<idx, shouldExit>>
        /\ \A s \in Slot : s # idx[t] => queue'[s] = queue[s]
    BY <1>23, QueueShape DEF PostEnqueue, AtMatch
  <2>2. /\ pc'[t] = "signal"
        /\ \A u \in Thread : u # t => pc'[u] = pc[u] \/ (pc[u] = "none" /\ pc'[u] = "top")
    BY <1>23, <2>1 DEF PostEnqueue, PcType
  <2>3. \A c \in Client : pc[c] \notin {"unsubSignal", "unsubJoin"}
    BY <2>1 DEF CtxMutexHeld
  <2>4. \A u \in Thread : pc[u] # "signal"
    BY <2>1 DEF CtxMutexHeld
  <2>5. ASSUME NEW s \in Slot, pc'[s] = "wait"
        PROVE  ~shouldExit'[s] /\ (s = idx[t] \/ queue'[s] = <<>>)
    <3>1. pc[s] = "wait" /\ s # t
      BY <2>2, <2>5
    <3> QED
      BY <2>1, <2>3, <2>4, <3>1 DEF WakeupNotLost, IsEmpty
  <2>6. \A c \in Client : pc'[c] \notin {"unsubSignal", "unsubJoin"}
    BY <2>2, <2>3
  <2> QED
    BY <2>1, <2>2, <2>5, <2>6 DEF WakeupNotLost, IsEmpty
<1>24. ASSUME NEW t \in Thread, PostSignal(t) PROVE WakeupNotLost'
  <2>1. /\ idx[t] \in Slot /\ pc[t] = "signal" /\ UNCHANGED <<queue, shouldExit>>
        /\ pc'[t] = "post"
        /\ pc'[idx[t]] # "wait"
        /\ \A u \in Thread : u # t => pc'[u] = pc[u] \/ (pc[u] = "wait" /\ pc'[u] = "top")
        /\ \A u \in Thread : u # t => idx'[u] = idx[u]
    BY <1>24 DEF PostSignal, SignalAndGoto, NextSlot, PcType, FrameInv, FrameType
  <2>2. \A c \in Client : pc'[c] \notin {"unsubSignal", "unsubJoin"}
    BY <2>1 DEF CtxMutexHeld
  <2> QED
    BY <2>1, <2>2 DEF WakeupNotLost, IsEmpty
<1>25. ASSUME NEW t \in Thread, PostCreateFails(t) PROVE WakeupNotLost'
  BY <1>25 DEF PostCreateFails, Abort, WakeupNotLost
<1>26. ASSUME NEW t \in Thread, PostFullNonBlock(t) PROVE WakeupNotLost'
  BY <1>26, WakeupKept DEF PostFullNonBlock, AtFullQueue, AtMatch, NextSlot, PcType, FrameInv
<1>27. ASSUME NEW t \in Thread, PostFullTimeout(t) PROVE WakeupNotLost'
  BY <1>27 DEF PostFullTimeout, Abort, WakeupNotLost
<1>28. ASSUME NEW t \in Thread, PostFullRetry(t) PROVE WakeupNotLost'
  BY <1>28, WakeupKept DEF PostFullRetry, AtFullQueue, AtMatch, SignalAndGoto, PcType, FrameInv
<1>29. ASSUME NEW t \in Thread, PostDone(t) PROVE WakeupNotLost'
  BY <1>29, WakeupReturns DEF PostDone
<1>30. ASSUME NEW s \in Slot, AsyncExit(s) PROVE WakeupNotLost'
  BY <1>30, WakeupKept DEF AsyncExit, Goto, PcType, FrameInv
<1>31. ASSUME NEW s \in Slot, AsyncWait(s) PROVE WakeupNotLost'
  BY <1>31 DEF AsyncWait, Goto, PcType, WakeupNotLost, IsEmpty, HasASyncThread
<1>32. ASSUME NEW s \in Slot, AsyncSpuriousWakeup(s) PROVE WakeupNotLost'
  BY <1>32, WakeupKept DEF AsyncSpuriousWakeup, Goto, PcType, FrameInv
<1>33. ASSUME NEW s \in Slot, AsyncTake(s) PROVE WakeupNotLost'
  BY <1>33, WakeupKept DEF AsyncTake, Goto, PcType, FrameInv
<1>34. ASSUME NEW s \in Slot, AsyncCbReturn(s) PROVE WakeupNotLost'
  BY <1>34, WakeupKept DEF AsyncCbReturn, Goto, PcType, FrameInv
<1>35. ASSUME NEW s \in Slot, AsyncDrain(s) PROVE WakeupNotLost'
  BY <1>35, WakeupKept DEF AsyncDrain, Goto, PcType, FrameInv
<1>36. ASSUME NEW s \in Slot, AsyncDrained(s) PROVE WakeupNotLost'
  BY <1>36, WakeupKept DEF AsyncDrained, Goto, PcType, FrameInv
<1>37. CASE UNCHANGED vars
  BY <1>37 DEF WakeupNotLost, IsEmpty, HasASyncThread
<1> QED
  BY <1>1, <1>2, <1>3, <1>4, <1>5, <1>6, <1>7, <1>8, <1>9, <1>10, <1>11, <1>12, <1>13,
     <1>14, <1>15, <1>16, <1>17, <1>18, <1>19, <1>20, <1>21, <1>22, <1>23, <1>24,
     <1>25, <1>26, <1>27, <1>28, <1>29, <1>30, <1>31, <1>32, <1>33, <1>34, <1>35,
     <1>36, <1>37 DEF Next, subEVT, unsubEVT, postEVT, PostScan, ASyncEventThread
=====================================================================================
