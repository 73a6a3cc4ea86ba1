------------------------------ MODULE ConlesEventProofs ------------------------------
(* IInv is an inductive invariant of ConlesEvent, and with it the safety properties *)
(* that TLC checks on small instances hold for all values of the constants.         *)
EXTENDS ConlesEventSteps, FiniteSetTheorems

\* Tuples of variables and names of sets are expanded throughout.
USE DEF vars, ctxVars, tableVars, slotVars, frameVars, envVars
USE DEF Thread, Slot, InCall, InScan, InUnsub, InCtx, ClientPc, AsyncPc

(* There are no more occupied slots than slots.                                     *)
LEMMA OccupiedFinite ==
    ASSUME ConlesAssumption
    PROVE  /\ IsFiniteSet(Occupied)
           /\ Cardinality(Occupied) \in Nat
           /\ Occupied = Slot => Cardinality(Occupied) = MaxSuberNum
<1>1. IsFiniteSet(Slot) /\ Cardinality(Slot) = MaxSuberNum
  BY FS_Interval DEF ConlesAssumption
<1>2. Occupied \subseteq Slot
  BY DEF Occupied
<1> QED
  BY <1>1, <1>2, FS_Subset, FS_CardinalityType

(* An unsigned long that is small enough is what it is.                             *)
LEMMA SmallMod ==
    ASSUME ConlesAssumption, NEW n \in Nat, n < ULONG_MOD
    PROVE  n % ULONG_MOD = n
<1>1. ULONG_MOD \in Nat \ {0} /\ n \in 0 .. ULONG_MOD - 1
  BY DEF ConlesAssumption
<1> QED
  BY <1>1, SMT

(* Count and table stay right when nobody changes them and nobody moves into or     *)
(* through unsubEVT(NULL).                                                          *)
LEMMA CountKept ==
    ASSUME CountInv, NEW t \in Thread, pc[t] # "dead",
           UNCHANGED <<inited, curSuberNum, cbProc, evtIDs, faults>>,
           \A c \in Client : pc[c] \in InUnsub <=> pc'[c] \in InUnsub,
           \A c \in Client : pc[c] \in InUnsub => target'[c] = target[c],
           \A c \in Client : pc[c] \in InUnsub /\ target[c] = ALL => idx'[c] = idx[c]
    PROVE  CountInv'
<1>1. ~HasAborted
  BY DEF HasAborted
<1>2. ClearsAll' <=> ClearsAll
  BY DEF ClearsAll
<1>3. Occupied' = Occupied /\ \A s \in Slot : IsFree(s)' <=> IsFree(s)
  BY DEF Occupied, IsFree
<1> QED
  BY <1>1, <1>2, <1>3 DEF CountInv

(* They stay right when a postEVT returns or aborts.                                *)
LEMMA CountReturns ==
    ASSUME ConlesAssumption, PcType, FrameType, FrameInv, CountInv, NEW t \in Thread, NEW r,
           PostReturn(t, r), pc[t] \in {"lock", "post"},
           UNCHANGED <<inited, curSuberNum, cbProc, evtIDs, faults, target>>
    PROVE  CountInv'
<1>1. CASE \A u \in Thread : pc'[u] = "dead"
  BY <1>1 DEF CountInv, HasAborted
<1>2. CASE /\ pc'[t] \in {"idle", "cb", "drain"}
           /\ \A u \in Thread : u # t => pc'[u] = pc[u] /\ idx'[u] = idx[u]
  BY <1>2, CountKept
<1> QED
  BY <1>1, <1>2, PcReturns

(* They stay right when unsubEVT gives a slot back: it counts the slot down, or, as *)
(* unsubEVT(NULL), goes on behind it.                                               *)
LEMMA CountCleared ==
    ASSUME ConlesAssumption, CtxType, TableType, PcType, FrameType, EnvType, CtxMutexHeld,
           FrameInv, FreeSlotIsQuiet, CountInv, NEW c \in Client,
           UnsubClear(c) \/ UnsubJoin(c)
    PROVE  CountInv'
<1> DEFINE r == idx[c]
<1>1. SUFFICES ASSUME faults' = 0, ~HasAborted' PROVE CountInv'
  BY DEF CountInv
<1>2. /\ ClearSlot(c, r) /\ faults = 0 /\ UNCHANGED inited /\ r \in Slot /\ c \notin Slot
      /\ pc[c] \in InUnsub /\ ~HasAborted
      /\ \A u \in Client : u # c => pc'[u] = pc[u]
  BY <1>1, ClearShape DEF UnsubClear, UnsubJoin, ConlesAssumption, HasAborted
<1>3. pc'[c] = AfterClear(c) /\ \A u \in Client : u # c => pc'[u] \notin InUnsub
  BY <1>2 DEF UnsubClear, UnsubJoin, Goto, PcType, CtxMutexHeld
<1>4. \A s \in Slot : IsFree(s) <=> evtIDs[s] = None
  BY <1>2 DEF CountInv
<1>5. /\ Occupied' = Occupied \ {r}
      /\ \A s \in Slot : IsFree(s)' <=> evtIDs'[s] = None
      /\ \A s \in Slot : IsFree(s)' <=> IsFree(s) \/ s = r
  BY <1>2, <1>4, ClearShape DEF Occupied, IsFree
<1>6. ~inited' => Occupied' = {} /\ curSuberNum' = 0
  <2>1. CASE UnsubClear(c)
    BY <1>2, <2>1 DEF UnsubClear
  <2>2. CASE UnsubJoin(c)
    <3>1. r \in Occupied
      BY <1>2, <2>2 DEF UnsubJoin, CanJoin, Occupied, FreeSlotIsQuiet
    <3> QED
      BY <1>2, <3>1 DEF CountInv
  <2> QED
    BY <2>1, <2>2
<1>7. CASE target[c] = ALL
  <2>1. pc'[c] = "unsub" /\ target' = target /\ idx' = [idx EXCEPT ![c] = r + 1]
    BY <1>2, <1>3, <1>7 DEF AfterClear, ClearSlot
  <2>2. ClearsAll'
    BY <1>7, <2>1 DEF ClearsAll
  <2>3. \A s \in Slot : s < r + 1 => s < r \/ s = r
    BY <1>2
  <2>4. \A s \in Slot : s < r + 1 => IsFree(s)'
    BY <1>2, <1>5, <1>7, <2>3 DEF CountInv
  <2>5. idx'[c] = r + 1
    BY <2>1 DEF FrameType
  <2> QED
    BY <1>3, <1>5, <1>6, <2>2, <2>4, <2>5 DEF CountInv
<1>8. CASE target[c] # ALL
  <2>1. \A u \in Client : pc'[u] \notin InUnsub
    BY <1>3, <1>8 DEF AfterClear
  <2>2. ~ClearsAll
    BY <1>2, <1>8 DEF ClearsAll, CtxMutexHeld
  <2>3. curSuberNum = Cardinality(Occupied) /\ curSuberNum' = (curSuberNum - 1) % ULONG_MOD
    BY <1>2, <1>8, <2>2 DEF CountInv, ClearSlot
  <2>4. r \in Occupied
    <3>1. CASE UnsubClear(c)
      BY <1>2, <1>8, <3>1 DEF UnsubClear, IsTarget, FrameInv, Occupied, IsFree,
         ConlesAssumption
    <3>2. CASE UnsubJoin(c)
      BY <1>2, <3>2 DEF UnsubJoin, CanJoin, Occupied, FreeSlotIsQuiet
    <3> QED
      BY <3>1, <3>2
  <2>5. Cardinality(Occupied') = Cardinality(Occupied) - 1
    BY <1>5, <2>4, OccupiedFinite, FS_RemoveElement
  <2>6. Cardinality(Occupied) # 0
    BY <2>4, OccupiedFinite, FS_EmptySet
  <2>7. curSuberNum - 1 \in Nat /\ curSuberNum - 1 < ULONG_MOD
    BY <2>3, <2>6, OccupiedFinite DEF CtxType
  <2>8. curSuberNum' = Cardinality(Occupied')
    BY <2>3, <2>5, <2>7, SmallMod
  <2> QED
    BY <1>5, <1>6, <2>1, <2>8 DEF CountInv
<1> QED
  BY <1>7, <1>8

(* Every step keeps count and table in agreement: subEVT counts up under the mutex  *)
(* under which it has found a free slot, and unsubEVT down, or to zero at its end.  *)
LEMMA CountStep ==
  ASSUME ConlesAssumption, CtxType, TableType, QueueType, CacheType, PcType,
         FrameType, EnvType, CtxMutexHeld, FrameInv, FreeSlotIsQuiet, CountInv,
         [Next]_vars
  PROVE  CountInv'
<1>1. ASSUME NEW c \in Client, SubLock(c) PROVE CountInv'
  BY <1>1, CountKept DEF SubLock, Goto, PcType
<1>2. ASSUME NEW c \in Client, SubReject(c) PROVE CountInv'
  BY <1>2, CountKept DEF SubReject, Goto, PcType
<1>3. ASSUME NEW c \in Client, SubNoFreeSlot(c) PROVE CountInv'
  BY <1>3, CountKept DEF SubNoFreeSlot, Goto, PcType
<1>4. ASSUME NEW c \in Client, SubInstall(c) PROVE CountInv'
  <2>1. SUFFICES ASSUME faults' = 0, ~HasAborted'
                 PROVE  /\ \A s \in Slot : IsFree(s)' <=> evtIDs'[s] = None
                        /\ ~ClearsAll'
                        /\ curSuberNum' = Cardinality(Occupied')
                        /\ inited'
    BY <2>1 DEF CountInv, ClearsAll
  <2>2. faults = 0 /\ ~HasAborted /\ ~ClearsAll
    BY <1>4, <2>1 DEF SubInstall, HasAborted, ClearsAll, CtxMutexHeld
  <2>3. PICK r \in Slot, a \in SubArgs : IsFirstFree(r) /\ FillSlot(r, a.key, a.ids)
    BY <1>4 DEF SubInstall
  <2>4. a.key # None /\ a.ids # None
    BY DEF ConlesAssumption
  <2>5. Occupied' = Occupied \cup {r} /\ r \notin Occupied
    BY <2>3, <2>4 DEF FillSlot, IsFirstFree, IsFree, Occupied, TableType
  <2>6. \A s \in Slot : IsFree(s)' <=> evtIDs'[s] = None
    BY <2>2, <2>3, <2>4 DEF FillSlot, IsFree, CountInv, TableType
  <2>7. curSuberNum = Cardinality(Occupied) /\ curSuberNum < MaxSuberNum
    BY <1>4, <2>2 DEF CountInv, SubInstall
  <2>8. curSuberNum' = curSuberNum + 1
    <3>1. curSuberNum' = (curSuberNum + 1) % ULONG_MOD
      BY <1>4 DEF SubInstall
    <3>2. curSuberNum \in Nat /\ curSuberNum + 1 < ULONG_MOD
      BY <2>7 DEF ConlesAssumption, CtxType
    <3> QED
      BY <3>1, <3>2, SmallMod
  <2>9. Cardinality(Occupied') = Cardinality(Occupied) + 1
    BY <2>5, OccupiedFinite, FS_AddElement
  <2>10. ~ClearsAll'
    <3>1. pc' = [pc EXCEPT ![c] = "idle"] /\ target' = target
      BY <1>4 DEF SubInstall, Goto
    <3> QED
      BY <2>2, <3>1 DEF ClearsAll, PcType
  <2> QED
    BY <1>4, <2>6, <2>7, <2>8, <2>9, <2>10 DEF SubInstall
<1>5. ASSUME NEW c \in Client, SubMallocFails(c) PROVE CountInv'
  BY <1>5 DEF SubMallocFails, CountInv, EnvType
<1>6. ASSUME NEW c \in Client, SubCallocFails(c) PROVE CountInv'
  BY <1>6 DEF SubCallocFails, CountInv, EnvType
<1>7. ASSUME NEW c \in Client, NEW k \in Key \cup {ALL}, UnsubLock(c, k)
      PROVE  CountInv'
  <2>1. SUFFICES ASSUME faults' = 0, ~HasAborted' PROVE CountInv'
    BY DEF CountInv
  <2>2. /\ faults = 0 /\ ~HasAborted
        /\ UNCHANGED <<inited, curSuberNum, cbProc, evtIDs>>
    BY <1>7, <2>1 DEF UnsubLock, HasAborted
  <2>3. /\ pc' = [pc EXCEPT ![c] = "unsub"] /\ target' = [target EXCEPT ![c] = k]
        /\ idx' = [idx EXCEPT ![c] = 1] /\ pc[c] = "idle"
    BY <1>7 DEF UnsubLock, Goto
  <2>4. ClearsAll => ClearsAll'
    BY <2>3 DEF ClearsAll, PcType, EnvType
  <2>5. ASSUME NEW u \in Client, pc'[u] \in InUnsub, target'[u] = ALL, NEW s \in Slot, s < idx'[u]
        PROVE  IsFree(s)'
    <3>1. u # c
      BY <2>3, <2>5 DEF FrameType
    <3> QED
      BY <2>2, <2>3, <2>5, <3>1 DEF CountInv, IsFree, PcType, EnvType, FrameType
  <2>6. Occupied' = Occupied /\ \A s \in Slot : IsFree(s)' <=> IsFree(s)
    BY <2>2 DEF Occupied, IsFree
  <2> QED
    BY <2>2, <2>4, <2>5, <2>6 DEF CountInv
<1>8. ASSUME NEW c \in Client, UnsubNoTable(c) PROVE CountInv'
  <2>1. SUFFICES ASSUME faults' = 0, ~HasAborted' PROVE CountInv'
    BY DEF CountInv
  <2>2. /\ faults = 0 /\ ~HasAborted /\ ~inited
        /\ UNCHANGED <<inited, curSuberNum, cbProc, evtIDs>>
    BY <1>8, <2>1 DEF UnsubNoTable, HasAborted
  <2>3. Occupied = {} /\ curSuberNum = 0
    BY <2>2 DEF CountInv
  <2>4. Occupied' = {} /\ \A s \in Slot : IsFree(s)' <=> IsFree(s)
    BY <2>2, <2>3 DEF Occupied, IsFree
  <2>5. \A s \in Slot : IsFree(s)'
    BY <2>4 DEF Occupied
  <2> QED
    BY <2>2, <2>3, <2>4, <2>5, FS_EmptySet DEF CountInv
<1>9. ASSUME NEW c \in Client, UnsubSkip(c) PROVE CountInv'
  <2>1. target[c] # ALL /\ pc[c] = "unsub" /\ \A u \in Client : u # c => idx'[u] = idx[u]
    BY <1>9 DEF UnsubSkip, IsTarget
  <2> QED
    BY <1>9, <2>1, CountKept DEF UnsubSkip
<1>10. ASSUME NEW c \in Client, UnsubStop(c) PROVE CountInv'
  BY <1>10, CountKept DEF UnsubStop, Goto, PcType
<1>11. ASSUME NEW c \in Client, UnsubSignal(c) PROVE CountInv'
  BY <1>11, CountKept DEF UnsubSignal, SignalAndGoto, FrameInv, ConlesAssumption, PcType
<1>12. ASSUME NEW c \in Client, UnsubClear(c) PROVE CountInv'
  BY <1>12, CountCleared
<1>13. ASSUME NEW c \in Client, UnsubJoin(c) PROVE CountInv'
  BY <1>13, CountCleared
<1>14. ASSUME NEW c \in Client, UnsubDone(c) PROVE CountInv'
  <2>1. SUFFICES ASSUME faults' = 0, ~HasAborted' PROVE CountInv'
    BY DEF CountInv
  <2>2. /\ faults = 0 /\ ~HasAborted /\ inited /\ inited' /\ pc[c] = "unsub"
        /\ UNCHANGED <<cbProc, evtIDs>>
        /\ pc' = [pc EXCEPT ![c] = "idle"] /\ target' = [target EXCEPT ![c] = None]
        /\ curSuberNum' = IF target[c] = ALL THEN 0 ELSE curSuberNum
        /\ idx[c] > MaxSuberNum
    BY <1>14, <2>1 DEF UnsubDone, HasAborted, UnsubReturn, Goto
  <2>3. Occupied' = Occupied /\ \A s \in Slot : IsFree(s)' <=> IsFree(s)
    BY <2>2 DEF Occupied, IsFree
  <2>4. \A u \in Client : pc'[u] \notin InUnsub
    BY <2>2 DEF CtxMutexHeld, PcType
  <2>5. CASE target[c] = ALL
    <3>1. \A s \in Slot : s < idx[c]
      BY <2>2 DEF FrameType, ConlesAssumption
    <3>2. \A s \in Slot : IsFree(s)
      BY <2>2, <2>5, <3>1 DEF CountInv
    <3>3. Occupied = {}
      BY <3>2 DEF Occupied
    <3> QED
      BY <2>2, <2>3, <2>4, <2>5, <3>3, FS_EmptySet DEF CountInv
  <2>6. CASE target[c] # ALL
    <3>1. ~ClearsAll
      BY <2>2, <2>6 DEF ClearsAll, CtxMutexHeld
    <3> QED
      BY <2>2, <2>3, <2>4, <2>6, <3>1 DEF CountInv
  <2> QED
    BY <2>5, <2>6
<1>15. ASSUME NEW t \in Thread, NEW m \in Msg, NEW o \in Options,
             PostCall(t, m, o)
      PROVE  CountInv'
  BY <1>15, CountKept DEF PostCall, IsNextPost, Goto, PcType
<1>16. ASSUME NEW t \in Thread, PostLock(t) PROVE CountInv'
  BY <1>16, CountKept DEF PostLock, Goto, PcType
<1>17. ASSUME NEW t \in Thread, PostNoTable(t) PROVE CountInv'
  BY <1>17, CountReturns DEF PostNoTable
<1>18. ASSUME NEW t \in Thread, PostLockTimeout(t) PROVE CountInv'
  BY <1>18, CountReturns DEF PostLockTimeout
<1>19. ASSUME NEW t \in Thread, postEVT_ASyncThreadCached(t) PROVE CountInv'
  BY <1>19, CountReturns DEF postEVT_ASyncThreadCached
<1>20. ASSUME NEW t \in Thread, PostSkip(t) PROVE CountInv'
  BY <1>20, CountKept DEF PostSkip, NextSlot, PcType
<1>21. ASSUME NEW t \in Thread, PostSync(t) PROVE CountInv'
  BY <1>21, CountKept DEF PostSync, AtMatch, Goto, PcType
<1>22. ASSUME NEW t \in Thread, PostSyncReturn(t) PROVE CountInv'
  BY <1>22, CountKept DEF PostSyncReturn, NextSlot, Goto, PcType
<1>23. ASSUME NEW t \in Thread, PostEnqueue(t) PROVE CountInv'
  BY <1>23, CountKept DEF PostEnqueue, AtMatch, ConlesAssumption, PcType
<1>24. ASSUME NEW t \in Thread, PostSignal(t) PROVE CountInv'
  BY <1>24, CountKept DEF PostSignal, SignalAndGoto, NextSlot, FrameInv, ConlesAssumption, PcType
<1>25. ASSUME NEW t \in Thread, PostCreateFails(t) PROVE CountInv'
  BY <1>25 DEF PostCreateFails, Abort, CountInv, HasAborted, Thread
<1>26. ASSUME NEW t \in Thread, PostFullNonBlock(t) PROVE CountInv'
  BY <1>26, CountKept DEF PostFullNonBlock, AtFullQueue, AtMatch, NextSlot, PcType
<1>27. ASSUME NEW t \in Thread, PostFullTimeout(t) PROVE CountInv'
  BY <1>27 DEF PostFullTimeout, Abort, CountInv, HasAborted, Thread
<1>28. ASSUME NEW t \in Thread, PostFullRetry(t) PROVE CountInv'
  BY <1>28, CountKept
     DEF PostFullRetry, AtFullQueue, AtMatch, SignalAndGoto, ConlesAssumption, PcType
<1>29. ASSUME NEW t \in Thread, PostDone(t) PROVE CountInv'
  BY <1>29, CountReturns DEF PostDone
<1>30. ASSUME NEW s \in Slot, AsyncExit(s) PROVE CountInv'
  BY <1>30, CountKept DEF AsyncExit, Goto, PcType
<1>31. ASSUME NEW s \in Slot, AsyncWait(s) PROVE CountInv'
  BY <1>31, CountKept DEF AsyncWait, Goto, PcType
<1>32. ASSUME NEW s \in Slot, AsyncSpuriousWakeup(s) PROVE CountInv'
  BY <1>32, CountKept DEF AsyncSpuriousWakeup, Goto, PcType
<1>33. ASSUME NEW s \in Slot, AsyncTake(s) PROVE CountInv'
  BY <1>33, CountKept DEF AsyncTake, Goto, PcType
<1>34. ASSUME NEW s \in Slot, AsyncCbReturn(s) PROVE CountInv'
  BY <1>34, CountKept DEF AsyncCbReturn, Goto, PcType
<1>35. ASSUME NEW s \in Slot, AsyncDrain(s) PROVE CountInv'
  BY <1>35, CountKept DEF AsyncDrain, Goto, PcType
<1>36. ASSUME NEW s \in Slot, AsyncDrained(s) PROVE CountInv'
  BY <1>36, CountKept DEF AsyncDrained, Goto, PcType
<1>37. CASE UNCHANGED vars
  BY <1>37 DEF CountInv, HasAborted, Occupied, IsFree, ClearsAll
<1> QED
  BY <1>1, <1>2, <1>3, <1>4, <1>5, <1>6, <1>7, <1>8, <1>9, <1>10, <1>11, <1>12, <1>13,
     <1>14, <1>15, <1>16, <1>17, <1>18, <1>19, <1>20, <1>21, <1>22, <1>23, <1>24,
     <1>25, <1>26, <1>27, <1>28, <1>29, <1>30, <1>31, <1>32, <1>33, <1>34, <1>35,
     <1>36, <1>37 DEF Next, subEVT, unsubEVT, postEVT, PostScan, ASyncEventThread

(* The mutex stays with the call that owns it ...                                   *)
LEMMA LeakKept ==
    ASSUME CtxType, CtxMutexNotLeaked, NEW t \in Thread, pc[t] # "dead",
           UNCHANGED <<faults, ctxOwner, ctxDepth>>,
           \A u \in Thread : pc[u] \in InCtx => pc'[u] \in InCtx
    PROVE  CtxMutexNotLeaked'
  BY DEF CtxMutexNotLeaked, HasAborted, CtxType

(* ... is taken when it has no owner, since an owner is not outside of a call ...   *)
LEMMA LeakLock ==
    ASSUME CtxMutexHeld, CtxMutexNotLeaked, NEW t \in Thread, pc[t] \notin InCtx,
           pc[t] # "dead", pc'[t] \in InCtx, faults' = faults, CanLock(t), LockCtx(t)
    PROVE  CtxMutexNotLeaked'
<1>1. SUFFICES ASSUME faults = 0 PROVE ctxDepth' = 1
  BY DEF CtxMutexNotLeaked, LockCtx
<1>2. ~HasAborted
  BY DEF HasAborted
<1>3. ctxOwner = None
  BY <1>1, <1>2 DEF CtxMutexNotLeaked, CanLock
<1> QED
  BY <1>3 DEF CtxMutexHeld, LockCtx

(* ... and is free when that call unlocks it.                                       *)
LEMMA LeakUnlock ==
    ASSUME ConlesAssumption, CtxMutexHeld, CtxMutexNotLeaked, NEW t \in Thread,
           pc[t] \in InCtx, pc[t] # "dead", faults' = faults, UnlockCtx
    PROVE  CtxMutexNotLeaked'
<1>1. ~HasAborted /\ ctxOwner = t /\ t # None
  BY DEF HasAborted, CtxMutexHeld, ConlesAssumption
<1> QED
  BY <1>1 DEF CtxMutexNotLeaked, UnlockCtx

(* A postEVT that returns without having locked leaves the mutex alone.             *)
LEMMA LeakReturns ==
    ASSUME PcType, FrameType, FrameInv, CtxType, CtxMutexNotLeaked, NEW t \in Thread, NEW r,
           PostReturn(t, r), pc[t] = "lock", UNCHANGED <<ctxOwner, ctxDepth, faults>>
    PROVE  CtxMutexNotLeaked'
<1>1. CASE \A u \in Thread : pc'[u] = "dead"
  BY <1>1 DEF CtxMutexNotLeaked, HasAborted
<1>2. CASE \A u \in Thread : u # t => pc'[u] = pc[u]
  BY <1>2, LeakKept
<1> QED
  BY <1>1, <1>2, PcReturns

(* While no malloc has failed, every step keeps the mutex with a thread inside a    *)
(* call: a slot the count promises is there, so subEVT never locks twice.           *)
LEMMA LeakStep ==
  ASSUME ConlesAssumption, CtxType, TableType, QueueType, CacheType, PcType,
         FrameType, EnvType, CtxMutexHeld, FrameInv, CountInv, CtxMutexNotLeaked,
         [Next]_vars
  PROVE  CtxMutexNotLeaked'
<1>1. ASSUME NEW c \in Client, SubLock(c) PROVE CtxMutexNotLeaked'
  <2>1. /\ pc[c] \notin InCtx /\ pc[c] # "dead" /\ pc'[c] \in InCtx
        /\ faults' = faults /\ CanLock(c) /\ LockCtx(c)
    BY <1>1 DEF SubLock, Goto, PcType
  <2> QED
    BY <2>1, LeakLock
<1>2. ASSUME NEW c \in Client, SubReject(c) PROVE CtxMutexNotLeaked'
  <2>1. pc[c] \in InCtx /\ pc[c] # "dead" /\ faults' = faults /\ UnlockCtx
    BY <1>2 DEF SubReject
  <2> QED
    BY <2>1, LeakUnlock
<1>3. ASSUME NEW c \in Client, SubNoFreeSlot(c) PROVE CtxMutexNotLeaked'
  <2>1. faults' = faults /\ pc[c] = "sub" /\ curSuberNum < MaxSuberNum /\ Occupied = Slot
    BY <1>3 DEF SubNoFreeSlot, Occupied
  <2>2. ~HasAborted /\ ~ClearsAll
    BY <2>1 DEF HasAborted, ClearsAll, CtxMutexHeld
  <2>3. faults # 0
    BY <2>1, <2>2, OccupiedFinite DEF CountInv
  <2> QED
    BY <2>1, <2>3 DEF CtxMutexNotLeaked
<1>4. ASSUME NEW c \in Client, SubInstall(c) PROVE CtxMutexNotLeaked'
  <2>1. pc[c] \in InCtx /\ pc[c] # "dead" /\ faults' = faults /\ UnlockCtx
    BY <1>4 DEF SubInstall
  <2> QED
    BY <2>1, LeakUnlock
<1>5. ASSUME NEW c \in Client, SubMallocFails(c) PROVE CtxMutexNotLeaked'
  BY <1>5 DEF SubMallocFails, CtxMutexNotLeaked, EnvType
<1>6. ASSUME NEW c \in Client, SubCallocFails(c) PROVE CtxMutexNotLeaked'
  BY <1>6 DEF SubCallocFails, CtxMutexNotLeaked, EnvType
<1>7. ASSUME NEW c \in Client, NEW k \in Key \cup {ALL}, UnsubLock(c, k)
      PROVE  CtxMutexNotLeaked'
  <2>1. /\ pc[c] \notin InCtx /\ pc[c] # "dead" /\ pc'[c] \in InCtx
        /\ faults' = faults /\ CanLock(c) /\ LockCtx(c)
    BY <1>7 DEF UnsubLock, Goto, PcType
  <2> QED
    BY <2>1, LeakLock
<1>8. ASSUME NEW c \in Client, UnsubNoTable(c) PROVE CtxMutexNotLeaked'
  <2>1. pc[c] \in InCtx /\ pc[c] # "dead" /\ faults' = faults /\ UnlockCtx
    BY <1>8 DEF UnsubNoTable, UnsubReturn
  <2> QED
    BY <2>1, LeakUnlock
<1>9. ASSUME NEW c \in Client, UnsubSkip(c) PROVE CtxMutexNotLeaked'
  BY <1>9, LeakKept DEF UnsubSkip, PcType
<1>10. ASSUME NEW c \in Client, UnsubStop(c) PROVE CtxMutexNotLeaked'
  BY <1>10, LeakKept DEF UnsubStop, Goto, PcType
<1>11. ASSUME NEW c \in Client, UnsubSignal(c) PROVE CtxMutexNotLeaked'
  BY <1>11, LeakKept DEF UnsubSignal, SignalAndGoto, PcType
<1>12. ASSUME NEW c \in Client, UnsubClear(c) PROVE CtxMutexNotLeaked'
  <2>1. pc[c] \in InCtx /\ pc[c] # "dead" /\ faults' = faults /\ c \notin Slot
    BY <1>12 DEF UnsubClear, ConlesAssumption
  <2>2. CASE target[c] = ALL
    BY <1>12, <2>1, <2>2, LeakKept DEF UnsubClear, ClearSlot, AfterClear, Goto, PcType
  <2>3. CASE target[c] # ALL
    BY <1>12, <2>1, <2>3, LeakUnlock DEF UnsubClear, ClearSlot, UnsubReturn
  <2> QED
    BY <2>2, <2>3
<1>13. ASSUME NEW c \in Client, UnsubJoin(c) PROVE CtxMutexNotLeaked'
  <2>1. /\ pc[c] \in InCtx /\ pc[c] # "dead" /\ faults' = faults /\ c \notin Slot
        /\ pc[idx[c]] = "exited"
    BY <1>13 DEF UnsubJoin, CanJoin, ConlesAssumption
  <2>2. CASE target[c] = ALL
    BY <1>13, <2>1, <2>2, LeakKept DEF UnsubJoin, ClearSlot, AfterClear, PcType
  <2>3. CASE target[c] # ALL
    BY <1>13, <2>1, <2>3, LeakUnlock DEF UnsubJoin, ClearSlot, UnsubReturn
  <2> QED
    BY <2>2, <2>3
<1>14. ASSUME NEW c \in Client, UnsubDone(c) PROVE CtxMutexNotLeaked'
  <2>1. pc[c] \in InCtx /\ pc[c] # "dead" /\ faults' = faults /\ UnlockCtx
    BY <1>14 DEF UnsubDone, UnsubReturn
  <2> QED
    BY <2>1, LeakUnlock
<1>15. ASSUME NEW t \in Thread, NEW m \in Msg, NEW o \in Options,
             PostCall(t, m, o)
      PROVE  CtxMutexNotLeaked'
  BY <1>15, LeakKept DEF PostCall, IsNextPost, Goto, PcType
<1>16. ASSUME NEW t \in Thread, PostLock(t) PROVE CtxMutexNotLeaked'
  <2>1. /\ pc[t] \notin InCtx /\ pc[t] # "dead" /\ pc'[t] \in InCtx
        /\ faults' = faults /\ CanLock(t) /\ LockCtx(t)
    BY <1>16 DEF PostLock, Goto, PcType
  <2> QED
    BY <2>1, LeakLock
<1>17. ASSUME NEW t \in Thread, PostNoTable(t) PROVE CtxMutexNotLeaked'
  BY <1>17, LeakReturns DEF PostNoTable
<1>18. ASSUME NEW t \in Thread, PostLockTimeout(t) PROVE CtxMutexNotLeaked'
  BY <1>18, LeakReturns DEF PostLockTimeout
<1>19. ASSUME NEW t \in Thread, postEVT_ASyncThreadCached(t) PROVE CtxMutexNotLeaked'
  BY <1>19, LeakReturns DEF postEVT_ASyncThreadCached
<1>20. ASSUME NEW t \in Thread, PostSkip(t) PROVE CtxMutexNotLeaked'
  BY <1>20, LeakKept DEF PostSkip, NextSlot, PcType
<1>21. ASSUME NEW t \in Thread, PostSync(t) PROVE CtxMutexNotLeaked'
  BY <1>21, LeakKept DEF PostSync, AtMatch, Goto, PcType
<1>22. ASSUME NEW t \in Thread, PostSyncReturn(t) PROVE CtxMutexNotLeaked'
  BY <1>22, LeakKept DEF PostSyncReturn, NextSlot, Goto, PcType
<1>23. ASSUME NEW t \in Thread, PostEnqueue(t) PROVE CtxMutexNotLeaked'
  BY <1>23, LeakKept DEF PostEnqueue, AtMatch, PcType
<1>24. ASSUME NEW t \in Thread, PostSignal(t) PROVE CtxMutexNotLeaked'
  BY <1>24, LeakKept DEF PostSignal, SignalAndGoto, NextSlot, PcType
<1>25. ASSUME NEW t \in Thread, PostCreateFails(t) PROVE CtxMutexNotLeaked'
  BY <1>25 DEF PostCreateFails, Abort, CtxMutexNotLeaked, HasAborted, Thread
<1>26. ASSUME NEW t \in Thread, PostFullNonBlock(t) PROVE CtxMutexNotLeaked'
  BY <1>26, LeakKept DEF PostFullNonBlock, AtFullQueue, AtMatch, NextSlot, PcType
<1>27. ASSUME NEW t \in Thread, PostFullTimeout(t) PROVE CtxMutexNotLeaked'
  BY <1>27 DEF PostFullTimeout, Abort, CtxMutexNotLeaked, HasAborted, Thread
<1>28. ASSUME NEW t \in Thread, PostFullRetry(t) PROVE CtxMutexNotLeaked'
  BY <1>28, LeakKept DEF PostFullRetry, AtFullQueue, AtMatch, SignalAndGoto, PcType
<1>29. ASSUME NEW t \in Thread, PostDone(t) PROVE CtxMutexNotLeaked'
  <2>1. pc[t] \in InCtx /\ pc[t] # "dead" /\ faults' = faults /\ UnlockCtx
    BY <1>29 DEF PostDone
  <2> QED
    BY <2>1, LeakUnlock
<1>30. ASSUME NEW s \in Slot, AsyncExit(s) PROVE CtxMutexNotLeaked'
  BY <1>30, LeakKept DEF AsyncExit, Goto, PcType
<1>31. ASSUME NEW s \in Slot, AsyncWait(s) PROVE CtxMutexNotLeaked'
  BY <1>31, LeakKept DEF AsyncWait, Goto, PcType
<1>32. ASSUME NEW s \in Slot, AsyncSpuriousWakeup(s) PROVE CtxMutexNotLeaked'
  BY <1>32, LeakKept DEF AsyncSpuriousWakeup, Goto, PcType
<1>33. ASSUME NEW s \in Slot, AsyncTake(s) PROVE CtxMutexNotLeaked'
  BY <1>33, LeakKept DEF AsyncTake, Goto, PcType
<1>34. ASSUME NEW s \in Slot, AsyncCbReturn(s) PROVE CtxMutexNotLeaked'
  BY <1>34, LeakKept DEF AsyncCbReturn, Goto, PcType
<1>35. ASSUME NEW s \in Slot, AsyncDrain(s) PROVE CtxMutexNotLeaked'
  BY <1>35, LeakKept DEF AsyncDrain, Goto, PcType
<1>36. ASSUME NEW s \in Slot, AsyncDrained(s) PROVE CtxMutexNotLeaked'
  BY <1>36, LeakKept DEF AsyncDrained, Goto, PcType
<1>37. CASE UNCHANGED vars
  BY <1>37 DEF CtxMutexNotLeaked, HasAborted
<1> QED
  BY <1>1, <1>2, <1>3, <1>4, <1>5, <1>6, <1>7, <1>8, <1>9, <1>10, <1>11, <1>12, <1>13,
     <1>14, <1>15, <1>16, <1>17, <1>18, <1>19, <1>20, <1>21, <1>22, <1>23, <1>24,
     <1>25, <1>26, <1>27, <1>28, <1>29, <1>30, <1>31, <1>32, <1>33, <1>34, <1>35,
     <1>36, <1>37 DEF Next, subEVT, unsubEVT, postEVT, PostScan, ASyncEventThread

(* The idle link satisfies the inductive invariant, whatever is still to be posted. *)
LEMMA IdleIInv ==
    ASSUME ConlesAssumption, Idle, unposted \subseteq Msg
    PROVE  IInv
<1>1. TypeOK
  <2>1. CtxType /\ TableType /\ EnvType
    <3>1. CtxType
      <4>1. ULONG_MOD \in Nat /\ ULONG_MOD > 0
        BY SMT DEF ConlesAssumption
      <4>2. 0 \in 0 .. ULONG_MOD - 1
        BY <4>1, SMT
      <4> QED
        BY <4>2, Zenon DEF Idle, CtxType
    <3>2. TableType
      BY DEF Idle, TableType
    <3>3. EnvType
      BY DEF Idle, EnvType, ConlesAssumption
    <3> QED
      BY <3>1, <3>2, <3>3
  <2>2. <<>> \in Seq(Msg) /\ Len(<<>>) = 0
    BY EmptySeq
  <2>3. QueueType /\ CacheType
    BY <2>2 DEF Idle, QueueType, CacheType, ConlesAssumption
  <2>4. PcType
    BY DEF Idle, PcType, ConlesAssumption
  <2>5. FrameType
    BY DEF Idle, FrameType, ConlesAssumption
  <2> QED
    BY <2>1, <2>3, <2>4, <2>5, Types
<1>2. HistInv
  BY ConcatEmptySeq, EmptySeq DEF Idle, HistInv
<1>3. CtxMutexHeld /\ FrameInv /\ DrainInv /\ LifeInv /\ StopInv
  BY DEF Idle, CtxMutexHeld, FrameInv, DrainInv, LifeInv, StopInv, ConlesAssumption
<1>4. FreeSlotIsQuiet
  BY DEF Idle, FreeSlotIsQuiet, ConlesAssumption
<1>5. NoSuberIsTrue /\ SignalInv /\ ReachInv
  BY DEF Idle, NoSuberIsTrue, SignalInv, ReachInv
<1>6. WakeupNotLost /\ CtxMutexNotLeaked
  BY DEF Idle, WakeupNotLost, CtxMutexNotLeaked, ConlesAssumption
<1>7. CountInv
  <2>1. Occupied = {}
    BY DEF Idle, Occupied, IsFree
  <2>2. \A c \in Client : pc[c] \notin InUnsub
    BY DEF Idle, ConlesAssumption
  <2> QED
    BY <2>1, <2>2, FS_EmptySet DEF Idle, CountInv, IsFree
<1> QED
  BY <1>1, <1>2, <1>3, <1>4, <1>5, <1>6, <1>7 DEF IInv

(* The initial states satisfy the inductive invariant.                              *)
LEMMA InitIInv ==
    ASSUME ConlesAssumption, Init
    PROVE  IInv
  BY IdleIInv DEF Init

(* Every step, and every stuttering step, preserves the inductive invariant.        *)
LEMMA NextIInv ==
    ASSUME ConlesAssumption, IInv, [Next]_vars
    PROVE  IInv'
<1>1. /\ CtxType /\ TableType /\ QueueType /\ CacheType
      /\ PcType /\ FrameType /\ EnvType
  BY Types DEF IInv
<1>2. /\ TypeOK /\ CtxMutexHeld /\ FrameInv /\ DrainInv /\ LifeInv /\ FreeSlotIsQuiet
      /\ StopInv /\ NoSuberIsTrue /\ HistInv /\ SignalInv /\ ReachInv
      /\ WakeupNotLost /\ CountInv /\ CtxMutexNotLeaked
  BY DEF IInv
<1>3. TypeOK'
  BY <1>2, TypeStep
<1>4. CtxMutexHeld' /\ FrameInv' /\ DrainInv'
  BY <1>1, <1>2, CtxStep, FrameStep, DrainStep
<1>5. LifeInv' /\ FreeSlotIsQuiet' /\ StopInv'
  BY <1>1, <1>2, LifeStep, QuietStep, StopStep
<1>6. NoSuberIsTrue' /\ HistInv' /\ SignalInv' /\ ReachInv'
  BY <1>1, <1>2, NoSuberStep, HistStep, SignalStep, ReachStep
<1>7. WakeupNotLost' /\ CountInv' /\ CtxMutexNotLeaked'
  BY <1>1, <1>2, WakeupStep, CountStep, LeakStep
<1> QED
  BY <1>3, <1>4, <1>5, <1>6, <1>7 DEF IInv

(* Every reachable state satisfies the inductive invariant.                         *)
LEMMA Inductive == Spec => []IInv
<1>1. Init => IInv
  BY InitIInv, ConlesAssumption
<1>2. IInv /\ [Next]_vars => IInv'
  BY NextIInv, ConlesAssumption
<1> QED
  BY <1>1, <1>2, PTL DEF Spec

(* Every variable keeps its type; in particular no queue and no cache of a          *)
(* subscriber ever holds more events than its array has cells, the invariant behind *)
(* the index arithmetic of _IOC_postEVT_inConlesMode.                               *)
THEOREM TypeCorrect == Spec => []TypeOK
<1>1. IInv => TypeOK
  BY DEF IInv
<1> QED
  BY <1>1, Inductive, PTL

(* At most one thread is inside the context mutex at a time, however often the      *)
(* recursive mutex is locked by a post that retries or that comes from a SYNC       *)
(* callback.                                                                        *)
THEOREM MutualExclusion == Spec => []CtxMutexHeld
<1>1. IInv => CtxMutexHeld
  BY DEF IInv
<1> QED
  BY <1>1, Inductive, PTL

(* A slot that has been given back has no running thread and no queued or cached    *)
(* event: after unsubEVT returns, the callback is not called again, and a later     *)
(* subEVT on the slot does not inherit events.                                      *)
THEOREM UnsubQuiesces == Spec => []FreeSlotIsQuiet
<1>1. IInv => FreeSlotIsQuiet
  BY DEF IInv
<1> QED
  BY <1>1, Inductive, PTL

(* A postEVT that reports that no one subscribed the event is right about it.       *)
THEOREM NoSuberCorrect == Spec => []NoSuberIsTrue
<1>1. IInv => NoSuberIsTrue
  BY DEF IInv
<1> QED
  BY <1>1, Inductive, PTL

(* A blocking post has queued its event at every matching subscriber its scan has   *)
(* passed: it never gives up on one, however full the queues are.                   *)
THEOREM BlockingPostDelivers == Spec => []BlockingPostReachesAll
<1>1. IInv => BlockingPostReachesAll
  BY Types, ReachInvMeans DEF IInv
<1> QED
  BY <1>1, Inductive, PTL

(* No wake-up of an async thread is lost: one that waits for its condition variable *)
(* with events in its queue has a post that will still signal it, and one that      *)
(* waits with its stop flag set has an unsubEVT that will.                          *)
THEOREM WakeupsKept == Spec => []WakeupNotLost
<1>1. IInv => WakeupNotLost
  BY DEF IInv
<1> QED
  BY <1>1, Inductive, PTL

(* While no malloc has failed, no call returns with the context mutex locked, and   *)
(* inside a call it is locked once.                                                 *)
THEOREM MutexNotLeaked == Spec => []CtxMutexNotLeaked
<1>1. IInv => CtxMutexNotLeaked
  BY DEF IInv
<1> QED
  BY <1>1, Inductive, PTL

(* While no malloc has failed and nobody is inside the context mutex, the count of  *)
(* subscribers is the number of occupied slots.                                     *)
THEOREM CountCorrect == Spec => []SubersCounted
<1>1. ASSUME IInv, ctxOwner = None PROVE ~ClearsAll \/ HasAborted
  BY <1>1, ConlesAssumption DEF IInv, CtxMutexHeld, ClearsAll, HasAborted
<1>2. IInv => SubersCounted
  BY <1>1 DEF IInv, CountInv, SubersCounted
<1> QED
  BY <1>2, Inductive, PTL

(* A step that gives a slot back finds every accepted event handled.                *)
LEMMA DrainedWhenFreed ==
    ASSUME ConlesAssumption, IInv, [Next]_vars,
           NEW s \in Slot, ~IsFree(s), IsFree(s)'
    PROVE  handled[s] = accepted[s]
<1>1. \E c \in Client : (UnsubClear(c) \/ UnsubJoin(c)) /\ s = idx[c]
  <2>1. cbProc'[s] = None /\ cbProc[s] # None
    BY DEF IsFree
  <2>2. \A c \in Client : ~SubInstall(c) /\ ~SubMallocFails(c)
    BY <2>1, FillShape, Types DEF IInv
  <2>3. cbProc' # cbProc
    BY <2>1
  <2>4. PICK c \in Client : UnsubClear(c) \/ UnsubJoin(c)
    <3>1. ASSUME NEW c \in Client, subEVT(c) PROVE FALSE
      BY <2>2, <2>3, <3>1
         DEF subEVT, SubLock, SubReject, SubNoFreeSlot, SubCallocFails
    <3>2. ASSUME NEW c \in Client, unsubEVT(c) PROVE UnsubClear(c) \/ UnsubJoin(c)
      BY <2>3, <3>2
         DEF unsubEVT, UnsubLock, UnsubNoTable, UnsubSkip, UnsubStop, UnsubSignal,
             UnsubDone
    <3>3. ASSUME NEW t \in Thread, postEVT(t) PROVE FALSE
      BY <2>3, <3>3
         DEF postEVT, PostCall, PostLock, PostNoTable, PostLockTimeout,
             postEVT_ASyncThreadCached, PostScan, PostSkip, PostSync, PostSyncReturn,
             PostEnqueue, PostSignal, PostCreateFails, PostFullNonBlock,
             PostFullTimeout, PostFullRetry, PostDone
    <3>4. ASSUME NEW r \in Slot, ASyncEventThread(r) PROVE FALSE
      BY <2>3, <3>4
         DEF ASyncEventThread, AsyncExit, AsyncWait, AsyncSpuriousWakeup, AsyncTake,
             AsyncCbReturn, AsyncDrain, AsyncDrained
    <3> QED
      BY <2>3, <3>1, <3>2, <3>3, <3>4 DEF Next
  <2>5. s = idx[c]
    BY <2>1, <2>4, ClearShape, Types DEF IInv
  <2> QED
    BY <2>4, <2>5
<1>2. queue[s] = <<>>
  BY <1>1, ClearShape, Types DEF IInv, LifeInv
<1>3. handled[s] \in Seq(Msg)
  BY Types DEF IInv, QueueType
<1>4. accepted[s] = handled[s] \o <<>>
  BY <1>2 DEF IInv, HistInv
<1> QED
  BY <1>3, <1>4, ConcatEmptySeq

(* unsubEVT gives a slot back only after the callback has handled every event the   *)
(* slot's queue accepted.                                                           *)
THEOREM UnsubDelivers == Spec => UnsubDrainsQueue
<1>1. IInv /\ [Next]_vars =>
         [\A s \in Slot : ~IsFree(s) /\ IsFree(s)' => handled[s] = accepted[s]]_vars
  BY DrainedWhenFreed, ConlesAssumption
<1> QED
  BY <1>1, Inductive, PTL DEF Spec, UnsubDrainsQueue
=====================================================================================
