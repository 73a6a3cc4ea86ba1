------------------------------ MODULE ConlesEventLink -------------------------------
(* ConlesEvent implements EvtLink: each of its steps opens or closes one            *)
(* subscription, delivers or handles one event, enters or leaves one callback,      *)
(* aborts, or changes nothing a user of the link can see.  And OrderInv is          *)
(* inductive together with IInv: however the posts of others, retries, cached       *)
(* events and subscriptions interleave, the events of one client reach each slot    *)
(* in the order the client posted them.                                             *)
EXTENDS ConlesEventProofs

USE DEF vars, ctxVars, tableVars, slotVars, frameVars, envVars
USE DEF Thread, Slot, InCall, InScan, InUnsub, InCtx, ClientPc, AsyncPc

(* A step that leaves subscriptions and queues alone, and moves no thread into or   *)
(* out of a callback, is a stuttering step of the link.                             *)
LEMMA Unseen ==
    ASSUME UNCHANGED <<cbProc, evtIDs, queue>>,
           NEW t \in Thread, pc[t] # "dead", pc'[t] # "dead",
           \A u \in Thread : pc[u] = "syncCb" \/ pc'[u] = "syncCb" =>
               pc'[u] = pc[u] /\ idx'[u] = idx[u],
           \A s \in Slot : InAsyncCb(s)' <=> InAsyncCb(s)
    PROVE  UNCHANGED Link!vars
<1>1. ~HasAborted /\ ~HasAborted'
  BY DEF HasAborted
<1>2. \A s \in Slot : IsFree(s)' <=> IsFree(s)
  BY DEF IsFree
<1>3. \A s \in Slot : InCallback(s)' = InCallback(s) /\ SubedIDs(s)' = SubedIDs(s)
  BY <1>2 DEF InCallback, SubedIDs
<1> QED
  BY <1>1, <1>2, <1>3 DEF Link!vars

(* A step that aborts ends every callback and changes nothing else.                 *)
LEMMA Aborts ==
    ASSUME UNCHANGED <<cbProc, evtIDs, queue>>, Abort,
           NEW t \in Thread, pc[t] # "dead"
    PROVE  Link!Next
<1>1. ~HasAborted /\ HasAborted'
  BY DEF HasAborted, Abort
<1>2. \A s \in Slot : IsFree(s)' <=> IsFree(s)
  BY DEF IsFree
<1>3. \A s \in Slot : InCallback(s)' = {} /\ SubedIDs(s)' = SubedIDs(s)
  BY <1>2 DEF InCallback, InAsyncCb, SubedIDs, Abort
<1>4. Link!Abort
  BY <1>1, <1>2, <1>3 DEF Link!Abort
<1> QED
  BY <1>1, <1>4 DEF Link!Next

(* A postEVT that returns is back where its caller was, inside the callback it was  *)
(* called from or outside of all.                                                   *)
LEMMA ReturnUnseen ==
    ASSUME PcType, FrameType, FrameInv, NEW t \in Thread, NEW r, PostReturn(t, r),
           pc[t] \in {"lock", "post"}, UNCHANGED <<cbProc, evtIDs, queue>>
    PROVE  Link!Next \/ UNCHANGED Link!vars
<1>1. CASE Abort
  BY <1>1, Aborts
<1>2. CASE pc' = [pc EXCEPT ![t] = ret[t]]
  <2>1. pc'[t] = ret[t] /\ ret[t] \in {"idle", "cb", "drain"}
    BY <1>2 DEF FrameInv, PcType
  <2>2. \A u \in Thread : u # t =>
            pc'[u] = pc[u] /\ idx'[u] = idx[u] /\ ret'[u] = ret[u]
    BY <1>2 DEF PostReturn, PcType, FrameType
  <2>3. \A s \in Slot : InAsyncCb(s)' <=> InAsyncCb(s)
    BY <2>1, <2>2 DEF InAsyncCb
  <2> QED
    BY <2>1, <2>2, <2>3, Unseen
<1> QED
  BY <1>1, <1>2 DEF PostReturn, Goto

(* subEVT opens a subscription in a free slot, which is quiet.                      *)
LEMMA SubOpens ==
    ASSUME ConlesAssumption, TableType, QueueType, CacheType, PcType, FrameType,
           CtxMutexHeld, FreeSlotIsQuiet, NEW c \in Client, subEVT(c)
    PROVE  Link!Next \/ UNCHANGED Link!vars
<1>1. c \in Thread /\ c \notin Slot
  BY DEF ConlesAssumption
<1>2. CASE SubLock(c) \/ SubReject(c) \/ SubNoFreeSlot(c)
  <2>1. /\ pc[c] \in {"idle", "sub"} /\ pc'[c] \in {"idle", "sub"}
        /\ \A u \in Thread : u # c => pc'[u] = pc[u]
        /\ UNCHANGED <<frameVars, cbProc, evtIDs, queue>>
    BY <1>1, <1>2 DEF SubLock, SubReject, SubNoFreeSlot, Goto, PcType
  <2>2. \A s \in Slot : InAsyncCb(s)' <=> InAsyncCb(s)
    BY <1>1, <2>1 DEF InAsyncCb
  <2> QED
    BY <1>1, <2>1, <2>2, Unseen
<1>3. CASE SubInstall(c) \/ SubMallocFails(c)
  <2>1. PICK r \in Slot, a \in SubArgs, I \in {None} \cup SUBSET EvtID :
            IsFree(r) /\ FillSlot(r, a.key, I)
    BY <1>3 DEF SubInstall, SubMallocFails, IsFirstFree, ConlesAssumption
  <2>2. pc[c] = "sub" /\ pc' = [pc EXCEPT ![c] = "idle"] /\ UNCHANGED frameVars
    BY <1>3 DEF SubInstall, SubMallocFails, Goto
  <2>3. /\ pc'[c] = "idle" /\ \A u \in Thread : u # c => pc'[u] = pc[u]
    BY <1>1, <2>2 DEF PcType
  <2>4. a.key \in Key /\ a.key # None
    BY <2>1 DEF ConlesAssumption
  <2>5. pc[r] \in {"none", "dead"} /\ queue[r] = <<>> /\ UNCHANGED queue
    BY <2>1 DEF FreeSlotIsQuiet, FillSlot, QueueType
  <2>6. \A s \in Slot : InCallback(s)' = InCallback(s)
    BY <1>1, <2>2, <2>3 DEF InCallback, InAsyncCb
  <2>7. ~HasAborted /\ ~HasAborted'
    BY <1>1, <2>2, <2>3 DEF HasAborted
  <2>8. InCallback(r) = {}
    <3>1. \A t \in Thread : pc[t] # "syncCb"
      BY <1>1, <2>2 DEF CtxMutexHeld
    <3> QED
      BY <2>5, <3>1 DEF InCallback, InAsyncCb
  <2>9. r \notin {s \in Slot : ~IsFree(s)}
    BY <2>1
  <2>10. {s \in Slot : ~IsFree(s)}' = {s \in Slot : ~IsFree(s)} \cup {r}
    BY <2>1, <2>4 DEF FillSlot, IsFree, TableType
  <2> DEFINE J == IF I = None THEN {} ELSE I
  <2>11. J \in SUBSET EvtID
    BY <2>1
  <2>12. \A s \in Slot : SubedIDs(s)' = IF s = r THEN J ELSE SubedIDs(s)
    BY <2>1, <2>4 DEF FillSlot, IsFree, SubedIDs, TableType
  <2> HIDE DEF J
  <2>13. Link!Open(r, J)
    BY <2>5, <2>6, <2>7, <2>8, <2>9, <2>10, <2>12 DEF Link!Open, Link!IsQuiet
  <2> QED
    BY <2>7, <2>11, <2>13 DEF Link!Next
<1>4. CASE SubCallocFails(c)
  BY <1>1, <1>4, Aborts DEF SubCallocFails
<1> QED
  BY <1>2, <1>3, <1>4 DEF subEVT

(* unsubEVT closes the subscription of a slot whose thread has ended, or never      *)
(* started, and nobody else is inside its callback: the context mutex sees to that. *)
LEMMA UnsubCloses ==
    ASSUME ConlesAssumption, TableType, QueueType, PcType, FrameType, FrameInv,
           CtxMutexHeld, LifeInv, NEW c \in Client, unsubEVT(c)
    PROVE  Link!Next \/ UNCHANGED Link!vars
<1>1. c \in Thread /\ c \notin Slot
  BY DEF ConlesAssumption
<1>2. CASE UnsubClear(c) \/ UnsubJoin(c)
  <2>1. /\ pc[c] \in InUnsub /\ UNCHANGED ret
    BY <1>2 DEF UnsubClear, UnsubJoin
  <2>2. /\ idx[c] \in Slot
        /\ pc[idx[c]] \in {"none", "exited"}
        /\ pc'[idx[c]] = "none"
        /\ pc'[c] \in {"unsub", "idle"}
        /\ \A t \in Thread : t \notin {c, idx[c]} => pc'[t] = pc[t] /\ idx'[t] = idx[t]
        /\ UNCHANGED queue
    BY <1>2, ClearShape
  <2>3. \A t \in Thread : pc[t] # "syncCb" /\ pc'[t] # "syncCb"
    BY <1>1, <2>1, <2>2 DEF CtxMutexHeld
  <2>4. \A s \in Slot : InAsyncCb(s)' <=> InAsyncCb(s)
    BY <1>1, <2>1, <2>2 DEF InAsyncCb
  <2>5. CASE UNCHANGED <<cbProc, evtIDs>>
    BY <1>1, <2>1, <2>2, <2>3, <2>4, <2>5, Unseen
  <2>6. CASE ~UNCHANGED <<cbProc, evtIDs>>
    <3>1. PICK r \in Slot : r = idx[c]
      BY <2>2
    <3>2. IsFree(r)' /\ \A s \in Slot : s # r =>
              (IsFree(s)' <=> IsFree(s)) /\ evtIDs'[s] = evtIDs[s]
      BY <1>2, <2>6, <3>1, ClearShape DEF IsFree
    <3>3. SubedIDs(r)' = {} /\ \A s \in Slot : s # r => SubedIDs(s)' = SubedIDs(s)
      BY <3>2 DEF SubedIDs
    <3>4. \A s \in Slot : InCallback(s)' = InCallback(s)
      BY <2>2, <2>3, <2>4 DEF InCallback
    <3>5. ~HasAborted /\ ~HasAborted'
      BY <1>1, <2>1, <2>2 DEF HasAborted
    <3>6. CASE IsFree(r)
      <4>1. \A s \in Slot : (IsFree(s)' <=> IsFree(s)) /\ SubedIDs(s)' = SubedIDs(s)
        BY <3>2, <3>3, <3>6 DEF SubedIDs
      <4> QED
        BY <2>2, <3>4, <3>5, <4>1 DEF Link!vars
    <3>7. CASE ~IsFree(r)
      <4>1. {s \in Slot : ~IsFree(s)}' = {s \in Slot : ~IsFree(s)} \ {r}
        BY <3>2
      <4>2. queue[r] = <<>> /\ InCallback(r) = {}
        BY <2>2, <2>3, <3>1 DEF LifeInv, InCallback, InAsyncCb
      <4>3. [s \in Slot |-> SubedIDs(s)]' = [[s \in Slot |-> SubedIDs(s)] EXCEPT ![r] = {}]
        BY <3>3
      <4>4. [s \in Slot |-> InCallback(s)]' = [s \in Slot |-> InCallback(s)]
        BY <3>4
      <4>5. Link!IsQuiet(r)
        BY <4>2 DEF Link!IsQuiet
      <4>6. Link!Close(r)
        BY <2>2, <3>5, <3>7, <4>1, <4>3, <4>4, <4>5 DEF Link!Close
      <4> QED
        BY <3>5, <4>6 DEF Link!Next
    <3> QED
      BY <3>6, <3>7
  <2> QED
    BY <2>5, <2>6
<1>3. CASE ~(UnsubClear(c) \/ UnsubJoin(c))
  <2>1. /\ pc[c] \in {"idle"} \cup InUnsub /\ pc'[c] \in {"idle"} \cup InUnsub
        /\ UNCHANGED <<cbProc, evtIDs, queue, ret>>
        /\ \A u \in Thread : u # c => idx'[u] = idx[u]
        /\ \A u \in Thread : u # c =>
              pc'[u] = pc[u] \/ (pc[u] = "wait" /\ pc'[u] = "top")
    <3>1. CASE UnsubSignal(c)
      BY <1>1, <3>1 DEF UnsubSignal, SignalAndGoto, PcType
    <3>2. CASE UnsubNoTable(c) \/ UnsubDone(c) \/ \E k \in Key \cup {ALL} : UnsubLock(c, k)
      BY <1>1, <3>2
         DEF UnsubLock, UnsubNoTable, UnsubDone, UnsubReturn, Goto, PcType, FrameType
    <3>3. CASE UnsubSkip(c) \/ UnsubStop(c)
      BY <1>1, <3>3 DEF UnsubSkip, UnsubStop, Goto, PcType, FrameType
    <3> QED
      BY <1>3, <3>1, <3>2, <3>3 DEF unsubEVT
  <2>2. \A s \in Slot : InAsyncCb(s)' <=> InAsyncCb(s)
    BY <1>1, <2>1 DEF InAsyncCb
  <2> QED
    BY <1>1, <2>1, <2>2, Unseen
<1> QED
  BY <1>2, <1>3

(* A post that finds room delivers its event to a subscription that wants it.       *)
LEMMA EnqueueDelivered ==
    ASSUME ConlesAssumption, TableType, QueueType, PcType, FrameType, FrameInv,
           NEW t \in Thread, PostEnqueue(t)
    PROVE  Link!Next
<1>1. PICK r \in Slot : r = idx[t]
  BY QueueShape
<1>2. /\ pc[t] = "post" /\ IsMatch(r, evt[t]) /\ evt[t] \in Msg
      /\ Len(queue[r]) < EVTQUEUE_MAX
      /\ queue' = [queue EXCEPT ![r] = Append(@, evt[t])]
      /\ UNCHANGED <<cbProc, evtIDs, idx, ret>>
      /\ pc' = [pc EXCEPT ![t] = "signal", ![r] = IF @ = "none" THEN "top" ELSE @]
  <2>1. Len(queue[r]) \in Nat
    BY LenProperties DEF QueueType
  <2> QED
    BY <1>1, <2>1 DEF PostEnqueue, AtMatch, IsFull, FrameInv, ConlesAssumption
<1>3. /\ pc'[t] \in InCall \/ t = r
      /\ \A u \in Thread : u # t =>
            pc'[u] = pc[u] \/ (pc[u] = "none" /\ pc'[u] = "top")
      /\ pc'[t] = "signal"
  BY <1>2 DEF PcType
<1>4. \A s \in Slot : InCallback(s)' = InCallback(s)
  BY <1>2, <1>3 DEF InCallback, InAsyncCb
<1>5. ~HasAborted /\ ~HasAborted'
  BY <1>2, <1>3 DEF HasAborted
<1>6. \A s \in Slot : (IsFree(s)' <=> IsFree(s)) /\ SubedIDs(s)' = SubedIDs(s)
  BY <1>2 DEF IsFree, SubedIDs
<1>7. Link!Wants(r, evt[t])
  BY <1>2 DEF Link!Wants, IsMatch, IsFree, SubedIDs
<1>8. Link!Deliver(r, evt[t])
  BY <1>2, <1>4, <1>5, <1>6, <1>7 DEF Link!Deliver
<1> QED
  BY <1>2, <1>5, <1>8 DEF Link!Next

(* A synchronous post enters and leaves the callback of a subscription that wants   *)
(* its event; when it runs inside that callback already, it just stays there.       *)
LEMMA SyncCalls ==
    ASSUME ConlesAssumption, TableType, PcType, FrameType, FrameInv,
           NEW t \in Thread, PostSync(t) \/ PostSyncReturn(t)
    PROVE  Link!Next \/ UNCHANGED Link!vars
<1>1. PICK r \in Slot : r = idx[t]
  BY DEF PostSync, PostSyncReturn, AtMatch, FrameInv
<1>2. /\ UNCHANGED <<cbProc, evtIDs, queue, ret>>
      /\ pc[t] \in {"post", "syncCb"}
      /\ pc' = [pc EXCEPT ![t] = IF pc[t] = "post" THEN "syncCb" ELSE "post"]
      /\ \A u \in Thread : u # t => idx'[u] = idx[u]
      /\ pc[t] = "post" => idx'[t] = r /\ IsMatch(r, evt[t]) /\ evt[t] \in Msg
  BY <1>1 DEF PostSync, PostSyncReturn, AtMatch, Goto, NextSlot, FrameInv, FrameType
<1>3. /\ pc[t] = "post" => pc'[t] = "syncCb"
      /\ pc[t] = "syncCb" => pc'[t] = "post"
      /\ \A u \in Thread : u # t => pc'[u] = pc[u]
  BY <1>2 DEF PcType
<1>4. ~HasAborted /\ ~HasAborted'
  BY <1>2, <1>3 DEF HasAborted
<1>5. \A s \in Slot : (IsFree(s)' <=> IsFree(s)) /\ SubedIDs(s)' = SubedIDs(s)
  BY <1>2 DEF IsFree, SubedIDs
<1>6. \A s \in Slot : InAsyncCb(s)' <=> InAsyncCb(s)
  BY <1>2, <1>3 DEF InAsyncCb
<1>7. \A s \in Slot : s # r => InCallback(s)' = InCallback(s)
  BY <1>1, <1>2, <1>3, <1>6 DEF InCallback
<1>8. CASE pc[t] = "post"
  <2>1. InCallback(r)' = InCallback(r) \cup {t}
    BY <1>2, <1>3, <1>6, <1>8 DEF InCallback
  <2>2. Link!Wants(r, evt[t])
    BY <1>2, <1>8 DEF Link!Wants, IsMatch, IsFree, SubedIDs
  <2>3. [s \in Slot |-> InCallback(s)]'
            = [[s \in Slot |-> InCallback(s)] EXCEPT ![r] = @ \cup {t}]
    BY <1>7, <2>1
  <2>4. Link!SyncCall(r, t, evt[t])
    BY <1>2, <1>4, <1>5, <2>2, <2>3 DEF Link!SyncCall
  <2> QED
    BY <1>2, <1>4, <1>8, <2>4 DEF Link!Next
<1>9. CASE pc[t] = "syncCb"
  <2>1. t \in InCallback(r)
    BY <1>1, <1>9 DEF InCallback
  <2>2. CASE t = r /\ InAsyncCb(t)
    <3>1. InCallback(r)' = InCallback(r)
      BY <1>2, <1>3, <1>6, <1>9, <2>2 DEF InCallback
    <3> QED
      BY <1>2, <1>4, <1>5, <1>7, <3>1 DEF Link!vars
  <2>3. CASE ~(t = r /\ InAsyncCb(t))
    <3>1. InCallback(r)' = InCallback(r) \ {t}
      BY <1>2, <1>3, <1>6, <1>9, <2>3 DEF InCallback
    <3>2. [s \in Slot |-> InCallback(s)]'
              = [[s \in Slot |-> InCallback(s)] EXCEPT ![r] = @ \ {t}]
      BY <1>7, <3>1
    <3>3. Link!Return(r, t)
      BY <1>2, <1>4, <1>5, <2>1, <3>2 DEF Link!Return
    <3> QED
      BY <1>4, <3>3 DEF Link!Next
  <2> QED
    BY <2>2, <2>3
<1> QED
  BY <1>2, <1>8, <1>9

(* The other steps of postEVT are not seen, but for those that abort.               *)
LEMMA PostImplements ==
    ASSUME ConlesAssumption, TableType, QueueType, PcType, FrameType, FrameInv,
           NEW t \in Thread, postEVT(t)
    PROVE  Link!Next \/ UNCHANGED Link!vars
<1>1. CASE \E m \in Msg, o \in Options : PostCall(t, m, o)
  <2>1. /\ pc[t] \in {"idle", "cb"} /\ ret' = [ret EXCEPT ![t] = pc[t]]
        /\ t \in Slot => pc[t] = "cb"
        /\ pc' = [pc EXCEPT ![t] = "lock"]
        /\ UNCHANGED <<cbProc, evtIDs, queue, idx>>
    BY <1>1 DEF PostCall, Goto, ConlesAssumption
  <2>2. /\ pc'[t] = "lock" /\ ret'[t] = pc[t]
        /\ \A u \in Thread : u # t => pc'[u] = pc[u] /\ ret'[u] = ret[u]
    BY <2>1 DEF PcType, FrameType
  <2>3. \A s \in Slot : InAsyncCb(s)' <=> InAsyncCb(s)
    BY <2>1, <2>2 DEF InAsyncCb
  <2> QED
    BY <2>1, <2>2, <2>3, Unseen
<1>2. CASE PostLock(t) \/ PostSkip(t) \/ PostSignal(t) \/ PostFullNonBlock(t)
           \/ PostFullRetry(t)
  <2>1. /\ pc[t] \in {"lock", "post", "signal"} /\ pc'[t] = "post"
        /\ \A u \in Thread : u # t =>
              pc'[u] = pc[u] \/ (pc[u] = "wait" /\ pc'[u] = "top")
        /\ \A u \in Thread : u # t => idx'[u] = idx[u]
        /\ UNCHANGED <<cbProc, evtIDs, queue, ret>>
    <3>1. CASE PostLock(t) \/ PostSkip(t) \/ PostFullNonBlock(t)
      BY <3>1 DEF PostLock, PostSkip, PostFullNonBlock, AtFullQueue, AtMatch, NextSlot,
                  Goto, PcType, FrameType
    <3>2. CASE PostSignal(t) \/ PostFullRetry(t)
      <4>1. /\ pc[t] \in {"post", "signal"}
            /\ pc' = [pc EXCEPT ![t] = "post",
                                ![idx[t]] = IF @ = "wait" THEN "top" ELSE @]
            /\ UNCHANGED <<cbProc, evtIDs, queue, ret>>
        BY <3>2 DEF PostSignal, PostFullRetry, AtFullQueue, AtMatch, SignalAndGoto
      <4>2. \A u \in Thread : u # t => idx'[u] = idx[u]
        BY <3>2 DEF PostSignal, PostFullRetry, NextSlot, FrameType
      <4>3. pc'[t] = "post" /\ \A u \in Thread : u # t =>
                pc'[u] = pc[u] \/ (pc[u] = "wait" /\ pc'[u] = "top")
        BY <4>1 DEF PcType
      <4> QED
        BY <4>1, <4>2, <4>3
    <3> QED
      BY <1>2, <3>1, <3>2
  <2>2. \A s \in Slot : InAsyncCb(s)' <=> InAsyncCb(s)
    BY <2>1 DEF InAsyncCb
  <2> QED
    BY <2>1, <2>2, Unseen
<1>3. CASE PostNoTable(t) \/ PostLockTimeout(t) \/ postEVT_ASyncThreadCached(t)
           \/ PostDone(t)
  <2>1. /\ \E r : PostReturn(t, r)
        /\ pc[t] \in {"lock", "post"} /\ UNCHANGED <<cbProc, evtIDs, queue>>
    BY <1>3 DEF PostNoTable, PostLockTimeout, postEVT_ASyncThreadCached, PostDone
  <2> QED
    BY <2>1, ReturnUnseen
<1>4. CASE PostCreateFails(t) \/ PostFullTimeout(t)
  <2>1. Abort /\ pc[t] = "post" /\ UNCHANGED <<cbProc, evtIDs, queue>>
    BY <1>4 DEF PostCreateFails, PostFullTimeout, AtFullQueue, AtMatch
  <2> QED
    BY <2>1, Aborts
<1>5. CASE PostSync(t) \/ PostSyncReturn(t)
  BY <1>5, SyncCalls
<1>6. CASE PostEnqueue(t)
  BY <1>6, EnqueueDelivered
<1> QED
  BY <1>1, <1>2, <1>3, <1>4, <1>5, <1>6 DEF postEVT, PostScan

(* The async thread of a slot handles the slot's oldest event, and nobody but this  *)
(* thread handles events there.                                                     *)
LEMMA AsyncImplements ==
    ASSUME ConlesAssumption, TableType, QueueType, PcType, FrameType, FrameInv,
           FreeSlotIsQuiet, NEW s \in Slot, ASyncEventThread(s)
    PROVE  Link!Next \/ UNCHANGED Link!vars
<1>1. CASE AsyncTake(s)
  <2>1. /\ pc[s] = "top" /\ pc' = [pc EXCEPT ![s] = "cb"]
        /\ queue[s] # <<>> /\ queue' = [queue EXCEPT ![s] = Tail(@)]
        /\ UNCHANGED <<cbProc, evtIDs, idx, ret>>
    BY <1>1 DEF AsyncTake, IsEmpty, Goto
  <2>2. pc'[s] = "cb" /\ \A u \in Thread : u # s => pc'[u] = pc[u]
    BY <2>1 DEF PcType
  <2>3. ~HasAborted /\ ~HasAborted'
    BY <2>1, <2>2 DEF HasAborted
  <2>4. \A r \in Slot : (IsFree(r)' <=> IsFree(r)) /\ SubedIDs(r)' = SubedIDs(r)
    BY <2>1 DEF IsFree, SubedIDs
  <2>5. \A r \in Slot : r # s => InCallback(r)' = InCallback(r)
    BY <2>1, <2>2 DEF InCallback, InAsyncCb
  <2>6. InCallback(s)' = InCallback(s) \cup {s} /\ s \notin InCallback(s)
    BY <2>1, <2>2 DEF InCallback, InAsyncCb
  <2>7. ~IsFree(s)
    BY <2>1 DEF FreeSlotIsQuiet
  <2>8. [r \in Slot |-> InCallback(r)]'
            = [[r \in Slot |-> InCallback(r)] EXCEPT ![s] = @ \cup {s}]
    BY <2>5, <2>6
  <2>9. Link!Handle(s)
    BY <2>1, <2>3, <2>4, <2>6, <2>7, <2>8 DEF Link!Handle
  <2> QED
    BY <2>3, <2>9 DEF Link!Next
<1>2. CASE AsyncCbReturn(s)
  <2>1. /\ pc[s] = "cb" /\ pc' = [pc EXCEPT ![s] = "drain"]
        /\ UNCHANGED <<cbProc, evtIDs, queue, idx, ret>>
    BY <1>2 DEF AsyncCbReturn, Goto
  <2>2. pc'[s] = "drain" /\ \A u \in Thread : u # s => pc'[u] = pc[u]
    BY <2>1 DEF PcType
  <2>3. ~HasAborted /\ ~HasAborted'
    BY <2>1, <2>2 DEF HasAborted
  <2>4. \A r \in Slot : (IsFree(r)' <=> IsFree(r)) /\ SubedIDs(r)' = SubedIDs(r)
    BY <2>1 DEF IsFree, SubedIDs
  <2>5. \A r \in Slot : r # s => InCallback(r)' = InCallback(r)
    BY <2>1, <2>2 DEF InCallback, InAsyncCb
  <2>6. InCallback(s)' = InCallback(s) \ {s} /\ s \in InCallback(s)
    BY <2>1, <2>2 DEF InCallback, InAsyncCb
  <2>7. [r \in Slot |-> InCallback(r)]'
            = [[r \in Slot |-> InCallback(r)] EXCEPT ![s] = @ \ {s}]
    BY <2>5, <2>6
  <2>8. Link!Return(s, s)
    BY <2>1, <2>3, <2>4, <2>6, <2>7 DEF Link!Return
  <2> QED
    BY <2>3, <2>8 DEF Link!Next
<1>3. CASE AsyncExit(s) \/ AsyncWait(s) \/ AsyncSpuriousWakeup(s) \/ AsyncDrain(s)
           \/ AsyncDrained(s)
  <2>1. /\ pc[s] \in {"top", "wait", "drain"}
        /\ \/ pc'[s] \in {"top", "wait", "exited"}
           \/ pc'[s] = "lock" /\ ret'[s] = "drain"
        /\ \A u \in Thread : u # s => pc'[u] = pc[u] /\ ret'[u] = ret[u]
        /\ UNCHANGED <<cbProc, evtIDs, queue, idx>>
    BY <1>3 DEF AsyncExit, AsyncWait, AsyncSpuriousWakeup, AsyncDrain, AsyncDrained, Goto,
                PcType, FrameType
  <2>2. \A r \in Slot : InAsyncCb(r)' <=> InAsyncCb(r)
    BY <2>1 DEF InAsyncCb
  <2> QED
    BY <2>1, <2>2, Unseen
<1> QED
  BY <1>1, <1>2, <1>3 DEF ASyncEventThread

(* The idle link is the initial state a user of it sees.                            *)
LEMMA LinkIdle ==
    ASSUME ConlesAssumption, Idle
    PROVE  Link!Init
<1>1. ~HasAborted
  <2>1. 1 \in Slot
    BY SMT DEF ConlesAssumption
  <2> QED
    BY <2>1 DEF Idle, HasAborted, ConlesAssumption
<1>2. \A s \in Slot : IsFree(s) /\ SubedIDs(s) = {} /\ InCallback(s) = {}
  BY DEF Idle, IsFree, SubedIDs, InCallback, InAsyncCb
<1> QED
  BY <1>1, <1>2 DEF Idle, Link!Init

(* Each step is a step of the link or not seen by its users.                        *)
LEMMA LinkStep ==
    ASSUME ConlesAssumption, IInv, [Next]_vars
    PROVE  [Link!Next]_(Link!vars)
<1>1. /\ TableType /\ QueueType /\ CacheType /\ PcType /\ FrameType
      /\ CtxMutexHeld /\ FrameInv /\ LifeInv /\ FreeSlotIsQuiet
  BY Types DEF IInv
<1>2. CASE UNCHANGED vars
  <2>1. \A s \in Slot : /\ IsFree(s)' <=> IsFree(s)
                        /\ SubedIDs(s)' = SubedIDs(s)
                        /\ InCallback(s)' = InCallback(s)
    BY <1>2 DEF IsFree, SubedIDs, InCallback, InAsyncCb
  <2>2. HasAborted' <=> HasAborted
    BY <1>2 DEF HasAborted
  <2> QED
    BY <1>2, <2>1, <2>2 DEF Link!vars
<1>3. ASSUME NEW c \in Client, subEVT(c) PROVE Link!Next \/ UNCHANGED Link!vars
  BY <1>1, <1>3, SubOpens
<1>4. ASSUME NEW c \in Client, unsubEVT(c) PROVE Link!Next \/ UNCHANGED Link!vars
  BY <1>1, <1>4, UnsubCloses
<1>5. ASSUME NEW t \in Thread, postEVT(t) PROVE Link!Next \/ UNCHANGED Link!vars
  BY <1>1, <1>5, PostImplements
<1>6. ASSUME NEW s \in Slot, ASyncEventThread(s) PROVE Link!Next \/ UNCHANGED Link!vars
  BY <1>1, <1>6, AsyncImplements
<1> QED
  BY <1>2, <1>3, <1>4, <1>5, <1>6 DEF Next

(* The link with its context mutex, its slots, its retries and its cached events    *)
(* implements the link its users are promised, for any number of clients and slots. *)
THEOREM LinkImplemented == Spec => ImplementsEvtLink
<1>1. Init => Link!Init
  BY LinkIdle, ConlesAssumption DEF Init
<1>2. IInv /\ [Next]_vars => [Link!Next]_(Link!vars)
  BY LinkStep, ConlesAssumption
<1> QED
  BY <1>1, <1>2, Inductive, PTL DEF Spec, ImplementsEvtLink, Link!Spec

-------------------------------------------------------------------------------------
(* The order of events.                                                             *)

(* A step that queues and caches nothing, begins no post and moves every scan       *)
(* forward, if at all, keeps the order.                                             *)
LEMMA OrderKept ==
    ASSUME CacheType, QueueType, OrderInv,
           unposted' \subseteq unposted,
           \A s \in Slot : accepted'[s] = accepted[s] \/ accepted'[s] = <<>>,
           \A s \in Slot : \/ cache'[s] = cache[s] \/ cache'[s] = <<>>
                           \/ cache[s] # <<>> /\ cache'[s] = Tail(cache[s]),
           \A t \in Thread : pc'[t] \in InCall => pc[t] \in InCall /\ evt'[t] = evt[t],
           \A c \in Client, s \in Slot : IsAhead(c, s)' => IsAhead(c, s)
    PROVE  OrderInv'
<1>1. PosterInv'
  <2>1. ASSUME NEW s \in Slot, NEW i \in DOMAIN cache'[s]
        PROVE  \E j \in DOMAIN cache[s] : cache'[s][i] = cache[s][j]
    <3>1. CASE cache[s] # <<>> /\ cache'[s] = Tail(cache[s])
      <4>1. cache[s] \in Seq(Msg)
        BY DEF CacheType
      <4>2. i + 1 \in DOMAIN cache[s] /\ cache'[s][i] = cache[s][i + 1]
        BY <2>1, <3>1, <4>1, HeadTailProperties, LenProperties
      <4> QED
        BY <4>2
    <3> QED
      BY <2>1, <3>1
  <2> QED
    BY <2>1 DEF OrderInv, PosterInv
<1>2. \A s \in Slot : delivered'[s] \subseteq delivered[s]
  BY DEF delivered
<1>3. \A c \in Client, s \in Slot : IsAhead(c, s)' => pc'[c] \in InCall
  BY DEF IsAhead
<1>4. AheadInv'
  BY <1>2, <1>3 DEF OrderInv, AheadInv
<1>5. ClientOrderKept'
  BY DEF OrderInv, ClientOrderKept
<1> QED
  BY <1>1, <1>4, <1>5 DEF OrderInv

(* The call of postEVT: a client posts the least of the events it has left.         *)
LEMMA OrderCall ==
    ASSUME ConlesAssumption, IInv, OrderInv, NEW t \in Thread, NEW m \in Msg,
           NEW o \in Options, PostCall(t, m, o)
    PROVE  OrderInv'
<1>1. PcType /\ FrameType /\ EnvType /\ CacheType /\ QueueType
  BY Types DEF IInv
<1>2. /\ m \in unposted /\ PostedBy[m] = t
      /\ evt'[t] = m /\ unposted' = unposted \ {m} /\ UNCHANGED <<accepted, cache, idx>>
      /\ pc'[t] = "lock"
      /\ \A u \in Thread : u # t => pc'[u] = pc[u] /\ evt'[u] = evt[u]
  BY <1>1 DEF PostCall, IsNextPost, Goto, PcType, FrameType
<1>3. PosterInv'
  BY <1>2 DEF OrderInv, PosterInv
<1>4. ASSUME NEW c \in Client PROVE
         /\ \A s \in Slot : \A n \in delivered'[s] : PostedBy[n] = c =>
               /\ IsAhead(c, s)' => n < evt'[c]
               /\ \A k \in unposted' : PostedBy[k] = c => n < k
         /\ pc'[c] \in InCall => \A k \in unposted' : PostedBy[k] = c => evt'[c] < k
  <2>1. delivered' = delivered
    BY <1>2 DEF delivered
  <2>2. CASE c = t
    <3>1. \A k \in unposted : PostedBy[k] = c => m <= k
      BY <2>2 DEF PostCall, IsNextPost
    <3>2. \A k \in unposted' : PostedBy[k] = c => m < k
      <4>1. \A k \in unposted' : k \in unposted /\ k # m /\ k \in Nat /\ m \in Nat
        BY <1>1, <1>2 DEF EnvType, ConlesAssumption
      <4> QED
        BY <3>1, <4>1
    <3> QED
      BY <1>2, <2>1, <2>2, <3>2 DEF OrderInv, AheadInv
  <2>3. CASE c # t
    BY <1>2, <2>1, <2>3 DEF OrderInv, AheadInv, IsAhead
  <2> QED
    BY <2>2, <2>3
<1>5. ClientOrderKept'
  BY <1>2 DEF OrderInv, ClientOrderKept
<1> QED
  BY <1>3, <1>4, <1>5 DEF OrderInv, AheadInv

(* A queued event comes after those of its poster that are there.                   *)
LEMMA OrderEnqueue ==
    ASSUME ConlesAssumption, IInv, OrderInv, NEW t \in Thread, PostEnqueue(t)
    PROVE  OrderInv'
<1>1. PcType /\ FrameType /\ EnvType /\ CacheType /\ QueueType /\ FrameInv
  BY Types DEF IInv
<1> DEFINE z == idx[t]
<1>2. /\ z \in Slot /\ evt[t] \in Msg /\ PostedBy[evt[t]] = t /\ pc[t] = "post"
      /\ accepted' = [accepted EXCEPT ![z] = Append(@, evt[t])]
      /\ UNCHANGED <<unposted, cache, evt, idx>>
  BY <1>1 DEF PostEnqueue, AtMatch, FrameInv, OrderInv, PosterInv
<1>3. /\ pc'[t] = "signal"
      /\ \A u \in Thread : u # t => pc'[u] = pc[u] \/ pc'[u] = "top"
  BY <1>1, <1>2 DEF PostEnqueue, PcType
<1>4. /\ DOMAIN accepted[z] = 1 .. Len(accepted[z]) /\ Len(accepted[z]) \in Nat
      /\ DOMAIN accepted'[z] = 1 .. Len(accepted[z]) + 1
      /\ \A i \in 1 .. Len(accepted[z]) : accepted'[z][i] = accepted[z][i]
      /\ accepted'[z][Len(accepted[z]) + 1] = evt[t]
  <2>1. accepted[z] \in Seq(Msg) /\ accepted'[z] = Append(accepted[z], evt[t])
    BY <1>1, <1>2 DEF QueueType
  <2> QED
    BY <1>2, <2>1, AppendProperties, LenProperties
<1>5. \A s \in Slot : s # z => accepted'[s] = accepted[s]
  BY <1>1, <1>2 DEF QueueType
<1> HIDE DEF z
<1>6. ASSUME NEW s \in Slot, NEW m \in delivered'[s]
      PROVE  m \in delivered[s] \/ (s = z /\ m = evt[t])
  BY <1>4, <1>5, <1>6 DEF delivered
<1>7. PosterInv'
  BY <1>2, <1>3 DEF OrderInv, PosterInv
<1>8. AheadInv'
  <2> SUFFICES ASSUME NEW c \in Client
               PROVE  /\ \A s \in Slot : \A m \in delivered'[s] : PostedBy[m] = c =>
                            /\ IsAhead(c, s)' => m < evt'[c]
                            /\ \A n \in unposted' : PostedBy[n] = c => m < n
                      /\ pc'[c] \in InCall =>
                            \A n \in unposted' : PostedBy[n] = c => evt'[c] < n
    BY DEF AheadInv
  <2>1. pc'[c] \in InCall => pc[c] \in InCall
    BY <1>2, <1>3
  <2>2. \A s \in Slot : IsAhead(c, s)' => IsAhead(c, s) /\ (c = t => s # z)
    BY <1>1, <1>2, <1>3 DEF IsAhead, z, FrameType
  <2>3. pc[c] \in InCall => \A n \in unposted : PostedBy[n] = c => evt[c] < n
    BY DEF OrderInv, AheadInv
  <2>4. ASSUME NEW s \in Slot, NEW m \in delivered'[s], PostedBy[m] = c
        PROVE  /\ IsAhead(c, s)' => m < evt'[c]
               /\ \A n \in unposted' : PostedBy[n] = c => m < n
    <3>1. CASE m \in delivered[s]
      BY <1>2, <2>2, <2>4, <3>1 DEF OrderInv, AheadInv
    <3>2. CASE s = z /\ m = evt[t]
      BY <1>2, <2>2, <2>3, <2>4, <3>2
    <3> QED
      BY <1>6, <3>1, <3>2
  <2> QED
    BY <1>2, <2>1, <2>3, <2>4
<1>9. ClientOrderKept'
  <2> SUFFICES ASSUME NEW s \in Slot, NEW i \in DOMAIN accepted'[s],
                      NEW j \in DOMAIN accepted'[s], i < j,
                      PostedBy[accepted'[s][i]] = PostedBy[accepted'[s][j]],
                      PostedBy[accepted'[s][i]] \in Client
               PROVE  accepted'[s][i] < accepted'[s][j]
    BY DEF ClientOrderKept
  <2>1. CASE s # z \/ j # Len(accepted[z]) + 1
    <3>1. i \in DOMAIN accepted[s] /\ j \in DOMAIN accepted[s]
          /\ accepted'[s][i] = accepted[s][i] /\ accepted'[s][j] = accepted[s][j]
      BY <1>4, <1>5, <2>1
    <3> QED
      BY <3>1 DEF OrderInv, ClientOrderKept
  <2>2. CASE s = z /\ j = Len(accepted[z]) + 1
    <3>1. i \in DOMAIN accepted[z] /\ accepted'[s][i] = accepted[z][i]
          /\ accepted'[s][j] = evt[t]
      BY <1>4, <2>2
    <3>2. accepted[z][i] \in delivered[z]
      BY <1>2, <3>1 DEF delivered
    <3>3. t \in Client /\ PostedBy[accepted[z][i]] = t
      BY <1>2, <2>2, <3>1
    <3>4. IsAhead(t, z)
      BY <1>2 DEF IsAhead, z
    <3> QED
      BY <1>2, <3>1, <3>2, <3>3, <3>4 DEF OrderInv, AheadInv
  <2> QED
    BY <2>1, <2>2
<1> QED
  BY <1>7, <1>8, <1>9 DEF OrderInv

(* A retry of a cached event is a post of the slot's own events, not a client's.    *)
LEMMA OrderDrain ==
    ASSUME ConlesAssumption, IInv, OrderInv, NEW r \in Slot, AsyncDrain(r)
    PROVE  OrderInv'
<1>1. PcType /\ FrameType /\ CacheType
  BY Types DEF IInv
<1>2. /\ evt'[r] = Head(cache[r]) /\ cache[r] # <<>> /\ pc'[r] = "lock" /\ r \notin Client
      /\ UNCHANGED <<accepted, cache, unposted, idx>>
      /\ \A u \in Thread : u # r => pc'[u] = pc[u] /\ evt'[u] = evt[u]
  BY <1>1 DEF AsyncDrain, Goto, PcType, FrameType, ConlesAssumption
<1>3. 1 \in DOMAIN cache[r] /\ evt'[r] = cache[r][1]
  <2>1. cache[r] \in Seq(Msg)
    BY <1>1 DEF CacheType
  <2> QED
    BY <1>2, <2>1, HeadTailProperties, LenProperties
<1>4. PosterInv'
  BY <1>2, <1>3 DEF OrderInv, PosterInv
<1>5. AheadInv' /\ ClientOrderKept'
  BY <1>2 DEF OrderInv, AheadInv, ClientOrderKept, IsAhead, delivered
<1> QED
  BY <1>4, <1>5 DEF OrderInv

(* An event that is cached is one of the slot's own.                                *)
LEMMA OrderCached ==
    ASSUME ConlesAssumption, IInv, OrderInv, NEW t \in Thread, postEVT_ASyncThreadCached(t)
    PROVE  OrderInv'
<1>1. PcType /\ FrameType /\ CacheType /\ FrameInv
  BY Types DEF IInv
<1>2. /\ t \in Slot /\ t \notin Client /\ pc[t] = "lock" /\ UNCHANGED <<accepted, unposted>>
      /\ evt[t] \in Msg /\ PostedBy[evt[t]] = t
      /\ \/ cache' = cache \/ cache' = [cache EXCEPT ![t] = Append(@, evt[t])]
      /\ \E r : PostReturn(t, r)
  BY <1>1 DEF postEVT_ASyncThreadCached, FrameInv, OrderInv, PosterInv, ConlesAssumption
<1>3. \A u \in Thread : pc'[u] \in InCall =>
          u # t /\ pc'[u] = pc[u] /\ evt'[u] = evt[u] /\ idx'[u] = idx[u]
  BY <1>1, <1>2, PcReturns
<1>4. ASSUME NEW s \in Slot, NEW i \in DOMAIN cache'[s] PROVE PostedBy[cache'[s][i]] = s
  <2>1. CASE cache'[s] = cache[s]
    BY <1>4, <2>1 DEF OrderInv, PosterInv
  <2>2. CASE s = t /\ cache'[s] = Append(cache[s], evt[t])
    <3>1. cache[s] \in Seq(Msg)
      BY <1>1 DEF CacheType
    <3>2. \/ i \in DOMAIN cache[s] /\ cache'[s][i] = cache[s][i]
          \/ cache'[s][i] = evt[t]
      BY <1>2, <1>4, <2>2, <3>1, AppendProperties, LenProperties
    <3> QED
      BY <1>2, <2>2, <3>2 DEF OrderInv, PosterInv
  <2> QED
    BY <1>1, <1>2, <2>1, <2>2 DEF CacheType
<1>5. PosterInv'
  BY <1>3, <1>4 DEF OrderInv, PosterInv
<1>6. AheadInv' /\ ClientOrderKept'
  BY <1>2, <1>3 DEF OrderInv, AheadInv, ClientOrderKept, IsAhead, delivered
<1> QED
  BY <1>5, <1>6 DEF OrderInv

(* A postEVT that returns leaves the others where they are.                         *)
LEMMA OrderReturn ==
    ASSUME ConlesAssumption, IInv, OrderInv, NEW t \in Thread, NEW r, PostReturn(t, r),
           pc[t] \in {"lock", "post"}, UNCHANGED <<accepted, unposted>>,
           \A s \in Slot : \/ cache'[s] = cache[s]
                           \/ cache[s] # <<>> /\ cache'[s] = Tail(cache[s])
    PROVE  OrderInv'
<1>1. PcType /\ FrameType /\ CacheType /\ QueueType /\ FrameInv
  BY Types DEF IInv
<1>2. \A u \in Thread : pc'[u] \in InCall =>
          pc'[u] = pc[u] /\ evt'[u] = evt[u] /\ idx'[u] = idx[u]
  BY <1>1, PcReturns
<1>3. \A c \in Client, s \in Slot : IsAhead(c, s)' => IsAhead(c, s)
  BY <1>2 DEF IsAhead
<1> QED
  BY <1>1, <1>2, <1>3, OrderKept

(* subEVT empties a slot's history or leaves it alone.                              *)
LEMMA OrderSub ==
    ASSUME ConlesAssumption, IInv, OrderInv, NEW c \in Client, subEVT(c)
    PROVE  OrderInv'
<1>1. TableType /\ PcType /\ CacheType /\ QueueType /\ FreeSlotIsQuiet
  BY Types DEF IInv
<1>2. UNCHANGED <<cache, unposted, evt, idx>>
  <2>1. CASE SubInstall(c) \/ SubMallocFails(c)
    BY <1>1, <2>1, FillShape DEF SubInstall, SubMallocFails
  <2> QED
    BY <2>1 DEF subEVT, SubLock, SubReject, SubNoFreeSlot, SubCallocFails
<1>3. \A s \in Slot : accepted'[s] = accepted[s] \/ accepted'[s] = <<>>
  <2>1. CASE SubInstall(c) \/ SubMallocFails(c)
    BY <1>1, <2>1, FillShape
  <2> QED
    BY <2>1 DEF subEVT, SubLock, SubReject, SubNoFreeSlot, SubCallocFails
<1>4. \A t \in Thread : pc'[t] \in InCall => pc'[t] = pc[t]
  BY <1>1 DEF subEVT, SubLock, SubReject, SubNoFreeSlot, SubInstall, SubMallocFails,
     SubCallocFails, Goto, Abort, PcType
<1>5. \A d \in Client, s \in Slot : IsAhead(d, s)' => IsAhead(d, s)
  BY <1>2, <1>4 DEF IsAhead
<1> QED
  BY <1>1, <1>2, <1>3, <1>4, <1>5, OrderKept

(* unsubEVT moves no post and changes no history.                                   *)
LEMMA OrderUnsub ==
    ASSUME ConlesAssumption, IInv, OrderInv, NEW c \in Client, unsubEVT(c)
    PROVE  OrderInv'
<1>1. PcType /\ FrameType /\ CacheType /\ QueueType /\ FrameInv
  BY Types DEF IInv
<1> USE DEF unsubEVT, UnsubLock, UnsubNoTable, UnsubSkip, UnsubStop, UnsubSignal,
        UnsubClear, UnsubJoin, UnsubDone
<1>2. UNCHANGED <<accepted, cache, unposted, evt>>
  OBVIOUS
<1>3. pc'[c] \notin InCall /\ \A t \in Thread : pc'[t] \in InCall => pc'[t] = pc[t]
  BY <1>1 DEF SignalAndGoto, Goto, AfterClear, PcType, ConlesAssumption, FrameInv
<1>4. \A t \in Thread : t # c => idx'[t] = idx[t]
  BY <1>1 DEF UnsubReturn, ClearSlot, FrameType
<1>5. \A d \in Client, s \in Slot : IsAhead(d, s)' => IsAhead(d, s)
  BY <1>3, <1>4 DEF IsAhead
<1> QED
  BY <1>1, <1>2, <1>3, <1>5, OrderKept

(* A scan only moves forward, and a callback or a full queue does not move it back. *)
LEMMA OrderScan ==
    ASSUME ConlesAssumption, IInv, OrderInv, NEW t \in Thread,
           \/ PostLock(t) \/ PostSkip(t) \/ PostSync(t) \/ PostSyncReturn(t)
           \/ PostSignal(t) \/ PostCreateFails(t) \/ PostFullNonBlock(t)
           \/ PostFullTimeout(t) \/ PostFullRetry(t)
    PROVE  OrderInv'
<1>1. PcType /\ FrameType /\ CacheType /\ QueueType /\ FrameInv
  BY Types DEF IInv
<1> USE DEF PostLock, PostSkip, PostSync, PostSyncReturn, PostSignal, PostCreateFails,
        PostFullNonBlock, PostFullTimeout, PostFullRetry, AtMatch, AtFullQueue
<1>2. UNCHANGED <<accepted, cache, unposted, evt>> /\ pc[t] \in InCall
  OBVIOUS
<1>3. \A u \in Thread : u # t =>
          (pc'[u] \in InCall => pc'[u] = pc[u]) /\ idx'[u] = idx[u]
  BY <1>1 DEF SignalAndGoto, Goto, Abort, NextSlot, PcType, FrameType
<1>4. ASSUME t \in Client, NEW s \in Slot, IsAhead(t, s)' PROVE IsAhead(t, s)
  <2>1. pc'[t] \in InCall
    BY <1>4 DEF IsAhead
  <2>2. idx[t] \in Int /\ s \in Int
    BY <1>1 DEF FrameType, ConlesAssumption
  <2>3. CASE PostLock(t)
    BY <2>3 DEF IsAhead
  <2>4. CASE PostSkip(t) \/ PostFullNonBlock(t)
    <3>1. pc[t] = "post" /\ pc'[t] = "post" /\ idx'[t] = idx[t] + 1
      BY <1>1, <2>4 DEF NextSlot, FrameType
    <3> QED
      BY <1>4, <2>2, <3>1 DEF IsAhead
  <2>5. CASE PostSyncReturn(t) \/ PostSignal(t)
    <3>1. pc[t] \in {"syncCb", "signal"} /\ pc'[t] \in {"post", "top"} /\ idx'[t] = idx[t] + 1
      BY <1>1, <2>5 DEF NextSlot, SignalAndGoto, Goto, FrameType, PcType
    <3> QED
      BY <1>4, <2>2, <3>1 DEF IsAhead
  <2>6. CASE PostSync(t) \/ PostFullRetry(t)
    <3>1. pc[t] = "post" /\ pc'[t] \in {"syncCb", "post", "top"} /\ idx'[t] = idx[t]
      BY <1>1, <2>6 DEF SignalAndGoto, Goto, PcType
    <3> QED
      BY <1>4, <2>2, <3>1 DEF IsAhead
  <2>7. CASE PostCreateFails(t) \/ PostFullTimeout(t)
    BY <2>1, <2>7 DEF Abort
  <2> QED
    BY <2>3, <2>4, <2>5, <2>6, <2>7
<1>5. \A c \in Client, s \in Slot : IsAhead(c, s)' => IsAhead(c, s)
  BY <1>3, <1>4 DEF IsAhead
<1>6. \A u \in Thread : pc'[u] \in InCall => pc[u] \in InCall /\ evt'[u] = evt[u]
  BY <1>2, <1>3
<1> HIDE DEF PostLock, PostSkip, PostSync, PostSyncReturn, PostSignal, PostCreateFails,
         PostFullNonBlock, PostFullTimeout, PostFullRetry, AtMatch, AtFullQueue
<1> QED
  BY <1>1, <1>2, <1>5, <1>6, OrderKept

(* Every call of postEVT keeps the order.                                           *)
LEMMA OrderPost ==
    ASSUME ConlesAssumption, IInv, OrderInv, NEW t \in Thread, postEVT(t)
    PROVE  OrderInv'
<1>1. CacheType /\ DrainInv
  BY Types DEF IInv
<1>2. ASSUME PostNoTable(t) PROVE OrderInv'
  BY <1>2, OrderReturn DEF PostNoTable
<1>3. ASSUME PostLockTimeout(t) PROVE OrderInv'
  BY <1>3, OrderReturn DEF PostLockTimeout
<1>4. ASSUME PostDone(t) PROVE OrderInv'
  <2>1. /\ pc[t] = "post" /\ UNCHANGED <<accepted, unposted>> /\ \E r : PostReturn(t, r)
    BY <1>4 DEF PostDone
  <2>2. \A s \in Slot : \/ cache'[s] = cache[s]
                        \/ cache[s] # <<>> /\ cache'[s] = Tail(cache[s])
    <3>1. CASE cache' = cache
      BY <3>1
    <3>2. CASE ret[t] = "drain" /\ cache' = [cache EXCEPT ![t] = Tail(@)]
      BY <1>1, <2>1, <3>2 DEF DrainInv, CacheType
    <3> QED
      BY <1>4, <3>1, <3>2 DEF PostDone
  <2> QED
    BY <2>1, <2>2, OrderReturn
<1> QED
  BY <1>2, <1>3, <1>4, OrderCall, OrderCached, OrderEnqueue, OrderScan DEF postEVT, PostScan

(* An async thread posts nothing but what it has cached.                            *)
LEMMA OrderAsync ==
    ASSUME ConlesAssumption, IInv, OrderInv, NEW r \in Slot, ASyncEventThread(r)
    PROVE  OrderInv'
<1>1. PcType /\ CacheType /\ QueueType
  BY Types DEF IInv
<1>2. CASE ~AsyncDrain(r)
  <2>1. UNCHANGED <<accepted, cache, unposted, evt, idx>>
    BY <1>2 DEF ASyncEventThread, AsyncExit, AsyncWait, AsyncSpuriousWakeup, AsyncTake,
       AsyncCbReturn, AsyncDrained
  <2>2. \A t \in Thread : pc'[t] \in InCall => pc'[t] = pc[t]
    BY <1>1, <1>2 DEF ASyncEventThread, AsyncExit, AsyncWait, AsyncSpuriousWakeup,
       AsyncTake, AsyncCbReturn, AsyncDrained, Goto, PcType
  <2>3. \A c \in Client, s \in Slot : IsAhead(c, s)' => IsAhead(c, s)
    BY <2>1, <2>2 DEF IsAhead
  <2> QED
    BY <1>1, <2>1, <2>2, <2>3, OrderKept
<1> QED
  BY <1>2, OrderDrain

-------------------------------------------------------------------------------------

(* Nothing is posted, cached or accepted before the first call.                     *)
LEMMA IdleOrder ==
    ASSUME ConlesAssumption, Idle, unposted \subseteq Msg PROVE OrderInv
BY DEF Idle, OrderInv, PosterInv, AheadInv, ClientOrderKept, IsAhead, delivered,
   ConlesAssumption

(* Every step keeps the order.                                                      *)
LEMMA NextOrder ==
    ASSUME ConlesAssumption, IInv, OrderInv, [Next]_vars PROVE OrderInv'
<1>1. CASE Next
  BY <1>1, OrderSub, OrderUnsub, OrderPost, OrderAsync DEF Next
<1>2. CASE UNCHANGED vars
  BY <1>2 DEF OrderInv, PosterInv, AheadInv, ClientOrderKept, IsAhead, delivered
<1> QED
  BY <1>1, <1>2

(* A client's events reach each subscription in the order the client posted them,   *)
(* each at most once, for any number of clients, slots and events, whichever of     *)
(* them block, time out or meet a full queue.                                       *)
THEOREM OrderCorrect == Spec => []ClientOrderKept
<1>1. Init => OrderInv
  BY IdleOrder, ConlesAssumption DEF Init
<1>2. IInv /\ OrderInv /\ [Next]_vars => OrderInv'
  BY NextOrder, ConlesAssumption
<1>3. OrderInv => ClientOrderKept
  BY DEF OrderInv
<1> QED
  BY <1>1, <1>2, <1>3, Inductive, PTL DEF Spec

=====================================================================================
