----------------------------- MODULE ConlesEvent -----------------------------
(*****************************************************************************)
(* The ConlesMode event link of PlatIF_IOC                                   *)
(* (src/PlatIF_IOC/_PlatIF_IOC_EventTest.cxx).                               *)
(*                                                                           *)
(* Application threads (Client) call subEVT, unsubEVT and postEVT.  Every    *)
(* subscription owns a slot of pEvtSubers, and a slot that has been posted   *)
(* to owns one ASyncEventThread, which runs the callback of the slot.  Two   *)
(* kinds of lock are involved:                                               *)
(*   - the recursive context mutex, held across whole calls, modelled by     *)
(*     ctxOwner and ctxDepth;                                                *)
(*   - one mutex per slot, held only for short sections that never block, so *)
(*     every such section is one atomic step here.                           *)
(* pthread_cond_signal is called after the slot mutex is released, so it is  *)
(* a step of its own, and pthread_cond_wait may also wake up spuriously.     *)
(*                                                                           *)
(* Callbacks are code of the application.  A callback in an async thread may *)
(* call postEVT; a callback run by a SYNC post, and sub/unsub from inside a  *)
(* callback, are not modelled as callers of the API.                         *)
(*****************************************************************************)
EXTENDS Integers, Sequences, FiniteSets

CONSTANTS
    Client,          \* application threads
    MaxSuberNum,     \* _mConlesEvtCtx.MaxSuberNum
    EVTQUEUE_MAX,    \* _IOC_CONLES_EVTQUEUE_MAX
    EVTCACHED_MAX,   \* _IOC_CONLES_EVTCACHED_MAX
    ULONG_MOD,       \* 2^w of ULONG_T, the type of CurSuberNum
    Key,             \* pairs (CbProcEvt_F, pCbPriv) with CbProcEvt_F # NULL
    EvtID,
    SubArgs,         \* the subscriptions: records [key, ids]
    Msg,             \* the posts of a behaviour; a number is one call of postEVT
    EvtOf,           \* the EvtID of each post
    PostedBy,        \* the client, or the slot whose callback, makes each post
    MayDrop,         \* posts whose MsgDesc.Flags has IOC_MSGFLAG_MAYDROP
    Options,         \* the pOptions in use: records [sync, wait]
    MaxFaults,       \* bound on failing malloc and pthread_create calls
    MaxDepth,        \* bound on the depth of the recursive context mutex
    MaxAccepted,     \* bound on the events one subscription queues
    ALL,             \* unsubEVT(NULL)
    None

Slot   == 1 .. MaxSuberNum
Thread == Client \cup Slot

\* pOptions of a call: IOC_OPTID_SYNC_MODE, and IOC_OPTID_TIMEOUT with
\* TimeoutUS = 0 (nonblock) or TimeoutUS > 0 (timeout), or neither (block).
AnyOption == [sync : BOOLEAN, wait : {"block", "nonblock", "timeout"}]
OptNonBlock == [sync |-> FALSE, wait |-> "nonblock"]

ASSUME ConlesAssumption ==
    /\ MaxSuberNum \in Nat \ {0}
    /\ EVTQUEUE_MAX \in Nat \ {0}
    /\ EVTCACHED_MAX \in Nat \ {0}
    /\ ULONG_MOD \in Nat /\ ULONG_MOD > MaxSuberNum
    /\ MaxFaults \in Nat
    /\ MaxDepth \in Nat \ {0}
    /\ MaxAccepted \in Nat
    /\ Client \cap Slot = {}
    /\ None \notin Thread
    /\ None \notin Key
    /\ None \notin Msg
    /\ None \notin {"SUCCESS", "TIMEOUT"}
    /\ \A ids \in SUBSET EvtID : ids # None
    /\ \A o \in AnyOption : o # None
    /\ ALL \notin Key \cup {None}
    /\ SubArgs \subseteq [key : Key, ids : SUBSET EvtID]
    /\ Msg \subseteq Nat
    /\ EvtOf \in [Msg -> EvtID]
    /\ PostedBy \in [Msg -> Thread]
    /\ MayDrop \subseteq Msg
    /\ Options \subseteq AnyOption

VARIABLES
    inited,       \* pEvtSubers # NULL
    ctxOwner,     \* thread holding the context mutex, or None
    ctxDepth,     \* how often it holds it
    curSuberNum,  \* CurSuberNum
    cbProc,       \* [Slot -> Key or None]: Args.CbProcEvt_F, Args.pCbPriv
    evtIDs,       \* [Slot -> SUBSET EvtID or None]: Args.pEvtIDs
    queue,        \* [Slot -> Seq(Msg)]: EvtDescQueue from EvtProcCnt to EvtPostCnt
    cache,        \* [Slot -> Seq(Msg)]: EvtDescCachedQueue
    shouldExit,   \* [Slot -> BOOLEAN]: ShouldExitASyncThread
    pc,           \* [Thread -> where the thread is]
    ret,          \* [Thread -> where its running postEVT returns to]
    evt,          \* [Thread -> the pEvtDesc of its running postEVT]
    opt,          \* [Thread -> the pOptions of its running postEVT]
    idx,          \* [Thread -> SuberIdx or Idx of its running loop]
    res,          \* [Thread -> Result of its running postEVT; None: no match yet]
    target,       \* [Client -> pEvtUnsubArgs of its running unsubEVT]
    unposted,     \* the posts not made yet
    faults,       \* failed allocations so far
    accepted,     \* history: [Slot -> posts queued for the subscription]
    handled       \* history: [Slot -> posts its async thread gave to the callback]

ctxVars   == <<inited, ctxOwner, ctxDepth, curSuberNum>>
tableVars == <<cbProc, evtIDs>>
slotVars  == <<queue, cache, shouldExit, accepted, handled>>
frameVars == <<ret, evt, opt, idx, res>>
envVars   == <<target, unposted, faults>>
vars == <<ctxVars, tableVars, slotVars, pc, frameVars, envVars>>

-----------------------------------------------------------------------------
(* The state before the first call.                                          *)

Idle ==
    /\ inited = FALSE
    /\ ctxOwner = None
    /\ ctxDepth = 0
    /\ curSuberNum = 0
    /\ cbProc = [s \in Slot |-> None]
    /\ evtIDs = [s \in Slot |-> None]
    /\ queue = [s \in Slot |-> <<>>]
    /\ cache = [s \in Slot |-> <<>>]
    /\ shouldExit = [s \in Slot |-> FALSE]
    /\ accepted = [s \in Slot |-> <<>>]
    /\ handled = [s \in Slot |-> <<>>]
    /\ pc = [t \in Thread |-> IF t \in Client THEN "idle" ELSE "none"]
    /\ ret = [t \in Thread |-> None]
    /\ evt = [t \in Thread |-> None]
    /\ opt = [t \in Thread |-> None]
    /\ idx = [t \in Thread |-> 0]
    /\ res = [t \in Thread |-> None]
    /\ target = [c \in Client |-> None]
    /\ faults = 0

Init == Idle /\ unposted = Msg

-----------------------------------------------------------------------------
(* The recursive context mutex.                                              *)

CanLock(t) == ctxOwner \in {None, t}

LockCtx(t) ==
    /\ ctxOwner' = t
    /\ ctxDepth' = ctxDepth + 1

UnlockCtx ==
    /\ ctxDepth' = ctxDepth - 1
    /\ ctxOwner' = IF ctxDepth = 1 THEN None ELSE ctxOwner

(* The slots.                                                                *)

IsFree(s) == cbProc[s] = None

\* Where the scan for a free slot stops.
IsFirstFree(s) == IsFree(s) /\ \A r \in Slot : r < s => ~IsFree(r)

\* Mutant: any subscription gets the event.
IsMatch_AnyID(s, m) == cbProc[s] # None /\ evtIDs[s] # None

\* Does the scan of postEVT deliver m to slot s?
IsMatch(s, m) ==
    /\ cbProc[s] # None
    /\ evtIDs[s] # None
    /\ EvtOf[m] \in evtIDs[s]

\* ASyncThreadID # 0: set by pthread_create, reset after pthread_join.
HasASyncThread(s) == pc[s] # "none"

IsEmpty(s) == queue[s] = <<>>

\* Mutant: one event more than the array holds.
IsFull_OffByOne(s) == Len(queue[s]) > EVTQUEUE_MAX

IsFull(s) == Len(queue[s]) >= EVTQUEUE_MAX

\* pthread_cond_signal(&pEvtSuber->Cond) of slot s, after the caller t moved to l.
Goto(t, l) == pc' = [pc EXCEPT ![t] = l]
SignalAndGoto(s, t, l) ==
    pc' = [pc EXCEPT ![t] = l, ![s] = IF @ = "wait" THEN "top" ELSE @]

\* TOS_abortNotTested(): abort() ends every thread of the process.
Abort == pc' = [t \in Thread |-> "dead"]
HasAborted == \A t \in Thread : pc[t] = "dead"

-----------------------------------------------------------------------------
(* __IOC_ConlesMode_subEVT.  The lock is a step of its own, because a        *)
(* non-blocking post can find the context mutex taken by a subscriber; the   *)
(* rest of the function runs under the mutex and only touches a free slot.   *)

SubLock(c) ==
    /\ pc[c] = "idle"
    /\ CanLock(c)
    /\ ctxDepth < MaxDepth
    /\ LockCtx(c)
    /\ Goto(c, "sub")
    /\ UNCHANGED <<inited, curSuberNum, tableVars, slotVars, frameVars, envVars>>

\* CurSuberNum >= MaxSuberNum: NOT_ENOUGH_RESOURCE.
SubReject(c) ==
    /\ pc[c] = "sub"
    /\ curSuberNum >= MaxSuberNum
    /\ UnlockCtx
    /\ Goto(c, "idle")
    /\ UNCHANGED <<inited, curSuberNum, tableVars, slotVars, frameVars, envVars>>

\* The count says there is room and the scan finds none: the code locks the
\* context mutex once more where it should unlock it, and returns.
SubNoFreeSlot(c) ==
    /\ pc[c] = "sub"
    /\ curSuberNum < MaxSuberNum
    /\ \A s \in Slot : ~IsFree(s)
    /\ LockCtx(c)
    /\ Goto(c, "idle")
    /\ UNCHANGED <<inited, curSuberNum, tableVars, slotVars, frameVars, envVars>>

\* memset of the slot, then Args = *pEvtSubArgs with ids for pEvtIDs.
FillSlot(s, key, ids) ==
    /\ cbProc' = [cbProc EXCEPT ![s] = key]
    /\ evtIDs' = [evtIDs EXCEPT ![s] = ids]
    /\ queue' = [queue EXCEPT ![s] = <<>>]
    /\ cache' = [cache EXCEPT ![s] = <<>>]
    /\ shouldExit' = [shouldExit EXCEPT ![s] = FALSE]
    /\ accepted' = [accepted EXCEPT ![s] = <<>>]
    /\ handled' = [handled EXCEPT ![s] = <<>>]

\* Mutant: the new subscriber is not counted.
SubInstall_NotCounted(c) ==
    /\ pc[c] = "sub"
    /\ curSuberNum < MaxSuberNum
    /\ \E s \in Slot, a \in SubArgs :
          /\ IsFirstFree(s)
          /\ FillSlot(s, a.key, a.ids)
    /\ inited' = TRUE
    /\ UnlockCtx
    /\ Goto(c, "idle")
    /\ UNCHANGED <<curSuberNum, frameVars, envVars>>

SubInstall(c) ==
    /\ pc[c] = "sub"
    /\ curSuberNum < MaxSuberNum
    /\ \E s \in Slot, a \in SubArgs :
          /\ IsFirstFree(s)
          /\ FillSlot(s, a.key, a.ids)
    /\ inited' = TRUE
    /\ curSuberNum' = (curSuberNum + 1) % ULONG_MOD
    /\ UnlockCtx
    /\ Goto(c, "idle")
    /\ UNCHANGED <<frameVars, envVars>>

\* malloc(SavdEvtIDSiz) returns NULL: the slot keeps its CbProcEvt_F and is not
\* counted.
SubMallocFails(c) ==
    /\ pc[c] = "sub"
    /\ curSuberNum < MaxSuberNum
    /\ faults < MaxFaults
    /\ \E s \in Slot, a \in SubArgs :
          /\ IsFirstFree(s)
          /\ FillSlot(s, a.key, None)
    /\ inited' = TRUE
    /\ faults' = faults + 1
    /\ UnlockCtx
    /\ Goto(c, "idle")
    /\ UNCHANGED <<curSuberNum, frameVars, target, unposted>>

\* calloc of pEvtSubers fails in the first call: TOS_abortNotTested().
SubCallocFails(c) ==
    /\ pc[c] = "sub"
    /\ ~inited
    /\ faults < MaxFaults
    /\ faults' = faults + 1
    /\ Abort
    /\ UNCHANGED <<ctxVars, tableVars, slotVars, frameVars, target, unposted>>

subEVT(c) ==
    \/ SubLock(c) \/ SubReject(c) \/ SubNoFreeSlot(c)
    \/ SubInstall(c) \/ SubMallocFails(c) \/ SubCallocFails(c)


-----------------------------------------------------------------------------
(* __IOC_ConlesMode_unsubEVT, which holds the context mutex from its first   *)
(* to its last step, pthread_join included.                                  *)

UnsubLock(c, k) ==
    /\ pc[c] = "idle"
    /\ CanLock(c)
    /\ ctxDepth < MaxDepth
    /\ LockCtx(c)
    /\ target' = [target EXCEPT ![c] = k]
    /\ idx' = [idx EXCEPT ![c] = 1]
    /\ Goto(c, "unsub")
    /\ UNCHANGED <<inited, curSuberNum, tableVars, slotVars, ret, evt, opt, res,
                   unposted, faults>>

UnsubReturn(c) ==
    /\ UnlockCtx
    /\ target' = [target EXCEPT ![c] = None]
    /\ idx' = [idx EXCEPT ![c] = 0]

\* pEvtSubers == NULL: NOT_FOUND.
UnsubNoTable(c) ==
    /\ pc[c] = "unsub"
    /\ ~inited
    /\ UnsubReturn(c)
    /\ Goto(c, "idle")
    /\ UNCHANGED <<inited, curSuberNum, tableVars, slotVars, ret, evt, opt, res,
                   unposted, faults>>

IsTarget(c, s) == target[c] = ALL \/ cbProc[s] = target[c]

UnsubSkip(c) ==
    /\ pc[c] = "unsub"
    /\ inited
    /\ idx[c] \in Slot
    /\ ~IsTarget(c, idx[c])
    /\ idx' = [idx EXCEPT ![c] = @ + 1]
    /\ UNCHANGED <<ctxVars, tableVars, slotVars, pc, ret, evt, opt, res, envVars>>

\* stopASyncThread sets ShouldExitASyncThread under the slot mutex ...
UnsubStop(c) ==
    /\ pc[c] = "unsub"
    /\ inited
    /\ idx[c] \in Slot
    /\ IsTarget(c, idx[c])
    /\ HasASyncThread(idx[c])
    /\ shouldExit' = [shouldExit EXCEPT ![idx[c]] = TRUE]
    /\ Goto(c, "unsubSignal")
    /\ UNCHANGED <<ctxVars, tableVars, queue, cache, accepted, handled, frameVars,
                   envVars>>

\* Mutant: stopASyncThread does not signal.
UnsubSignal_Forgotten(c) ==
    /\ pc[c] = "unsubSignal"
    /\ Goto(c, "unsubJoin")
    /\ UNCHANGED <<ctxVars, tableVars, slotVars, frameVars, envVars>>

\* ... signals after the unlock ...
UnsubSignal(c) ==
    /\ pc[c] = "unsubSignal"
    /\ SignalAndGoto(idx[c], c, "unsubJoin")
    /\ UNCHANGED <<ctxVars, tableVars, slotVars, frameVars, envVars>>

\* The slot is given back.  unsubEVT(NULL) clears it only if pEvtIDs # NULL and
\* goes on; otherwise the slot is cleared, counted down, and the call returns.
ClearSlot(c, s) ==
    IF target[c] = ALL
    THEN /\ IF evtIDs[s] # None
            THEN /\ cbProc' = [cbProc EXCEPT ![s] = None]
                 /\ evtIDs' = [evtIDs EXCEPT ![s] = None]
            ELSE UNCHANGED tableVars
         /\ idx' = [idx EXCEPT ![c] = s + 1]
         /\ UNCHANGED <<ctxOwner, ctxDepth, curSuberNum, target>>
    ELSE /\ cbProc' = [cbProc EXCEPT ![s] = None]
         /\ evtIDs' = [evtIDs EXCEPT ![s] = None]
         /\ curSuberNum' = (curSuberNum - 1) % ULONG_MOD
         /\ UnsubReturn(c)

AfterClear(c) == IF target[c] = ALL THEN "unsub" ELSE "idle"

\* No ASyncThreadID: nothing to stop.
UnsubClear(c) ==
    /\ pc[c] = "unsub"
    /\ inited
    /\ idx[c] \in Slot
    /\ IsTarget(c, idx[c])
    /\ ~HasASyncThread(idx[c])
    /\ ClearSlot(c, idx[c])
    /\ Goto(c, AfterClear(c))
    /\ UNCHANGED <<inited, slotVars, ret, evt, opt, res, unposted, faults>>

\* ... and joins: pthread_join returns once the thread has left its loop, then
\* ASyncThreadID = 0 and the slot is given back.
\* Mutant: the slot is given back without waiting for its thread.
CanJoin_NoWait(s) == HasASyncThread(s)

CanJoin(s) == pc[s] = "exited"

UnsubJoin(c) ==
    /\ pc[c] = "unsubJoin"
    /\ CanJoin(idx[c])
    /\ ClearSlot(c, idx[c])
    /\ pc' = [pc EXCEPT ![c] = AfterClear(c), ![idx[c]] = "none"]
    /\ UNCHANGED <<inited, slotVars, ret, evt, opt, res, unposted, faults>>

\* Mutant: unsubEVT(NULL) does not reset the count.
UnsubDone_NotReset(c) ==
    /\ pc[c] = "unsub"
    /\ inited
    /\ idx[c] > MaxSuberNum
    /\ UnsubReturn(c)
    /\ Goto(c, "idle")
    /\ UNCHANGED <<inited, curSuberNum, tableVars, slotVars, ret, evt, opt, res,
                   unposted, faults>>

\* The end of the scan: SUCCESS, whether or not a slot matched.
UnsubDone(c) ==
    /\ pc[c] = "unsub"
    /\ inited
    /\ idx[c] > MaxSuberNum
    /\ curSuberNum' = IF target[c] = ALL THEN 0 ELSE curSuberNum
    /\ UnsubReturn(c)
    /\ Goto(c, "idle")
    /\ UNCHANGED <<inited, tableVars, slotVars, ret, evt, opt, res, unposted, faults>>

unsubEVT(c) ==
    \/ \E k \in Key \cup {ALL} : UnsubLock(c, k)
    \/ UnsubNoTable(c) \/ UnsubSkip(c) \/ UnsubStop(c) \/ UnsubSignal(c)
    \/ UnsubClear(c) \/ UnsubJoin(c) \/ UnsubDone(c)

-----------------------------------------------------------------------------
(* __IOC_ConlesMode_postEVT.                                                 *)

\* A client makes its posts one after the other, in the order of their numbers; a
\* callback makes those of one event in that order.
IsNextPost(t, m) ==
    /\ m \in unposted
    /\ PostedBy[m] = t
    /\ \A n \in unposted :
          (PostedBy[n] = t /\ (t \in Client \/ EvtOf[n] = EvtOf[m])) => m <= n

\* The call: from an idle client, or from the callback an async thread runs.
PostCall(t, m, o) ==
    /\ pc[t] = IF t \in Client THEN "idle" ELSE "cb"
    /\ IsNextPost(t, m)
    /\ unposted' = unposted \ {m}
    /\ evt' = [evt EXCEPT ![t] = m]
    /\ opt' = [opt EXCEPT ![t] = o]
    /\ ret' = [ret EXCEPT ![t] = pc[t]]
    /\ Goto(t, "lock")
    /\ UNCHANGED <<ctxVars, tableVars, slotVars, idx, res, target, faults>>

\* The call returns with result r.  A call made from the cached loop of the async
\* thread removes the cached event on SUCCESS; on any other result it aborts if
\* the event may be dropped and is tried again if not.
PostReturn(t, r) ==
    /\ evt' = [evt EXCEPT ![t] = None]
    /\ opt' = [opt EXCEPT ![t] = None]
    /\ ret' = [ret EXCEPT ![t] = None]
    /\ idx' = [idx EXCEPT ![t] = 0]
    /\ res' = [res EXCEPT ![t] = None]
    /\ IF ret[t] = "drain" /\ r # "SUCCESS" /\ evt[t] \in MayDrop
       THEN Abort ELSE Goto(t, ret[t])

\* Mutant: a busy context mutex is taken for a free one.
PostLock_IgnoresBusy(t) ==
    /\ pc[t] = "lock"
    /\ inited
    /\ LockCtx(t)
    /\ idx' = [idx EXCEPT ![t] = 1]
    /\ Goto(t, "post")
    /\ UNCHANGED <<inited, curSuberNum, tableVars, slotVars, ret, evt, opt, res, envVars>>

\* The context mutex was free, or the caller already holds it.
PostLock(t) ==
    /\ pc[t] = "lock"
    /\ CanLock(t)
    /\ inited
    /\ LockCtx(t)
    /\ idx' = [idx EXCEPT ![t] = 1]
    /\ Goto(t, "post")
    /\ UNCHANGED <<inited, curSuberNum, tableVars, slotVars, ret, evt, opt, res, envVars>>

\* pEvtSubers == NULL: NOT_FOUND, after an unlock.
PostNoTable(t) ==
    /\ pc[t] = "lock"
    /\ CanLock(t)
    /\ ~inited
    /\ PostReturn(t, "NOT_FOUND")
    /\ UNCHANGED <<ctxVars, tableVars, slotVars, target, unposted, faults>>

\* Mutant: TimeoutUS = 0 blocks on the context mutex like no timeout at all.
PostLockTimeout_NonBlockBlocks(t) ==
    /\ pc[t] = "lock"
    /\ ~CanLock(t)
    /\ opt[t].wait = "timeout"
    /\ PostReturn(t, "TIMEOUT")
    /\ UNCHANGED <<ctxVars, tableVars, slotVars, target, unposted, faults>>

\* trylock fails, or timedlock gives up: TIMEOUT.
PostLockTimeout(t) ==
    /\ pc[t] = "lock"
    /\ ~CanLock(t)
    /\ opt[t].wait # "block"
    /\ PostReturn(t, "TIMEOUT")
    /\ UNCHANGED <<ctxVars, tableVars, slotVars, target, unposted, faults>>

\* An async thread never blocks on the context mutex: trylock fails, and
\* __IOC_ConlesMode_postEVT_ASyncThreadCached keeps the event for later.
postEVT_ASyncThreadCached(t) ==
    /\ pc[t] = "lock"
    /\ ~CanLock(t)
    /\ opt[t].wait = "block"
    /\ t \in Slot
    /\ IF Len(cache[t]) < EVTCACHED_MAX
       THEN /\ cache' = [cache EXCEPT ![t] = Append(@, evt[t])]
            /\ PostReturn(t, "SUCCESS")
       ELSE /\ UNCHANGED cache
            /\ PostReturn(t, "NOT_ENOUGH_RESOURCE")
    /\ UNCHANGED <<ctxVars, tableVars, queue, shouldExit, accepted, handled, target,
                   unposted, faults>>

(* The scan over the slots, under the context mutex.                         *)

NextSlot(t) == idx' = [idx EXCEPT ![t] = @ + 1]

\* CbProcEvt_F or pEvtIDs is NULL, or no ID is the posted one.
PostSkip(t) ==
    /\ pc[t] = "post"
    /\ idx[t] \in Slot
    /\ ~IsMatch(idx[t], evt[t])
    /\ NextSlot(t)
    /\ UNCHANGED <<ctxVars, tableVars, slotVars, pc, ret, evt, opt, res, envVars>>

AtMatch(t) ==
    /\ pc[t] = "post"
    /\ idx[t] \in Slot
    /\ IsMatch(idx[t], evt[t])

\* SYNC: the callback runs here, in the poster's thread, under the context mutex.
PostSync(t) ==
    /\ AtMatch(t)
    /\ opt[t].sync
    /\ Goto(t, "syncCb")
    /\ UNCHANGED <<ctxVars, tableVars, slotVars, frameVars, envVars>>

\* The callback returns; its result is taken to be SUCCESS.
PostSyncReturn(t) ==
    /\ pc[t] = "syncCb"
    /\ res' = [res EXCEPT ![t] = "SUCCESS"]
    /\ NextSlot(t)
    /\ Goto(t, "post")
    /\ UNCHANGED <<ctxVars, tableVars, slotVars, ret, evt, opt, envVars>>

\* ASYNC with room in the queue.  The first post to a slot starts its thread.
PostEnqueue(t) ==
    /\ AtMatch(t)
    /\ ~opt[t].sync
    /\ ~IsFull(idx[t])
    /\ Len(accepted[idx[t]]) < MaxAccepted
    /\ queue' = [queue EXCEPT ![idx[t]] = Append(@, evt[t])]
    /\ accepted' = [accepted EXCEPT ![idx[t]] = Append(@, evt[t])]
    /\ res' = [res EXCEPT ![t] = "SUCCESS"]
    /\ pc' = [pc EXCEPT ![t] = "signal",
                        ![idx[t]] = IF @ = "none" THEN "top" ELSE @]
    /\ UNCHANGED <<ctxVars, tableVars, cache, shouldExit, handled, ret, evt, opt, idx,
                   envVars>>

\* Mutants: no signal after the enqueue; the scan does not leave the slot.
PostSignal_Forgotten(t) ==
    /\ pc[t] = "signal"
    /\ Goto(t, "post")
    /\ NextSlot(t)
    /\ UNCHANGED <<ctxVars, tableVars, slotVars, ret, evt, opt, res, envVars>>

PostSignal_StaysAtSlot(t) ==
    /\ pc[t] = "signal"
    /\ SignalAndGoto(idx[t], t, "post")
    /\ UNCHANGED <<ctxVars, tableVars, slotVars, frameVars, envVars>>

\* pthread_cond_signal after the slot mutex is released; on to the next slot.
PostSignal(t) ==
    /\ pc[t] = "signal"
    /\ SignalAndGoto(idx[t], t, "post")
    /\ NextSlot(t)
    /\ UNCHANGED <<ctxVars, tableVars, slotVars, ret, evt, opt, res, envVars>>

\* pthread_create fails: TOS_abortNotTested().
PostCreateFails(t) ==
    /\ AtMatch(t)
    /\ ~opt[t].sync
    /\ ~HasASyncThread(idx[t])
    /\ faults < MaxFaults
    /\ faults' = faults + 1
    /\ Abort
    /\ UNCHANGED <<ctxVars, tableVars, slotVars, frameVars, target, unposted>>

AtFullQueue(t) ==
    /\ AtMatch(t)
    /\ ~opt[t].sync
    /\ IsFull(idx[t])

\* Mutant: a blocking post gives up a full queue too.
PostFullNonBlock_AnyWait(t) ==
    /\ AtFullQueue(t)
    /\ res' = [res EXCEPT ![t] = "TIMEOUT"]
    /\ NextSlot(t)
    /\ UNCHANGED <<ctxVars, tableVars, slotVars, pc, ret, evt, opt, envVars>>

\* NonBlock and no room: TIMEOUT, and on to the next slot.
PostFullNonBlock(t) ==
    /\ AtFullQueue(t)
    /\ opt[t].wait = "nonblock"
    /\ res' = [res EXCEPT ![t] = "TIMEOUT"]
    /\ NextSlot(t)
    /\ UNCHANGED <<ctxVars, tableVars, slotVars, pc, ret, evt, opt, envVars>>

\* Timeout > 0 and no room: TOS_abortNotTested().
PostFullTimeout(t) ==
    /\ AtFullQueue(t)
    /\ opt[t].wait = "timeout"
    /\ Abort
    /\ UNCHANGED <<ctxVars, tableVars, slotVars, frameVars, target, unposted, faults>>

\* Blocking and no room: unlock the slot, signal, usleep, look again.
PostFullRetry(t) ==
    /\ AtFullQueue(t)
    /\ opt[t].wait = "block"
    /\ SignalAndGoto(idx[t], t, "post")
    /\ UNCHANGED <<ctxVars, tableVars, slotVars, frameVars, envVars>>

\* The end of the scan: unlock, and NO_EVT_SUBER if nothing matched.
PostDone(t) ==
    /\ pc[t] = "post"
    /\ idx[t] > MaxSuberNum
    /\ UnlockCtx
    /\ PostReturn(t, IF res[t] = None THEN "NO_EVT_SUBER" ELSE res[t])
    /\ cache' = IF ret[t] = "drain" /\ res[t] = "SUCCESS"
                THEN [cache EXCEPT ![t] = Tail(@)] ELSE cache
    /\ UNCHANGED <<inited, curSuberNum, tableVars, queue, shouldExit, accepted, handled,
                   target, unposted, faults>>

PostScan(t) ==
    \/ PostSkip(t) \/ PostSync(t) \/ PostSyncReturn(t) \/ PostEnqueue(t)
    \/ PostSignal(t) \/ PostCreateFails(t) \/ PostFullNonBlock(t)
    \/ PostFullTimeout(t) \/ PostFullRetry(t) \/ PostDone(t)

postEVT(t) ==
    \/ \E m \in Msg, o \in Options : PostCall(t, m, o)
    \/ PostLock(t) \/ PostNoTable(t) \/ PostLockTimeout(t)
    \/ postEVT_ASyncThreadCached(t) \/ PostScan(t)

-----------------------------------------------------------------------------
(* __IOC_ConlesMode_ASyncEventThread of slot s.                              *)

\* Mutant: leaves the loop as soon as it is told to.
AsyncExit_NoDrain(s) ==
    /\ pc[s] = "top"
    /\ shouldExit[s]
    /\ Goto(s, "exited")
    /\ UNCHANGED <<ctxVars, tableVars, slotVars, frameVars, envVars>>

\* Leaves the loop when it is told to and the queue is empty.
AsyncExit(s) ==
    /\ pc[s] = "top"
    /\ shouldExit[s]
    /\ IsEmpty(s)
    /\ Goto(s, "exited")
    /\ UNCHANGED <<ctxVars, tableVars, slotVars, frameVars, envVars>>

\* pthread_cond_wait on an empty queue.
AsyncWait(s) ==
    /\ pc[s] = "top"
    /\ ~shouldExit[s]
    /\ IsEmpty(s)
    /\ Goto(s, "wait")
    /\ UNCHANGED <<ctxVars, tableVars, slotVars, frameVars, envVars>>

\* pthread_cond_wait may return without a signal.
AsyncSpuriousWakeup(s) ==
    /\ pc[s] = "wait"
    /\ Goto(s, "top")
    /\ UNCHANGED <<ctxVars, tableVars, slotVars, frameVars, envVars>>

\* Copies the oldest event out of the queue and calls the callback with it.
AsyncTake(s) ==
    /\ pc[s] = "top"
    /\ ~IsEmpty(s)
    /\ queue' = [queue EXCEPT ![s] = Tail(@)]
    /\ handled' = [handled EXCEPT ![s] = Append(@, Head(queue[s]))]
    /\ Goto(s, "cb")
    /\ UNCHANGED <<ctxVars, tableVars, cache, shouldExit, accepted, frameVars, envVars>>

\* The callback returns.
AsyncCbReturn(s) ==
    /\ pc[s] = "cb"
    /\ Goto(s, "drain")
    /\ UNCHANGED <<ctxVars, tableVars, slotVars, frameVars, envVars>>

\* The cached loop: while the queue is empty, post the oldest cached event
\* without blocking.
AsyncDrain(s) ==
    /\ pc[s] = "drain"
    /\ IsEmpty(s)
    /\ cache[s] # <<>>
    /\ evt' = [evt EXCEPT ![s] = Head(cache[s])]
    /\ opt' = [opt EXCEPT ![s] = OptNonBlock]
    /\ ret' = [ret EXCEPT ![s] = "drain"]
    /\ Goto(s, "lock")
    /\ UNCHANGED <<ctxVars, tableVars, slotVars, idx, res, envVars>>

\* Mutant: one round of the cached loop instead of a loop.
AsyncDrained_OneRound(s) ==
    /\ pc[s] = "drain"
    /\ Goto(s, "top")
    /\ UNCHANGED <<ctxVars, tableVars, slotVars, frameVars, envVars>>

AsyncDrained(s) ==
    /\ pc[s] = "drain"
    /\ ~IsEmpty(s) \/ cache[s] = <<>>
    /\ Goto(s, "top")
    /\ UNCHANGED <<ctxVars, tableVars, slotVars, frameVars, envVars>>

ASyncEventThread(s) ==
    \/ AsyncExit(s) \/ AsyncWait(s) \/ AsyncSpuriousWakeup(s) \/ AsyncTake(s)
    \/ AsyncCbReturn(s) \/ AsyncDrain(s) \/ AsyncDrained(s)

-----------------------------------------------------------------------------

Next ==
    \/ \E c \in Client : subEVT(c) \/ unsubEVT(c)
    \/ \E t \in Thread : postEVT(t)
    \/ \E s \in Slot : ASyncEventThread(s)

Spec == Init /\ [][Next]_vars

(* Fairness.  A thread inside a call keeps running, and so does an async     *)
(* thread; nobody has to start a call, and no spurious wakeup is promised.   *)
(* Blocking on the context mutex needs no assumption on who gets it next.    *)
CallbackReturns(t) == PostSyncReturn(t) \/ (t \in Slot /\ AsyncCbReturn(t))

ThreadRuns(t) ==
    \/ /\ t \in Client
       /\ \/ SubReject(t) \/ SubNoFreeSlot(t) \/ SubInstall(t)
          \/ UnsubNoTable(t) \/ UnsubSkip(t) \/ UnsubStop(t) \/ UnsubSignal(t)
          \/ UnsubClear(t) \/ UnsubJoin(t) \/ UnsubDone(t)
    \/ PostLock(t) \/ PostNoTable(t) \/ PostLockTimeout(t)
    \/ postEVT_ASyncThreadCached(t)
    \/ PostSkip(t) \/ PostSync(t) \/ PostEnqueue(t) \/ PostSignal(t)
    \/ PostFullNonBlock(t) \/ PostFullTimeout(t) \/ PostFullRetry(t) \/ PostDone(t)
    \/ /\ t \in Slot
       /\ \/ AsyncExit(t) \/ AsyncWait(t) \/ AsyncTake(t) \/ AsyncDrain(t)
          \/ AsyncDrained(t)

\* Nothing is assumed of callbacks ...
HungSpec == Spec /\ \A t \in Thread : WF_vars(ThreadRuns(t))
\* ... but where a property needs it: each of them returns.
CallbacksReturn == \A t \in Thread : WF_vars(CallbackReturns(t))
FairSpec == HungSpec /\ CallbacksReturn

-----------------------------------------------------------------------------
(* Properties.                                                               *)

ClientPc == {"idle", "sub", "unsub", "unsubSignal", "unsubJoin", "lock", "post",
             "signal", "syncCb", "dead"}
AsyncPc  == {"none", "top", "wait", "cb", "drain", "exited", "lock", "post", "signal",
             "syncCb", "dead"}
Results  == {"SUCCESS", "TIMEOUT"}

(* Every variable has its type.  The counter stays within the width of       *)
(* ULONG_T and both queues within their arrays.                              *)
TypeOK ==
    /\ inited \in BOOLEAN
    /\ ctxOwner \in Thread \cup {None}
    /\ ctxDepth \in Nat
    /\ curSuberNum \in 0 .. ULONG_MOD - 1
    /\ cbProc \in [Slot -> Key \cup {None}]
    /\ evtIDs \in [Slot -> {None} \cup SUBSET EvtID]
    /\ queue \in [Slot -> Seq(Msg)]
    /\ \A s \in Slot : Len(queue[s]) <= EVTQUEUE_MAX
    /\ cache \in [Slot -> Seq(Msg)]
    /\ \A s \in Slot : Len(cache[s]) <= EVTCACHED_MAX
    /\ shouldExit \in [Slot -> BOOLEAN]
    /\ accepted \in [Slot -> Seq(Msg)]
    /\ handled \in [Slot -> Seq(Msg)]
    /\ pc \in [Thread -> ClientPc \cup AsyncPc]
    /\ \A c \in Client : pc[c] \in ClientPc
    /\ \A s \in Slot : pc[s] \in AsyncPc
    /\ ret \in [Thread -> {"idle", "cb", "drain", None}]
    /\ evt \in [Thread -> Msg \cup {None}]
    /\ opt \in [Thread -> {None} \cup AnyOption]
    /\ idx \in [Thread -> 0 .. MaxSuberNum + 1]
    /\ res \in [Thread -> Results \cup {None}]
    /\ target \in [Client -> Key \cup {ALL, None}]
    /\ unposted \in SUBSET Msg
    /\ faults \in 0 .. MaxFaults

InScan == {"post", "signal", "syncCb"}
InCall == {"lock"} \cup InScan
InUnsub == {"unsub", "unsubSignal", "unsubJoin"}
InCtx == {"sub"} \cup InUnsub \cup InScan

(* Whoever is between the lock and the unlock of the context mutex owns it,  *)
(* so no two threads are inside at once, also when a subEVT has leaked a     *)
(* lock: subEVT, unsubEVT and the scan of postEVT exclude each other.        *)
CtxMutexHeld ==
    /\ \A t \in Thread : pc[t] \in InCtx => ctxOwner = t
    /\ ctxOwner = None <=> ctxDepth = 0

(* While no malloc has failed, the mutex is owned only by a thread that is   *)
(* inside one of the calls, which holds it once: nobody returns with it, and *)
(* subEVT never locks it twice.  It does that when a slot is promised by the *)
(* count and not found in the table, so count and table have to agree.       *)
CtxMutexNotLeaked ==
    faults = 0 /\ ~HasAborted /\ ctxOwner # None =>
        pc[ctxOwner] \in InCtx /\ ctxDepth = 1

(* The count is the number of occupied slots whenever the mutex is free,     *)
(* although unsubEVT(NULL) gives the slots back one by one and corrects the  *)
(* count at the end: subEVT refuses for want of a slot only if all are taken.*)
Occupied == {s \in Slot : ~IsFree(s)}
SubersCounted ==
    faults = 0 /\ ~HasAborted /\ ctxOwner = None =>
        curSuberNum = Cardinality(Occupied)

(* Both signals of a slot come after its mutex is released, and no wakeup is *)
(* lost: if its thread waits with an event queued, a post is about to signal *)
(* it; if it waits after the stop flag was set, unsubEVT is; and by the time *)
(* unsubEVT joins it, it does not wait and never will again.                 *)
WakeupNotLost ==
    /\ \A s \in Slot : pc[s] = "wait" /\ ~IsEmpty(s) =>
          \E t \in Thread : pc[t] = "signal" /\ idx[t] = s
    /\ \A s \in Slot : pc[s] = "wait" /\ shouldExit[s] =>
          \E c \in Client : pc[c] = "unsubSignal" /\ idx[c] = s
    /\ \A c \in Client : pc[c] \in {"unsubSignal", "unsubJoin"} =>
          /\ shouldExit[idx[c]] /\ HasASyncThread(idx[c])
          /\ pc[c] = "unsubJoin" => pc[idx[c]] # "wait"

(* A slot without subscription has no thread, no queued and no cached event: *)
(* after unsubEVT has returned, the callback of the subscription is neither  *)
(* running nor will it be called (UT_ConlesEVT_State.cxx Case01), and the    *)
(* memset of subEVT never hits a slot a thread still works on.               *)
FreeSlotIsQuiet ==
    \A s \in Slot : IsFree(s) =>
        /\ pc[s] \in {"none", "dead"}
        /\ queue[s] = <<>>
        /\ cache[s] = <<>>

(* unsubEVT gives a slot back only when each event postEVT has put into its  *)
(* queue has been handed to the callback, oldest first, none twice           *)
(* ($ProcKeepAliveEvtCnt == $PostEvtRetSuccessCnt of Case02).                *)
UnsubDrainsQueue ==
    [][\A s \in Slot : ~IsFree(s) /\ IsFree(s)' => handled[s] = accepted[s]]_vars

(* A client's events reach each subscription in the order the client posted  *)
(* them, and each at most once, however the posts of others interleave.      *)
ClientOrderKept ==
    \A s \in Slot : \A i, j \in DOMAIN accepted[s] :
        (/\ i < j
         /\ PostedBy[accepted[s][i]] = PostedBy[accepted[s][j]]
         /\ PostedBy[accepted[s][i]] \in Client)
        => accepted[s][i] < accepted[s][j]

(* A blocking ASYNC post that has scanned a slot has queued its event there  *)
(* if the slot subscribes to it: when it returns SUCCESS, every subscription *)
(* has the event, no matter how full the queues were.                        *)
BlockingPostReachesAll ==
    \A t \in Thread :
        (pc[t] \in InScan /\ opt[t].wait = "block" /\ ~opt[t].sync) =>
            \A s \in Slot : s < idx[t] /\ IsMatch(s, evt[t])
                => \E i \in DOMAIN accepted[s] : accepted[s][i] = evt[t]

(* postEVT says NO_EVT_SUBER only if no slot subscribes to the event: the    *)
(* subscriptions it has scanned cannot change before it returns.             *)
NoSuberIsTrue ==
    \A t \in Thread : (pc[t] \in InScan /\ res[t] = None) =>
        \A s \in Slot : s < idx[t] => ~IsMatch(s, evt[t])

(* While callbacks return, and do not post themselves, no thread keeps the   *)
(* context mutex for ever: a blocking post gets room in every queue, and     *)
(* unsubEVT's join ends.                                                     *)
CtxMutexReleased ==
    CallbacksReturn => \A t \in Thread : (ctxOwner = t) ~> (ctxOwner # t)

(* No wakeup is lost: an event in a queue is taken by the slot's thread,     *)
(* although the signal comes after the slot mutex is released.               *)
QueuedIsTaken ==
    CallbacksReturn =>
        \A s \in Slot, m \in Msg :
            (\E i \in DOMAIN queue[s] : queue[s][i] = m)
                ~> (\A i \in DOMAIN queue[s] : queue[s][i] # m)

(* A non-blocking ASYNC post returns even when callbacks hang for ever and   *)
(* their queues are full, or another thread sits on the context mutex.       *)
NonBlockReturns ==
    \A t \in Thread :
        (pc[t] = "lock" /\ opt[t].wait = "nonblock" /\ ~opt[t].sync) ~> (evt[t] = None)

(* What the users of a link rely on, without its locks and threads: a slot's *)
(* subscription is open while its CbProcEvt_F is set.                        *)
SubedIDs(s) == IF IsFree(s) \/ evtIDs[s] = None THEN {} ELSE evtIDs[s]
InAsyncCb(s) == pc[s] = "cb" \/ (pc[s] \in InCall /\ ret[s] = "cb")
InCallback(s) ==
    {t \in Thread : (t = s /\ InAsyncCb(t)) \/ (pc[t] = "syncCb" /\ idx[t] = s)}

Link == INSTANCE EvtLink WITH
    Room  <- EVTQUEUE_MAX,
    alive <- ~HasAborted,
    open  <- {s \in Slot : ~IsFree(s)},
    ids   <- [s \in Slot |-> SubedIDs(s)],
    box   <- queue,
    busy  <- [s \in Slot |-> InCallback(s)]

(* An event reaches only subscriptions that want it and have room, a slot's  *)
(* thread handles the oldest first and one at a time, and a subscription     *)
(* closes only when its box is empty and no thread is inside its callback.   *)
ImplementsEvtLink == Link!Spec

=============================================================================
