------------------------------- MODULE ConlesEventInv -------------------------------
(* The inductive invariant of ConlesEvent: what the locals of a call, the slots'    *)
(* queues and the threads' positions have to do with each other for the safety      *)
(* properties of ConlesEvent to be preserved by every step. ConlesEventProofs shows *)
(* that every reachable state satisfies IInv.                                       *)
EXTENDS ConlesEvent

(* The locals of a call at each place: a thread inside postEVT has an event,        *)
(* options and the place its caller goes on at; a scan's index has not passed the   *)
(* end; one that signals or runs a callback points to a slot and, when it signals,  *)
(* has a result; an unsubEVT has a target.                                          *)
FrameInv ==
    /\ \A t \in Thread : pc[t] \in InCall =>
          /\ evt[t] \in Msg
          /\ opt[t] \in AnyOption
          /\ ret[t] \in IF t \in Client THEN {"idle"} ELSE {"cb", "drain"}
    /\ \A t \in Thread : pc[t] \in InScan => idx[t] \in 1 .. MaxSuberNum + 1
    /\ \A t \in Thread : pc[t] \in {"signal", "syncCb"} => idx[t] \in Slot
    /\ \A t \in Thread : pc[t] = "signal" => res[t] # None
    /\ \A t \in Thread : pc[t] = "syncCb" => opt[t].sync
    /\ \A c \in Client : pc[c] \in InUnsub =>
          /\ idx[c] \in 1 .. MaxSuberNum + 1
          /\ target[c] \in Key \cup {ALL}
    /\ \A c \in Client : pc[c] \in {"unsubSignal", "unsubJoin"} => idx[c] \in Slot

(* A thread that retries its first cached event still has it in its cache.          *)
DrainInv ==
    \A s \in Slot : pc[s] \in InCall /\ ret[s] = "drain" => cache[s] # <<>>

(* What a slot's thread leaves behind: a thread that does not run yet has nothing   *)
(* queued; one back at the top of its loop has emptied its cache unless something   *)
(* new is queued; one that ended was stopped and has emptied both.                  *)
LifeInv ==
    \A s \in Slot :
       /\ pc[s] = "none" => queue[s] = <<>> /\ cache[s] = <<>>
       /\ pc[s] = "top" => queue[s] # <<>> \/ cache[s] = <<>>
       /\ pc[s] = "wait" => cache[s] = <<>>
       /\ pc[s] = "exited" => shouldExit[s] /\ queue[s] = <<>> /\ cache[s] = <<>>

(* The stop flag of a slot is set only while unsubEVT is at that slot, or on a slot *)
(* that has been cleared, or one that subEVT left half filled.                      *)
StopInv ==
    \A s \in Slot : shouldExit[s] /\ pc[s] # "dead" =>
       \/ cbProc[s] = None
       \/ evtIDs[s] = None
       \/ \E c \in Client : pc[c] \in {"unsubSignal", "unsubJoin"} /\ idx[c] = s

(* What a slot accepted is what its thread has handled followed by what is queued.  *)
HistInv == \A s \in Slot : accepted[s] = handled[s] \o queue[s]

(* The events a slot's queue has accepted since it was subscribed.                  *)
delivered == [s \in Slot |-> {accepted[s][i] : i \in DOMAIN accepted[s]}]

(* A post that is about to signal a slot has queued its event there.                *)
SignalInv == \A t \in Thread : pc[t] = "signal" => evt[t] \in delivered[idx[t]]

(* BlockingPostReachesAll, in terms of delivered: a blocking post has queued its    *)
(* event at every matching slot behind it.                                          *)
ReachInv ==
    \A t \in Thread :
        (pc[t] \in InScan /\ opt[t].wait = "block" /\ ~opt[t].sync) =>
            \A s \in Slot : s < idx[t] /\ IsMatch(s, evt[t]) => evt[t] \in delivered[s]

(* While no malloc has failed: a slot has a callback exactly if it has event IDs;   *)
(* without a table no slot is occupied; unsubEVT(NULL) has freed the slots behind   *)
(* it; and unless one is under way, the count is the number of occupied slots.      *)
ClearsAll == \E c \in Client : pc[c] \in InUnsub /\ target[c] = ALL
CountInv ==
    faults = 0 /\ ~HasAborted =>
       /\ \A s \in Slot : IsFree(s) <=> evtIDs[s] = None
       /\ ~inited => Occupied = {} /\ curSuberNum = 0
       /\ \A c \in Client : pc[c] \in InUnsub /\ target[c] = ALL =>
              \A s \in Slot : s < idx[c] => IsFree(s)
       /\ ~ClearsAll => curSuberNum = Cardinality(Occupied)

(* The inductive invariant.                                                         *)
IInv ==
    /\ TypeOK /\ CtxMutexHeld /\ FrameInv /\ DrainInv /\ LifeInv /\ FreeSlotIsQuiet
    /\ StopInv /\ NoSuberIsTrue /\ HistInv /\ SignalInv /\ ReachInv
    /\ WakeupNotLost /\ CountInv /\ CtxMutexNotLeaked

(* A call posts an event of its own thread, and a slot's cache holds events of its  *)
(* callback.                                                                        *)
PosterInv ==
    /\ \A t \in Thread : pc[t] \in InCall => PostedBy[evt[t]] = t
    /\ \A s \in Slot : \A i \in DOMAIN cache[s] : PostedBy[cache[s][i]] = s

(* The post of client c has yet to come to slot s.                                  *)
IsAhead(c, s) == \/ pc[c] = "lock"
                 \/ pc[c] \in InScan /\ idx[c] < s
                 \/ pc[c] \in {"post", "syncCb"} /\ idx[c] = s

(* A client's events that are not posted yet come after those it has posted, and    *)
(* the one it is posting comes after all of its events in the slots ahead.          *)
AheadInv ==
    \A c \in Client :
       /\ \A s \in Slot : \A m \in delivered[s] : PostedBy[m] = c =>
             /\ IsAhead(c, s) => m < evt[c]
             /\ \A n \in unposted : PostedBy[n] = c => m < n
       /\ pc[c] \in InCall => \A n \in unposted : PostedBy[n] = c => evt[c] < n

(* With IInv, what ClientOrderKept needs to be inductive.                           *)
OrderInv == PosterInv /\ AheadInv /\ ClientOrderKept

(* The parts of TypeOK: the context,                                                *)
CtxType ==
    /\ inited \in BOOLEAN
    /\ ctxOwner \in Thread \cup {None}
    /\ ctxDepth \in Nat
    /\ curSuberNum \in 0 .. ULONG_MOD - 1
(* the table of subscribers,                                                        *)
TableType ==
    /\ cbProc \in [Slot -> Key \cup {None}]
    /\ evtIDs \in [Slot -> {None} \cup SUBSET EvtID]
(* the queues and what is known of their past,                                      *)
QueueType ==
    /\ queue \in [Slot -> Seq(Msg)]
    /\ \A s \in Slot : Len(queue[s]) <= EVTQUEUE_MAX
    /\ shouldExit \in [Slot -> BOOLEAN]
    /\ accepted \in [Slot -> Seq(Msg)]
    /\ handled \in [Slot -> Seq(Msg)]
(* the caches of the async threads,                                                 *)
CacheType ==
    /\ cache \in [Slot -> Seq(Msg)]
    /\ \A s \in Slot : Len(cache[s]) <= EVTCACHED_MAX
(* the positions of the threads,                                                    *)
PcType ==
    /\ pc \in [Thread -> ClientPc \cup AsyncPc]
    /\ \A c \in Client : pc[c] \in ClientPc
    /\ \A s \in Slot : pc[s] \in AsyncPc
(* the locals of the calls,                                                         *)
FrameType ==
    /\ ret \in [Thread -> {"idle", "cb", "drain", None}]
    /\ evt \in [Thread -> Msg \cup {None}]
    /\ opt \in [Thread -> {None} \cup AnyOption]
    /\ idx \in [Thread -> 0 .. MaxSuberNum + 1]
    /\ res \in [Thread -> Results \cup {None}]
(* and the environment.                                                             *)
EnvType ==
    /\ target \in [Client -> Key \cup {ALL, None}]
    /\ unposted \in SUBSET Msg
    /\ faults \in 0 .. MaxFaults
=====================================================================================
