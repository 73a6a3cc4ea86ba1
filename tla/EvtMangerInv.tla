---------------------------- MODULE EvtMangerInv -----------------------------
(* The inductive invariant of EvtManger: where the threads can be, what the  *)
(* locals of a call hold at each place, who may stop the EvtProcer, and how  *)
(* the indices of the ring relate.  EvtMangerProofs shows that every         *)
(* reachable state satisfies IInv.                                           *)
EXTENDS EvtManger

ClientPc == {"idle", "reg", "pub", "pubStore", "sub", "unsub", "disable", "post",
             "signal", "dead"}
ProcPc   == {"none", "top", "wait", "lock", "scan", "cb", "post", "signal",
             "cancelledInWait", "cancelledInCb", "dead"}

(* Clients and the EvtProcer go through their own code, and a crash ends all *)
(* of them at once.                                                          *)
PlaceInv ==
    /\ \A c \in Client : pc[c] \in ClientPc
    /\ pc[EvtProcer] \in ProcPc
    /\ pc[EvtProcer] = "dead" => \A t \in Thread : pc[t] = "dead"

(* The locals of a running call: a post has its event, the calls that came   *)
(* with an operator have its ID, and a pubEvts that is about to store has    *)
(* found a row.                                                              *)
FrameInv ==
    /\ \A t \in Thread : pc[t] \in {"post", "signal"} => evt[t] \in Msg
    /\ \A c \in Client : pc[c] \in {"pub", "pubStore", "sub", "unsub"} => oper[c] \in OperID
    /\ \A c \in Client : pc[c] = "pubStore" => pubRow[c] \in PubRow

(* A running callback belongs to a row that is still subscribed, at one of   *)
(* the EvtIDs of that row.                                                   *)
CallbackInv ==
    InCallback =>
        /\ row \in SubRow
        /\ subTable[row] # None
        /\ nth < Len(subTable[row].ids)

(* Only the client that holds the state lock waits for the EvtProcer, which  *)
(* it has cancelled and whose queue is still there.                          *)
DisableInv ==
    \A c \in Client : pc[c] = "disable" =>
        stateOwner = c /\ mgrState = "RUNNING" /\ cancel

(* The ring: the next free cell is num cells behind the oldest event, and no *)
(* more events are in it than were posted.                                   *)
RingInv ==
    /\ tail = (head + num) % Depth
    /\ num <= seqID
    /\ RingKeepsOrder

(* The event the EvtProcer works on was the oldest: its cell is the one      *)
(* before the head.                                                          *)
TakenInv ==
    HoldsEvent =>
        /\ cur = (head + (Depth - 1)) % Depth
        /\ num < seqID
        /\ TakenEventKept

IInv ==
    /\ TypeOK /\ PlaceInv /\ FrameInv /\ CallbackInv /\ DisableInv
    /\ QueueOutlivesProcer /\ RingInv /\ TakenInv /\ WakeupNotLost

(* The parts of TypeOK: the life cycle,                                      *)
MgrType ==
    /\ mgrState \in {"UNINITED", "READY", "RUNNING"}
    /\ stateOwner \in Client \cup {None}
    /\ haveTables \in BOOLEAN
    /\ procQueue \in Address \cup {None}
(* the tables,                                                               *)
PSType ==
    /\ opers \subseteq OperID
    /\ pubTable \in [PubRow -> OperID \cup {None}]
    /\ subTable \in [SubRow -> Subscription \cup {None}]
    /\ leaked \in BOOLEAN
(* the ring,                                                                 *)
RingType ==
    /\ buf \in [Index -> Entry \cup {None}]
    /\ num \in 0 .. Depth
    /\ head \in Index
    /\ tail \in Index
    /\ seqID \in Nat
(* the EvtProcer's locals,                                                   *)
ScanType ==
    /\ cancel \in BOOLEAN
    /\ cur \in Index
    /\ row \in 0 .. SubMax
    /\ nth \in Nat
(* and the locals of the calls.                                              *)
CallType ==
    /\ oper \in [Client -> OperID \cup {None}]
    /\ pubRow \in [Client -> PubRow \cup {None}]
    /\ pQueue \in [Thread -> Address \cup {None}]
    /\ evt \in [Thread -> Msg \cup {None}]
    /\ unposted \subseteq Msg
PcType == pc \in [Thread -> ClientPc \cup ProcPc]
==============================================================================
