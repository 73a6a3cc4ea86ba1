------------------------------ MODULE EvtManger ------------------------------
(*****************************************************************************)
(* The publish/subscribe event manager of PlatIF_EVT                         *)
(* (src/PlatIF_EVT/PlatIF_Event.c).                                          *)
(*                                                                           *)
(* Application threads (Client) call PLT_EVT_*; one EvtProcer thread, which  *)
(* exists while the manager is RUNNING, takes events out of the single       *)
(* EvtQueue and calls the subscribers' callbacks, which may post events.     *)
(* The locks:                                                                *)
(*   - _mEvtMangerStateRWLock is held across the pthread_join of disable     *)
(*     (stateOwner); its other sections do not block;                        *)
(*   - _mEvtPSDB_SubTableRWLock is held for reading while the EvtProcer      *)
(*     scans the table and calls callbacks; its other sections are atomic;   *)
(*   - _mRegedOperObjsRWLock and the mutex of the queue guard short sections *)
(*     that never block: each is one atomic step;                            *)
(*   - pubEvts takes no lock at all.                                         *)
(* A call that is refused without a change of state is a stuttering step.    *)
(*****************************************************************************)
EXTENDS Integers, Sequences, FiniteSets

CONSTANTS
    Client,        \* application threads
    EvtProcer,     \* the thread of the queue
    Manager,       \* the clients that call anything but postEvtSRT
    RegMax,        \* _mMayRegOperNumMax
    PubMax,        \* _mMayPubEvtNumMax
    SubMax,        \* _mMaySubEvtNumMax
    Depth,         \* _mMayEvtDescQueueNumMax
    EvtID,         \* event IDs: records [class, mates], mates the bits of a classmate ID
    SubArgs,       \* the EvtIDs arguments of subEvts: sequences of EvtIDs
    Msg,           \* the events of a behaviour; a number is one call of postEvtSRT
    EvtOf,         \* the EvtID of each
    PostedBy,      \* the thread that posts each
    Address,       \* where an EvtQueue may be allocated
    None

Thread == Client \cup {EvtProcer}
OperID == 0 .. RegMax - 1
PubRow == 0 .. PubMax     \* PubMax: the cell behind the table
SubRow == 0 .. SubMax - 1
Index  == 0 .. Depth - 1

Subscription == [suber : OperID, ids : SubArgs]
Entry == [msg : Msg, seq : Nat]

ASSUME EvtMangerAssumption ==
    /\ RegMax \in Nat \ {0}
    /\ PubMax \in Nat \ {0}
    /\ SubMax \in Nat \ {0}
    /\ Depth \in Nat \ {0}
    /\ EvtProcer \notin Client
    /\ Manager \subseteq Client
    /\ SubArgs \subseteq Seq(EvtID)
    /\ Msg \subseteq Nat
    /\ EvtOf \in [Msg -> EvtID]
    /\ PostedBy \in [Msg -> Thread]
    /\ None \notin Thread \cup Address \cup Nat
    /\ None \notin Subscription
    /\ None \notin Entry

VARIABLES
    mgrState,     \* _mEvtMangerState
    stateOwner,   \* the client inside disable, which holds the state lock
    haveTables,   \* init was given arguments, so the tables are allocated
    opers,        \* IDs with an entry in _mRegedOperObjs
    pubTable,     \* [PubRow -> EvtPuberID or None]
    subTable,     \* [SubRow -> record [suber, ids] or None]
    leaked,       \* a cancelled EvtProcer has left the sub table read-locked
    procQueue,    \* _mEvtQueueProcer[0]: the address of the queue, or None
    buf,          \* [Index -> record [msg, seq] or None]: EvtDescQueue
    num,          \* CurEvtNum
    head,         \* CurEvtHead
    tail,         \* CurEvtTail
    seqID,        \* events posted to this queue; SeqID is this number modulo 2^32
    cancel,       \* pthread_cancel of the EvtProcer is pending
    cur,          \* index pEvtDesc of the EvtProcer points to
    row,          \* row of the EvtProcer's scan
    nth,          \* num of the EvtProcer's scan: which EvtID of the row
    pc,           \* [Thread -> where the thread is]
    oper,         \* [Client -> EvtOperID of its running call, or None]
    pubRow,       \* [Client -> row its running pubEvts has found free, or None]
    pQueue,       \* [Thread -> pEvtQueue of its running postEvtSRT, or None]
    evt,          \* [Thread -> event of its running postEvtSRT, or None]
    unposted      \* events not posted yet

mgrVars  == <<mgrState, stateOwner, haveTables>>
psVars   == <<opers, pubTable, subTable, leaked>>
ringVars == <<buf, num, head, tail, seqID>>
scanVars == <<cancel, cur, row, nth>>
callVars == <<oper, pubRow, pQueue, evt, unposted>>
vars == <<mgrVars, psVars, procQueue, ringVars, scanVars, pc, callVars>>

-----------------------------------------------------------------------------

EmptyRing ==
    /\ buf = [i \in Index |-> None]
    /\ num = 0
    /\ head = 0
    /\ tail = 0
    /\ seqID = 0

Idle ==
    /\ mgrState = "UNINITED"
    /\ stateOwner = None
    /\ haveTables = FALSE
    /\ opers = {}
    /\ \E beyond \in {None, 0} :
          pubTable = [r \in PubRow |-> IF r = PubMax THEN beyond ELSE None]
    /\ subTable = [r \in SubRow |-> None]
    /\ leaked = FALSE
    /\ procQueue = None
    /\ EmptyRing
    /\ cancel = FALSE /\ cur = 0 /\ row = 0 /\ nth = 0
    /\ pc = [t \in Thread |-> IF t \in Client THEN "idle" ELSE "none"]
    /\ oper = [c \in Client |-> None]
    /\ pubRow = [c \in Client |-> None]
    /\ pQueue = [t \in Thread |-> None]
    /\ evt = [t \in Thread |-> None]

Init == Idle /\ unposted = Msg

\* An empty queue, and its EvtProcer's variables.
FreshQueue ==
    /\ buf' = [i \in Index |-> None]
    /\ num' = 0 /\ head' = 0 /\ tail' = 0 /\ seqID' = 0
    /\ cancel' = FALSE /\ cur' = 0 /\ row' = 0 /\ nth' = 0

Goto(t, l) == pc' = [pc EXCEPT ![t] = l]
IsIdle(c) == c \in Manager /\ pc[c] = "idle"

\* The lowest free index of a table, the loop of every insertion.
IsFirst(r, Free) == r \in Free /\ \A q \in Free : r <= q

-----------------------------------------------------------------------------
(* The life cycle: UNINITED -> READY <-> RUNNING.                            *)

CanWriteState == stateOwner = None

\* Without arguments the manager gets READY, but has no tables.
initEvtManger(c) ==
    /\ IsIdle(c)
    /\ CanWriteState
    /\ mgrState = "UNINITED"
    /\ mgrState' = "READY"
    /\ haveTables' \in BOOLEAN
    /\ UNCHANGED <<stateOwner, psVars, procQueue, ringVars, scanVars, pc, callVars>>

\* Allocates an empty queue and starts its EvtProcer.
enableEvtManger(c) ==
    /\ IsIdle(c)
    /\ CanWriteState
    /\ mgrState = "READY"
    /\ haveTables
    /\ procQueue = None
    /\ procQueue' \in Address
    /\ FreshQueue
    /\ Goto(EvtProcer, "top")
    /\ mgrState' = "RUNNING"
    /\ UNCHANGED <<stateOwner, haveTables, psVars, callVars>>

\* disable cancels the EvtProcer ...
DisableCancel(c) ==
    /\ IsIdle(c)
    /\ CanWriteState
    /\ mgrState = "RUNNING"
    /\ stateOwner' = c
    /\ cancel' = TRUE
    /\ Goto(c, "disable")
    /\ UNCHANGED <<mgrState, haveTables, psVars, procQueue, ringVars, cur, row, nth,
                   callVars>>

HasEnded == pc[EvtProcer] \in {"cancelledInWait", "cancelledInCb"}

\* Mutant: the queue is freed without waiting for its EvtProcer.
DisableJoin_NoWait(c) ==
    /\ pc[c] = "disable"
    /\ procQueue' = None
    /\ mgrState' = "READY"
    /\ stateOwner' = None
    /\ pc' = [pc EXCEPT ![c] = "idle", ![EvtProcer] = IF HasEnded THEN "none" ELSE @]
    /\ UNCHANGED <<haveTables, psVars, ringVars, scanVars, callVars>>

\* ... joins it, and frees the queue with the events still in it.
DisableJoin(c) ==
    /\ pc[c] = "disable"
    /\ HasEnded
    /\ procQueue' = None
    /\ mgrState' = "READY"
    /\ stateOwner' = None
    /\ pc' = [pc EXCEPT ![c] = "idle", ![EvtProcer] = "none"]
    /\ FreshQueue
    /\ UNCHANGED <<haveTables, psVars, callVars>>

-----------------------------------------------------------------------------
(* Operators: regOper reads the state, and registers after it has given the  *)
(* state lock back.                                                          *)

RegCheck(c) ==
    /\ IsIdle(c)
    /\ CanWriteState
    /\ mgrState = "READY"
    /\ Goto(c, "reg")
    /\ UNCHANGED <<mgrVars, psVars, procQueue, ringVars, scanVars, callVars>>

\* Mutant: the last entry is never used.
FreeOperIDs_OffByOne == IF haveTables THEN OperID \ (opers \cup {RegMax - 1}) ELSE {}

FreeOperIDs == IF haveTables THEN OperID \ opers ELSE {}

doRegOper(c) ==
    /\ pc[c] = "reg"
    /\ IF FreeOperIDs = {} THEN UNCHANGED opers
       ELSE \E o \in OperID : IsFirst(o, FreeOperIDs) /\ opers' = opers \cup {o}
    /\ Goto(c, "idle")
    /\ UNCHANGED <<mgrVars, pubTable, subTable, leaked, procQueue, ringVars, scanVars,
                   callVars>>

\* Rows of the operator stay in the tables, for the next owner of the ID.
unregOper(c, o) ==
    /\ IsIdle(c)
    /\ o \in opers
    /\ opers' = opers \ {o}
    /\ UNCHANGED <<mgrVars, pubTable, subTable, leaked, procQueue, ringVars, scanVars,
                   pc, callVars>>

\* The first step of pubEvts, subEvts and postEvtSRT.
isRegedOperID(o) == o \in opers

-----------------------------------------------------------------------------
(* The PubTable.                                                             *)

PubCheck(c, o) ==
    /\ IsIdle(c)
    /\ isRegedOperID(o)
    /\ oper' = [oper EXCEPT ![c] = o]
    /\ Goto(c, "pub")
    /\ UNCHANGED <<mgrVars, psVars, procQueue, ringVars, scanVars, pubRow, pQueue, evt,
                   unposted>>

PubReturn(c) ==
    /\ oper' = [oper EXCEPT ![c] = None]
    /\ pubRow' = [pubRow EXCEPT ![c] = None]
    /\ Goto(c, "idle")

FreePubRows == {r \in PubRow : pubTable[r] = None}

\* row <= _mMayPubEvtNumMax: the scan looks at one cell behind the table, too.
PubScan(c) ==
    /\ pc[c] = "pub"
    /\ IF FreePubRows = {} THEN PubReturn(c)
       ELSE /\ \E r \in PubRow :
                  IsFirst(r, FreePubRows) /\ pubRow' = [pubRow EXCEPT ![c] = r]
            /\ Goto(c, "pubStore")
            /\ UNCHANGED oper
    /\ UNCHANGED <<mgrVars, psVars, procQueue, ringVars, scanVars, pQueue, evt,
                   unposted>>

\* One step, though the code publishes the zeroed row first and then fills it: until
\* then an unpubEvts of the operator with ID 0 could take the row for its own.
PubStore(c) ==
    /\ pc[c] = "pubStore"
    /\ pubTable' = [pubTable EXCEPT ![pubRow[c]] = oper[c]]
    /\ PubReturn(c)
    /\ UNCHANGED <<mgrVars, opers, subTable, leaked, procQueue, ringVars, scanVars,
                   pQueue, evt, unposted>>

\* Frees the first row of the operator.
unpubEvts(c, o) ==
    /\ IsIdle(c)
    /\ haveTables
    /\ \E r \in PubRow :
          /\ IsFirst(r, {q \in PubRow \ {PubMax} : pubTable[q] = o})
          /\ pubTable' = [pubTable EXCEPT ![r] = None]
    /\ UNCHANGED <<mgrVars, opers, subTable, leaked, procQueue, ringVars, scanVars, pc,
                   callVars>>

-----------------------------------------------------------------------------
(* The SubTable.                                                             *)

ReadsSubTable == pc[EvtProcer] \in {"scan", "cb", "post", "signal"}
CanWriteSubTable == ~leaked /\ ~ReadsSubTable

SubCheck(c, o) ==
    /\ IsIdle(c)
    /\ isRegedOperID(o)
    /\ oper' = [oper EXCEPT ![c] = o]
    /\ Goto(c, "sub")
    /\ UNCHANGED <<mgrVars, psVars, procQueue, ringVars, scanVars, pubRow, pQueue, evt,
                   unposted>>

FreeSubRows == {r \in SubRow : subTable[r] = None}

SubReturn(c) ==
    /\ oper' = [oper EXCEPT ![c] = None]
    /\ Goto(c, "idle")

doSubEvts(c) ==
    /\ pc[c] = "sub"
    /\ CanWriteSubTable
    /\ IF FreeSubRows = {} THEN UNCHANGED subTable
       ELSE \E r \in SubRow, ids \in SubArgs :
              /\ IsFirst(r, FreeSubRows)
              /\ subTable' = [subTable EXCEPT ![r] = [suber |-> oper[c], ids |-> ids]]
    /\ SubReturn(c)
    /\ UNCHANGED <<mgrVars, opers, pubTable, leaked, procQueue, ringVars, scanVars,
                   pubRow, pQueue, evt, unposted>>

UnsubCall(c, o) ==
    /\ IsIdle(c)
    /\ haveTables
    /\ oper' = [oper EXCEPT ![c] = o]
    /\ Goto(c, "unsub")
    /\ UNCHANGED <<mgrVars, psVars, procQueue, ringVars, scanVars, pubRow, pQueue, evt,
                   unposted>>

\* Mutant: the last row is never freed.
RowsOf_OffByOne(o) ==
    {r \in SubRow \ {SubMax - 1} : subTable[r] # None /\ subTable[r].suber = o}

RowsOf(o) == {r \in SubRow : subTable[r] # None /\ subTable[r].suber = o}

\* Frees the first row of the operator.
FreeRow(c) ==
    /\ IF RowsOf(oper[c]) = {} THEN UNCHANGED subTable
       ELSE \E r \in SubRow :
              /\ IsFirst(r, RowsOf(oper[c]))
              /\ subTable' = [subTable EXCEPT ![r] = None]
    /\ SubReturn(c)
    /\ UNCHANGED <<mgrVars, opers, pubTable, leaked, procQueue, ringVars, scanVars,
                   pubRow, pQueue, evt, unposted>>

\* Mutant: the table is locked for reading only.
unsubEvts_ReadLock(c) == pc[c] = "unsub" /\ FreeRow(c)

unsubEvts(c) == pc[c] = "unsub" /\ CanWriteSubTable /\ FreeRow(c)

-----------------------------------------------------------------------------
(* postEvtSRT.                                                               *)

\* A client posts in the order of the numbers, a callback one event after the other.
IsNextPost(t, m) ==
    /\ m \in unposted
    /\ PostedBy[m] = t
    /\ \A n \in unposted :
          PostedBy[n] = t /\ (t = EvtProcer => EvtOf[n] = EvtOf[m]) => m <= n

\* The call: the operator is checked, and pEvtQueue is read without a lock.
PostCheck(t, m) ==
    /\ pc[t] = IF t \in Client THEN "idle" ELSE "cb"
    /\ IsNextPost(t, m)
    /\ \E o \in OperID : isRegedOperID(o)
    /\ unposted' = unposted \ {m}
    /\ evt' = [evt EXCEPT ![t] = m]
    /\ pQueue' = [pQueue EXCEPT ![t] = procQueue]
    /\ Goto(t, "post")
    /\ UNCHANGED <<mgrVars, psVars, procQueue, ringVars, scanVars, oper, pubRow>>

PostReturn(t) ==
    /\ evt' = [evt EXCEPT ![t] = None]
    /\ pQueue' = [pQueue EXCEPT ![t] = None]
    /\ UNCHANGED <<oper, pubRow, unposted>>

ReturnTo(t) == IF t \in Client THEN "idle" ELSE "cb"

Crash == pc' = [t \in Thread |-> "dead"]

\* There is no queue unless the manager is RUNNING: a NULL pEvtQueue is used.
PostNull(t) ==
    /\ pc[t] = "post"
    /\ pQueue[t] = None
    /\ Crash
    /\ UNCHANGED <<mgrVars, psVars, procQueue, ringVars, scanVars, callVars>>

\* disable has freed the queue since its address was read, before the mutex is locked
\* or between its unlock and the signal.  The use of freed memory ends the process, or
\* has no effect, or never returns (no step).
PostToFreed(t) ==
    /\ pc[t] \in {"post", "signal"}
    /\ pQueue[t] \notin {procQueue, None}
    /\ \/ Crash /\ UNCHANGED callVars
       \/ Goto(t, ReturnTo(t)) /\ PostReturn(t)
    /\ UNCHANGED <<mgrVars, psVars, procQueue, ringVars, scanVars>>

\* pthread_cond_wait takes the mutex back before it acts on a cancellation, and
\* nobody unlocks it.
AtQueue(t) ==
    /\ pc[t] = "post"
    /\ pQueue[t] = procQueue
    /\ procQueue # None
    /\ pc[EvtProcer] # "cancelledInWait"

IsFull_OffByOne == num > Depth     \* mutant
IsFull == num = Depth

PostFull(t) ==
    /\ AtQueue(t)
    /\ IsFull
    /\ PostReturn(t)
    /\ Goto(t, ReturnTo(t))
    /\ UNCHANGED <<mgrVars, psVars, procQueue, ringVars, scanVars>>

PostEnqueue(t) ==
    /\ AtQueue(t)
    /\ ~IsFull
    /\ buf' = [buf EXCEPT ![tail] = [msg |-> evt[t], seq |-> seqID]]
    /\ tail' = (tail + 1) % Depth
    /\ num' = num + 1
    /\ seqID' = seqID + 1
    /\ Goto(t, "signal")
    /\ UNCHANGED <<mgrVars, psVars, procQueue, head, scanVars, callVars>>

\* Mutant: no signal.
PostSignal_Forgotten(t) ==
    /\ pc[t] = "signal"
    /\ pQueue[t] = procQueue
    /\ PostReturn(t)
    /\ Goto(t, ReturnTo(t))
    /\ UNCHANGED <<mgrVars, psVars, procQueue, ringVars, scanVars>>

\* pthread_cond_signal after the mutex is released.
PostSignal(t) ==
    /\ pc[t] = "signal"
    /\ pQueue[t] = procQueue
    /\ PostReturn(t)
    /\ pc' = [pc EXCEPT ![t] = ReturnTo(t),
                        ![EvtProcer] = IF t = EvtProcer THEN "cb"
                                       ELSE IF @ = "wait" THEN "top" ELSE @]
    /\ UNCHANGED <<mgrVars, psVars, procQueue, ringVars, scanVars>>

-----------------------------------------------------------------------------
(* EvtProcer_Thread.                                                         *)

ProcWait ==
    /\ pc[EvtProcer] = "top"
    /\ num = 0
    /\ Goto(EvtProcer, "wait")
    /\ UNCHANGED <<mgrVars, psVars, procQueue, ringVars, scanVars, callVars>>

\* pthread_cond_wait acts on a pending cancellation when it is entered.
ProcSpuriousWakeup ==
    /\ pc[EvtProcer] = "wait"
    /\ ~cancel
    /\ Goto(EvtProcer, "top")
    /\ UNCHANGED <<mgrVars, psVars, procQueue, ringVars, scanVars, callVars>>

ProcTake_Newest ==     \* mutant
    /\ pc[EvtProcer] = "top"
    /\ num > 0
    /\ cur' = (tail + Depth - 1) % Depth
    /\ tail' = cur'
    /\ num' = num - 1
    /\ Goto(EvtProcer, "lock")
    /\ UNCHANGED <<mgrVars, psVars, procQueue, buf, head, seqID, cancel, row, nth,
                   callVars>>

\* Takes a pointer to the oldest event, and frees its place in the ring.
ProcTake ==
    /\ pc[EvtProcer] = "top"
    /\ num > 0
    /\ cur' = head
    /\ head' = (head + 1) % Depth
    /\ num' = num - 1
    /\ Goto(EvtProcer, "lock")
    /\ UNCHANGED <<mgrVars, psVars, procQueue, buf, tail, seqID, cancel, row, nth,
                   callVars>>

\* callEachSuberCbProcEvt: the read lock, then every EvtID of every row.  A reader gets
\* the lock past a waiting writer, as it does by default with glibc.
ProcLock ==
    /\ pc[EvtProcer] = "lock"
    /\ row' = 0 /\ nth' = 0
    /\ Goto(EvtProcer, "scan")
    /\ UNCHANGED <<mgrVars, psVars, procQueue, ringVars, cancel, cur, callVars>>

\* Same class, and a classmate bit in common.
IsMatch(id, e) == id.class = e.class /\ id.mates \cap e.mates # {}

\* num <= NumIDs: the entry behind the last one is zeroed padding, without a bit set.
MatchesHere ==
    /\ subTable[row] # None
    /\ nth < Len(subTable[row].ids)
    /\ IsMatch(subTable[row].ids[nth + 1], EvtOf[buf[cur].msg])

ProcCall ==
    /\ pc[EvtProcer] = "scan"
    /\ row \in SubRow
    /\ MatchesHere
    /\ Goto(EvtProcer, "cb")
    /\ UNCHANGED <<mgrVars, psVars, procQueue, ringVars, scanVars, callVars>>

NextEvtID ==
    IF subTable[row] # None /\ nth < Len(subTable[row].ids)
    THEN nth' = nth + 1 /\ UNCHANGED row
    ELSE nth' = 0 /\ row' = row + 1

ProcSkip ==
    /\ pc[EvtProcer] = "scan"
    /\ row \in SubRow
    /\ ~MatchesHere
    /\ NextEvtID
    /\ UNCHANGED <<mgrVars, psVars, procQueue, ringVars, cancel, cur, pc, callVars>>

ProcCbReturn ==
    /\ pc[EvtProcer] = "cb"
    /\ NextEvtID
    /\ Goto(EvtProcer, "scan")
    /\ UNCHANGED <<mgrVars, psVars, procQueue, ringVars, cancel, cur, callVars>>

ProcDone ==
    /\ pc[EvtProcer] = "scan"
    /\ row = SubMax
    /\ Goto(EvtProcer, "top")
    /\ UNCHANGED <<mgrVars, psVars, procQueue, ringVars, scanVars, callVars>>

\* A pending cancellation ends the thread in pthread_cond_wait ...
ProcCancelledInWait ==
    /\ pc[EvtProcer] = "wait"
    /\ cancel
    /\ Goto(EvtProcer, "cancelledInWait")
    /\ UNCHANGED <<mgrVars, psVars, procQueue, ringVars, scanVars, callVars>>

\* ... or in a callback that calls a cancellation point, under the read lock.
ProcCancelledInCb ==
    /\ pc[EvtProcer] = "cb"
    /\ cancel
    /\ leaked' = TRUE
    /\ Goto(EvtProcer, "cancelledInCb")
    /\ UNCHANGED <<mgrVars, opers, pubTable, subTable, procQueue, ringVars, scanVars,
                   callVars>>

-----------------------------------------------------------------------------

postEvtSRT(t) ==
    \/ \E m \in Msg : PostCheck(t, m)
    \/ PostNull(t) \/ PostToFreed(t) \/ PostFull(t) \/ PostEnqueue(t) \/ PostSignal(t)

EvtProcer_Thread ==
    \/ ProcWait \/ ProcSpuriousWakeup \/ ProcTake \/ ProcLock \/ ProcCall \/ ProcSkip
    \/ ProcCbReturn \/ ProcDone \/ ProcCancelledInWait \/ ProcCancelledInCb

Next ==
    \/ \E c \in Client :
          \/ initEvtManger(c) \/ enableEvtManger(c) \/ DisableCancel(c) \/ DisableJoin(c)
          \/ RegCheck(c) \/ doRegOper(c) \/ PubScan(c) \/ PubStore(c)
          \/ doSubEvts(c) \/ unsubEvts(c)
          \/ \E o \in OperID : \/ unregOper(c, o) \/ PubCheck(c, o) \/ unpubEvts(c, o)
                               \/ SubCheck(c, o) \/ UnsubCall(c, o)
    \/ \E t \in Thread : postEvtSRT(t)
    \/ EvtProcer_Thread

Spec == Init /\ [][Next]_vars

(* Fairness: a thread inside a call runs on, and so does the EvtProcer, whose *)
(* callbacks return.  Nobody has to start a call, no wakeup is spurious for   *)
(* sure, and no callback needs to contain a cancellation point.               *)
ClientRuns(c) ==
    \/ DisableJoin(c) \/ doRegOper(c) \/ PubScan(c) \/ PubStore(c) \/ doSubEvts(c)
    \/ unsubEvts(c)

PostRuns(t) == PostNull(t) \/ PostFull(t) \/ PostEnqueue(t) \/ PostSignal(t)

ProcRuns ==
    \/ ProcWait \/ ProcTake \/ ProcLock \/ ProcCall \/ ProcSkip \/ ProcCbReturn
    \/ ProcDone \/ ProcCancelledInWait

FairSpec ==
    /\ Spec
    /\ \A c \in Client : WF_vars(ClientRuns(c))
    /\ \A t \in Thread : WF_vars(PostRuns(t))
    /\ WF_vars(ProcRuns)

-----------------------------------------------------------------------------
(* Properties.                                                               *)

(* Every variable has its type: the ring indices stay inside EvtDescQueue    *)
(* and the count within its depth.                                           *)
TypeOK ==
    /\ mgrState \in {"UNINITED", "READY", "RUNNING"}
    /\ stateOwner \in Client \cup {None}
    /\ haveTables \in BOOLEAN
    /\ opers \subseteq OperID
    /\ pubTable \in [PubRow -> OperID \cup {None}]
    /\ subTable \in [SubRow -> Subscription \cup {None}]
    /\ leaked \in BOOLEAN
    /\ procQueue \in Address \cup {None}
    /\ buf \in [Index -> Entry \cup {None}]
    /\ num \in 0 .. Depth
    /\ head \in Index
    /\ tail \in Index
    /\ seqID \in Nat
    /\ cancel \in BOOLEAN
    /\ cur \in Index
    /\ row \in 0 .. SubMax
    /\ nth \in Nat
    /\ pc \in [Thread -> {"idle", "reg", "pub", "pubStore", "sub", "unsub", "disable",
                          "post", "signal", "dead", "none", "top", "wait", "lock",
                          "scan", "cb", "cancelledInWait", "cancelledInCb"}]
    /\ oper \in [Client -> OperID \cup {None}]
    /\ pubRow \in [Client -> PubRow \cup {None}]
    /\ pQueue \in [Thread -> Address \cup {None}]
    /\ evt \in [Thread -> Msg \cup {None}]
    /\ unposted \subseteq Msg

IsActive == pc[EvtProcer] \in {"top", "wait", "lock", "scan", "cb", "post", "signal"}

(* The ring between head and tail holds the last num events that were posted *)
(* to the queue, oldest first, with consecutive SeqIDs: whatever the posters *)
(* interleave and wherever the ring wraps, none is lost or overwritten       *)
(* before the EvtProcer takes it.                                            *)
RingKeepsOrder ==
    \A i \in 0 .. num - 1 :
        LET e == buf[(head + i) % Depth] IN e # None /\ e.seq = seqID - num + i

HoldsEvent == pc[EvtProcer] \in {"lock", "scan", "cb", "post", "signal"}

(* The EvtProcer gives the cell of an event back before it calls anybody     *)
(* with the pointer to it.  The event it points to is still the one it took, *)
(* the oldest not handled, until the posts since then have filled the queue: *)
(* only the post that fills it writes that cell.                             *)
TakenEventKept ==
    HoldsEvent /\ num < Depth =>
        buf[cur] # None /\ buf[cur].seq = seqID - num - 1

(* The signal comes after the mutex is released, and no wakeup is lost: if   *)
(* the EvtProcer waits although its queue holds an event, a client is about  *)
(* to signal that very queue.                                                *)
WakeupNotLost ==
    pc[EvtProcer] = "wait" /\ num > 0 =>
        \E c \in Client : pc[c] = "signal" /\ pQueue[c] = procQueue

(* disable frees the queue only when its EvtProcer has ended, and the        *)
(* manager is RUNNING exactly while it has a queue.                          *)
QueueOutlivesProcer ==
    /\ IsActive => procQueue # None
    /\ mgrState = "RUNNING" <=> procQueue # None

(* An event in the queue is taken, unless disable discards the queue or the  *)
(* process has ended: the signal after the unlock loses no wakeup.           *)
QueuedEventLeaves ==
    \A m \in Msg :
        (\E i \in Index : IsActive /\ i < num /\ buf[(head + i) % Depth].msg = m)
            ~> ~(\E i \in Index : IsActive /\ i < num /\ buf[(head + i) % Depth].msg = m)

(* What the users of the manager rely on, without its ring and its scan.     *)
InQueue == [i \in 1 .. num |-> buf[(head + i - 1) % Depth].msg]

Worker ==
    CASE pc[EvtProcer] \in {"top", "wait"} -> "idle"
      [] pc[EvtProcer] = "lock"           -> "taken"
      [] ReadsSubTable                    -> "calling"
      [] OTHER                            -> "ended"

InCallback == pc[EvtProcer] \in {"cb", "post", "signal"}

Broker == INSTANCE EvtBroker WITH
    Row    <- SubRow,
    Room   <- Depth,
    alive  <- pc[EvtProcer] # "dead",
    mode   <- IF procQueue = None THEN "closed" ELSE IF cancel THEN "closing" ELSE "open",
    subs   <- subTable,
    box    <- InQueue,
    worker <- Worker,
    called <- IF InCallback THEN row ELSE None

(* Events leave the queue oldest first; a callback is called one at a time,  *)
(* of a subscription that is there and stays till the event is through; and  *)
(* the queue goes away, with what is in it, only after its EvtProcer.        *)
ImplementsEvtBroker == Broker!Spec

=============================================================================
