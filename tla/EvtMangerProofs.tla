--------------------------- MODULE EvtMangerProofs ---------------------------
(* EvtManger's invariants, for every value of its constants.  First, which   *)
(* actions change which group of variables; then each group's type; then     *)
(* the other parts of IInv; then the theorems.                               *)
EXTENDS EvtMangerInv, TLAPS, SequenceTheorems

USE DEF vars, mgrVars, psVars, ringVars, scanVars, callVars

-----------------------------------------------------------------------------
(* Which actions change what.                                                *)

(* Only init, enable and disable change the manager's state and its queue.   *)
LEMMA MgrSteps ==
    ASSUME Next
    PROVE  \/ \E c \in Client : \/ initEvtManger(c) \/ enableEvtManger(c)
                                \/ DisableCancel(c) \/ DisableJoin(c)
           \/ UNCHANGED <<mgrVars, procQueue>>
BY SMT DEF Next, postEvtSRT, EvtProcer_Thread, RegCheck, doRegOper, unregOper, PubCheck,
   PubScan, PubStore, unpubEvts, SubCheck, doSubEvts, UnsubCall, unsubEvts, FreeRow,
   PostCheck, PostNull, PostToFreed, PostFull, PostEnqueue, PostSignal, ProcWait,
   ProcSpuriousWakeup, ProcTake, ProcLock, ProcCall, ProcSkip, ProcCbReturn, ProcDone,
   ProcCancelledInWait, ProcCancelledInCb

(* Only the calls of operators change their IDs and the PubTable ...         *)
LEMMA PubSteps ==
    ASSUME Next
    PROVE  \/ \E c \in Client : \/ doRegOper(c) \/ PubStore(c)
                                \/ \E o \in OperID : unregOper(c, o) \/ unpubEvts(c, o)
           \/ UNCHANGED <<opers, pubTable>>
BY SMT DEF Next, postEvtSRT, EvtProcer_Thread, initEvtManger, enableEvtManger,
   DisableCancel, DisableJoin, RegCheck, PubCheck, PubScan, SubCheck, doSubEvts,
   UnsubCall, unsubEvts, FreeRow, PostCheck, PostNull, PostToFreed, PostFull, PostEnqueue,
   PostSignal, ProcWait, ProcSpuriousWakeup, ProcTake, ProcLock, ProcCall, ProcSkip,
   ProcCbReturn, ProcDone, ProcCancelledInWait, ProcCancelledInCb

(* ... and only subEvts, unsubEvts and a cancelled callback the SubTable and *)
(* its lock.                                                                 *)
LEMMA SubSteps ==
    ASSUME Next
    PROVE  \/ \E c \in Client : doSubEvts(c) \/ unsubEvts(c)
           \/ ProcCancelledInCb
           \/ UNCHANGED <<subTable, leaked>>
BY SMT DEF Next, postEvtSRT, EvtProcer_Thread, initEvtManger, enableEvtManger,
   DisableCancel, DisableJoin, RegCheck, doRegOper, unregOper, PubCheck, PubScan,
   PubStore, unpubEvts, SubCheck, UnsubCall, PostCheck, PostNull, PostToFreed, PostFull,
   PostEnqueue, PostSignal, ProcWait, ProcSpuriousWakeup, ProcTake, ProcLock, ProcCall,
   ProcSkip, ProcCbReturn, ProcDone, ProcCancelledInWait

(* The ring is filled by posts, emptied by the EvtProcer, and made and freed *)
(* by enable and disable.                                                    *)
LEMMA RingSteps ==
    ASSUME Next
    PROVE  \/ \E c \in Client : enableEvtManger(c) \/ DisableJoin(c)
           \/ \E t \in Thread : PostEnqueue(t)
           \/ ProcTake
           \/ UNCHANGED ringVars
BY SMT DEF Next, postEvtSRT, EvtProcer_Thread, initEvtManger, DisableCancel,
   RegCheck, doRegOper, unregOper, PubCheck, PubScan,
   PubStore, unpubEvts, SubCheck, doSubEvts, UnsubCall, unsubEvts, FreeRow, PostCheck,
   PostNull, PostToFreed, PostFull, PostSignal, ProcWait, ProcSpuriousWakeup, ProcLock,
   ProcCall, ProcSkip, ProcCbReturn, ProcDone, ProcCancelledInWait, ProcCancelledInCb

(* The EvtProcer's locals change in its own steps, and with its queue.       *)
LEMMA ScanSteps ==
    ASSUME Next
    PROVE  \/ \E c \in Client : enableEvtManger(c) \/ DisableJoin(c) \/ DisableCancel(c)
           \/ ProcTake \/ ProcLock \/ ProcSkip \/ ProcCbReturn
           \/ UNCHANGED scanVars
BY SMT DEF Next, postEvtSRT, EvtProcer_Thread, initEvtManger,
   RegCheck, doRegOper, unregOper, PubCheck, PubScan, PubStore, unpubEvts,
   SubCheck, doSubEvts, UnsubCall, unsubEvts, FreeRow, PostCheck, PostNull, PostToFreed,
   PostFull, PostEnqueue, PostSignal, ProcWait, ProcSpuriousWakeup, ProcCall, ProcDone,
   ProcCancelledInWait, ProcCancelledInCb

(* The locals of a call are set when it begins and reset when it returns.    *)
LEMMA CallSteps ==
    ASSUME Next
    PROVE  \/ \E c \in Client : \/ PubScan(c) \/ PubStore(c) \/ doSubEvts(c) \/ unsubEvts(c)
                                \/ \E o \in OperID : \/ PubCheck(c, o) \/ SubCheck(c, o)
                                                     \/ UnsubCall(c, o)
           \/ \E t \in Thread : \/ \E m \in Msg : PostCheck(t, m)
                                \/ PostReturn(t)
           \/ UNCHANGED callVars
BY SMT DEF Next, postEvtSRT, EvtProcer_Thread, initEvtManger, enableEvtManger,
   DisableCancel, DisableJoin, RegCheck, doRegOper, unregOper, unpubEvts, PostNull,
   PostToFreed, PostFull, PostEnqueue, PostSignal, ProcWait, ProcSpuriousWakeup, ProcTake,
   ProcLock, ProcCall, ProcSkip, ProcCbReturn, ProcDone, ProcCancelledInWait,
   ProcCancelledInCb

-----------------------------------------------------------------------------
(* Types.                                                                    *)

(* TypeOK is the conjunction of its parts.                                   *)
LEMMA Types ==
    IInv => MgrType /\ PSType /\ RingType /\ ScanType /\ CallType /\ PcType
BY DEF IInv, TypeOK, MgrType, PSType, RingType, ScanType, CallType, PcType, ClientPc, ProcPc

(* One wrap around the ring: the only remainder its indices ever need.       *)
LEMMA Wrap ==
    ASSUME NEW x \in 0 .. 2 * Depth - 1
    PROVE  x % Depth = IF x < Depth THEN x ELSE x - Depth
<1>1. CASE x \in 0 .. Depth - 1
  BY <1>1, EvtMangerAssumption, SMT
<1>2. CASE x \in Depth .. 2 * Depth - 1
  BY <1>2, EvtMangerAssumption, SMT
<1> QED
  BY <1>1, <1>2, EvtMangerAssumption

(* An index of the ring, advanced by one, is an index of the ring.           *)
LEMMA NextIndex ==
    ASSUME NEW i \in Index PROVE (i + 1) % Depth \in Index
BY EvtMangerAssumption, SMT DEF Index

(* The manager's state and the address of its queue keep their types.        *)
LEMMA MgrTypeNext ==
    ASSUME IInv, Next PROVE MgrType'
<1>1. MgrType
  BY Types
<1> QED
  BY <1>1, MgrSteps DEF MgrType, initEvtManger, enableEvtManger, DisableCancel, DisableJoin

(* What an operator publishes or subscribes is stored under its ID, in a row *)
(* of the table.                                                             *)
LEMMA PSTypeNext ==
    ASSUME IInv, Next PROVE PSType'
<1>1. PSType /\ FrameInv
  BY Types DEF IInv
<1>2. opers' \subseteq OperID /\ pubTable' \in [PubRow -> OperID \cup {None}]
  BY <1>1, PubSteps DEF PSType, FrameInv, doRegOper, PubStore, unregOper, unpubEvts, PubReturn
<1>3. subTable' \in [SubRow -> Subscription \cup {None}] /\ leaked' \in BOOLEAN
  <2>1. ASSUME NEW c \in Client, doSubEvts(c)
        PROVE  subTable' \in [SubRow -> Subscription \cup {None}]
    BY <1>1, <2>1 DEF PSType, FrameInv, doSubEvts, Subscription
  <2> QED
    BY <1>1, <2>1, SubSteps DEF PSType, doSubEvts, unsubEvts, FreeRow, ProcCancelledInCb
<1> QED
  BY <1>2, <1>3 DEF PSType

(* The ring's indices stay inside EvtDescQueue, and CurEvtNum within Depth:  *)
(* a post tests IsFull in the same critical section in which it enqueues.    *)
LEMMA RingTypeNext ==
    ASSUME IInv, Next PROVE RingType'
<1>1. RingType /\ FrameInv
  BY Types DEF IInv
<1>2. CASE FreshQueue
  BY <1>2, EvtMangerAssumption DEF RingType, FreshQueue, Index
<1>3. ASSUME NEW t \in Thread, PostEnqueue(t) PROVE RingType'
  <2>1. [msg |-> evt[t], seq |-> seqID] \in Entry
    BY <1>1, <1>3 DEF PostEnqueue, AtQueue, FrameInv, RingType, Entry
  <2>2. buf' \in [Index -> Entry \cup {None}]
    BY <1>1, <1>3, <2>1 DEF PostEnqueue, RingType
  <2>3. num' \in 0 .. Depth /\ seqID' \in Nat
    BY <1>1, <1>3, EvtMangerAssumption DEF PostEnqueue, IsFull, RingType
  <2> QED
    BY <1>1, <1>3, <2>2, <2>3, NextIndex DEF PostEnqueue, RingType
<1>4. CASE ProcTake
  BY <1>1, <1>4, NextIndex, EvtMangerAssumption DEF ProcTake, RingType
<1> QED
  BY <1>1, <1>2, <1>3, <1>4, RingSteps DEF RingType, enableEvtManger, DisableJoin

(* The scan goes on from an entry to the next, or to the next row.           *)
LEMMA NextEvtIDType ==
    ASSUME ScanType, row \in SubRow, NextEvtID
    PROVE  row' \in 0 .. SubMax /\ nth' \in Nat
BY EvtMangerAssumption DEF ScanType, NextEvtID, SubRow

(* The EvtProcer's pointers stay inside the ring and the SubTable.           *)
LEMMA ScanTypeNext ==
    ASSUME IInv, Next PROVE ScanType'
<1>1. ScanType /\ RingType /\ CallbackInv
  BY Types DEF IInv
<1>2. CASE FreshQueue
  <2>1. 0 \in Index /\ 0 \in 0 .. SubMax /\ 0 \in Nat
    BY EvtMangerAssumption DEF Index
  <2> QED
    BY <1>2, <2>1 DEF ScanType, FreshQueue
<1>3. CASE ProcTake \/ ProcLock
  BY <1>1, <1>3, EvtMangerAssumption DEF ProcTake, ProcLock, ScanType, RingType
<1>4. CASE ProcSkip
  BY <1>1, <1>4, NextEvtIDType DEF ProcSkip, ScanType
<1>5. CASE ProcCbReturn
  BY <1>1, <1>5, NextEvtIDType DEF ProcCbReturn, ScanType, CallbackInv, InCallback
<1> QED
  BY <1>1, <1>2, <1>3, <1>4, <1>5, ScanSteps
     DEF ScanType, enableEvtManger, DisableJoin, DisableCancel

(* The locals of the calls keep their types.                                 *)
LEMMA CallTypeNext ==
    ASSUME IInv, Next PROVE CallType'
<1>1. CallType /\ MgrType
  BY Types
<1> QED
  BY <1>1, CallSteps DEF CallType, MgrType, PubScan, PubReturn, PubStore, doSubEvts,
     SubReturn, unsubEvts, FreeRow, PubCheck, SubCheck, UnsubCall, PostCheck, PostReturn

(* Every thread is at a place of its code.                                   *)
LEMMA PcTypeNext ==
    ASSUME IInv, Next PROVE PcType' /\ PlaceInv'
<1>1. PcType /\ PlaceInv /\ EvtProcer \notin Client
  BY Types, EvtMangerAssumption DEF IInv
<1> USE <1>1 DEF PcType, PlaceInv, Thread, ClientPc, ProcPc, Goto
<1>2. ASSUME NEW c \in Client,
             \/ initEvtManger(c) \/ enableEvtManger(c) \/ DisableCancel(c) \/ DisableJoin(c)
      PROVE  PcType' /\ PlaceInv'
  BY <1>2 DEF initEvtManger, enableEvtManger, DisableCancel, DisableJoin, IsIdle, HasEnded
<1>3. ASSUME NEW c \in Client, NEW o \in OperID,
             \/ RegCheck(c) \/ doRegOper(c) \/ PubScan(c) \/ PubStore(c)
             \/ unregOper(c, o) \/ PubCheck(c, o) \/ unpubEvts(c, o)
      PROVE  PcType' /\ PlaceInv'
  BY <1>3 DEF RegCheck, doRegOper, PubScan, PubStore, PubReturn, unregOper, PubCheck,
     unpubEvts, IsIdle
<1>4. ASSUME NEW c \in Client, NEW o \in OperID,
             doSubEvts(c) \/ unsubEvts(c) \/ SubCheck(c, o) \/ UnsubCall(c, o)
      PROVE  PcType' /\ PlaceInv'
  BY <1>4 DEF doSubEvts, unsubEvts, FreeRow, SubReturn, SubCheck, UnsubCall, IsIdle
<1>5. ASSUME NEW t \in Thread, postEvtSRT(t)
      PROVE  PcType' /\ PlaceInv'
  BY <1>5 DEF postEvtSRT, PostCheck, PostNull, PostToFreed, PostFull, PostEnqueue,
     PostSignal, AtQueue, ReturnTo, Crash
<1>6. CASE EvtProcer_Thread
  BY <1>6 DEF EvtProcer_Thread, ProcWait, ProcSpuriousWakeup, ProcTake, ProcLock, ProcCall,
     ProcSkip, ProcCbReturn, ProcDone, ProcCancelledInWait, ProcCancelledInCb
<1>7. 0 \in OperID
  BY EvtMangerAssumption DEF OperID
<1> QED
  BY <1>2, <1>3, <1>4, <1>5, <1>6, <1>7 DEF Next

-----------------------------------------------------------------------------
(* The other parts of IInv.                                                  *)

(* A call sets its locals when it begins, and they stay till it returns.     *)
LEMMA FrameNext ==
    ASSUME IInv, Next PROVE FrameInv'
<1>1. PcType /\ PlaceInv /\ FrameInv /\ CallType /\ EvtProcer \notin Client
  BY Types, EvtMangerAssumption DEF IInv
<1> USE <1>1 DEF PcType, PlaceInv, FrameInv, CallType, Thread, ClientPc, ProcPc, Goto
<1>2. ASSUME NEW c \in Client,
             \/ initEvtManger(c) \/ enableEvtManger(c) \/ DisableCancel(c) \/ DisableJoin(c)
      PROVE  FrameInv'
  BY <1>2 DEF initEvtManger, enableEvtManger, DisableCancel, DisableJoin, IsIdle
<1>3. ASSUME NEW c \in Client, NEW o \in OperID,
             \/ RegCheck(c) \/ doRegOper(c) \/ PubStore(c)
             \/ unregOper(c, o) \/ PubCheck(c, o) \/ unpubEvts(c, o)
      PROVE  FrameInv'
  BY <1>3 DEF RegCheck, doRegOper, PubStore, PubReturn, unregOper, PubCheck,
     unpubEvts, IsIdle
<1>4. ASSUME NEW c \in Client, PubScan(c) PROVE FrameInv'
  BY <1>4 DEF PubScan, PubReturn
<1>5. ASSUME NEW c \in Client, NEW o \in OperID,
             doSubEvts(c) \/ unsubEvts(c) \/ SubCheck(c, o) \/ UnsubCall(c, o)
      PROVE  FrameInv'
  BY <1>5 DEF doSubEvts, unsubEvts, FreeRow, SubReturn, SubCheck, UnsubCall, IsIdle
<1>6. ASSUME NEW t \in Thread, postEvtSRT(t)
      PROVE  FrameInv'
  BY <1>6 DEF postEvtSRT, PostCheck, PostNull, PostToFreed, PostFull, PostEnqueue,
     PostSignal, PostReturn, AtQueue, ReturnTo, Crash, IsNextPost
<1>7. CASE EvtProcer_Thread
  BY <1>7 DEF EvtProcer_Thread, ProcWait, ProcSpuriousWakeup, ProcTake, ProcLock, ProcCall,
     ProcSkip, ProcCbReturn, ProcDone, ProcCancelledInWait, ProcCancelledInCb
<1>8. 0 \in OperID
  BY EvtMangerAssumption DEF OperID
<1> QED
  BY <1>2, <1>3, <1>4, <1>5, <1>6, <1>7, <1>8 DEF Next

(* While disable waits, nobody but it can change the manager's state.        *)
LEMMA DisableNext ==
    ASSUME IInv, Next PROVE DisableInv'
<1>1. PcType /\ PlaceInv /\ DisableInv /\ EvtProcer \notin Client
      /\ MgrType /\ None \notin Client
  BY Types, EvtMangerAssumption DEF IInv, Thread
<1> USE <1>1 DEF PcType, PlaceInv, DisableInv, MgrType, Thread, ClientPc, ProcPc, Goto
<1>2. ASSUME NEW c \in Client,
             \/ initEvtManger(c) \/ enableEvtManger(c) \/ DisableCancel(c) \/ DisableJoin(c)
      PROVE  DisableInv'
  BY <1>2 DEF initEvtManger, enableEvtManger, DisableCancel, DisableJoin, IsIdle,
     CanWriteState
<1>3. ASSUME NEW c \in Client, NEW o \in OperID,
             \/ RegCheck(c) \/ doRegOper(c) \/ PubScan(c) \/ PubStore(c)
             \/ unregOper(c, o) \/ PubCheck(c, o) \/ unpubEvts(c, o)
      PROVE  DisableInv'
  BY <1>3 DEF RegCheck, doRegOper, PubScan, PubStore, PubReturn, unregOper, PubCheck,
     unpubEvts, IsIdle
<1>4. ASSUME NEW c \in Client, NEW o \in OperID,
             doSubEvts(c) \/ unsubEvts(c) \/ SubCheck(c, o) \/ UnsubCall(c, o)
      PROVE  DisableInv'
  BY <1>4 DEF doSubEvts, unsubEvts, FreeRow, SubReturn, SubCheck, UnsubCall, IsIdle
<1>5. ASSUME NEW t \in Thread, postEvtSRT(t)
      PROVE  DisableInv'
  BY <1>5 DEF postEvtSRT, PostCheck, PostNull, PostToFreed, PostFull, PostEnqueue,
     PostSignal, AtQueue, ReturnTo, Crash
<1>6. CASE EvtProcer_Thread
  BY <1>6 DEF EvtProcer_Thread, ProcWait, ProcSpuriousWakeup, ProcTake, ProcLock, ProcCall,
     ProcSkip, ProcCbReturn, ProcDone, ProcCancelledInWait, ProcCancelledInCb
<1>7. 0 \in OperID
  BY EvtMangerAssumption DEF OperID
<1> QED
  BY <1>2, <1>3, <1>4, <1>5, <1>6, <1>7 DEF Next

(* enable makes the queue before its EvtProcer runs, and disable frees it    *)
(* only after the join.                                                      *)
LEMMA OutlivesNext ==
    ASSUME IInv, Next PROVE QueueOutlivesProcer'
<1>1. PcType /\ PlaceInv /\ QueueOutlivesProcer /\ DisableInv /\ MgrType
      /\ EvtProcer \notin Client /\ None \notin Address
  BY Types, EvtMangerAssumption DEF IInv
<1> USE <1>1 DEF PcType, PlaceInv, QueueOutlivesProcer, DisableInv, MgrType, IsActive,
        Thread, ClientPc, ProcPc, Goto
<1>2. ASSUME NEW c \in Client,
             \/ initEvtManger(c) \/ enableEvtManger(c) \/ DisableCancel(c) \/ DisableJoin(c)
      PROVE  QueueOutlivesProcer'
  BY <1>2 DEF initEvtManger, enableEvtManger, DisableCancel, DisableJoin, IsIdle
<1>3. ASSUME NEW c \in Client, NEW o \in OperID,
             \/ RegCheck(c) \/ doRegOper(c) \/ PubScan(c) \/ PubStore(c)
             \/ unregOper(c, o) \/ PubCheck(c, o) \/ unpubEvts(c, o)
      PROVE  QueueOutlivesProcer'
  BY <1>3 DEF RegCheck, doRegOper, PubScan, PubStore, PubReturn, unregOper, PubCheck,
     unpubEvts, IsIdle
<1>4. ASSUME NEW c \in Client, NEW o \in OperID,
             doSubEvts(c) \/ unsubEvts(c) \/ SubCheck(c, o) \/ UnsubCall(c, o)
      PROVE  QueueOutlivesProcer'
  BY <1>4 DEF doSubEvts, unsubEvts, FreeRow, SubReturn, SubCheck, UnsubCall, IsIdle
<1>5. ASSUME NEW t \in Thread, postEvtSRT(t)
      PROVE  QueueOutlivesProcer'
  BY <1>5 DEF postEvtSRT, PostCheck, PostNull, PostToFreed, PostFull, PostEnqueue,
     PostSignal, AtQueue, ReturnTo, Crash
<1>6. CASE EvtProcer_Thread
  BY <1>6 DEF EvtProcer_Thread, ProcWait, ProcSpuriousWakeup, ProcTake, ProcLock, ProcCall,
     ProcSkip, ProcCbReturn, ProcDone, ProcCancelledInWait, ProcCancelledInCb
<1>7. 0 \in OperID
  BY EvtMangerAssumption DEF OperID
<1> QED
  BY <1>2, <1>3, <1>4, <1>5, <1>6, <1>7 DEF Next

(* subEvts and unsubEvts wait for the write lock while the EvtProcer holds   *)
(* the read lock.                                                            *)
LEMMA SubTableHeld ==
    ASSUME Next, ReadsSubTable
    PROVE  subTable' = subTable
BY SubSteps DEF doSubEvts, unsubEvts, CanWriteSubTable, ProcCancelledInCb

(* A callback starts at a match, and row, nth and the table stay till it     *)
(* returns, also while it posts.                                             *)
LEMMA CallbackNext ==
    ASSUME IInv, Next PROVE CallbackInv'
<1>1. PcType /\ PlaceInv /\ CallbackInv /\ EvtProcer \notin Client
  BY Types, EvtMangerAssumption DEF IInv
<1>2. InCallback' => InCallback \/ ProcCall
  <2> USE <1>1 DEF InCallback, PcType, PlaceInv, Thread, Goto
  <2>1. ASSUME NEW t \in Thread, postEvtSRT(t), InCallback' PROVE InCallback
    BY <2>1 DEF postEvtSRT, PostCheck, PostNull, PostToFreed, PostFull, PostEnqueue,
       PostSignal, AtQueue, ReturnTo, Crash
  <2>2. ASSUME EvtProcer_Thread, InCallback', ~ProcCall PROVE InCallback
    BY <2>2 DEF EvtProcer_Thread, ProcWait, ProcSpuriousWakeup, ProcTake, ProcLock,
       ProcSkip, ProcCbReturn, ProcDone, ProcCancelledInWait, ProcCancelledInCb
  <2>3. ASSUME NEW c \in Client, InCallback',
               \/ initEvtManger(c) \/ enableEvtManger(c) \/ DisableCancel(c)
               \/ DisableJoin(c) \/ RegCheck(c) \/ doRegOper(c) \/ PubScan(c)
               \/ PubStore(c) \/ doSubEvts(c) \/ unsubEvts(c)
        PROVE  InCallback
    BY <2>3 DEF initEvtManger, enableEvtManger, DisableCancel, DisableJoin, RegCheck,
       doRegOper, PubScan, PubStore, PubReturn, doSubEvts, unsubEvts, FreeRow, SubReturn
  <2>4. ASSUME NEW c \in Client, NEW o \in OperID, InCallback',
               \/ unregOper(c, o) \/ PubCheck(c, o) \/ unpubEvts(c, o)
               \/ SubCheck(c, o) \/ UnsubCall(c, o)
        PROVE  InCallback
    BY <2>4 DEF unregOper, PubCheck, unpubEvts, SubCheck, UnsubCall
  <2> QED
    BY <2>1, <2>2, <2>3, <2>4 DEF Next
<1>3. CASE ProcCall
  BY <1>3 DEF ProcCall, MatchesHere, CallbackInv
<1>4. CASE InCallback /\ InCallback'
  <2>1. subTable' = subTable
    BY <1>4, SubTableHeld DEF InCallback, ReadsSubTable
  <2>2. UNCHANGED <<row, nth>>
    <3>1. ~ProcLock /\ ~ProcSkip
      BY <1>4 DEF InCallback, ProcLock, ProcSkip
    <3>2. ~ProcCbReturn
      BY <1>1, <1>4 DEF InCallback, ProcCbReturn, Goto, PcType, Thread
    <3>3. ASSUME NEW c \in Client, enableEvtManger(c) \/ DisableJoin(c) PROVE FALSE
      BY <1>1, <1>4, <3>3 DEF InCallback, enableEvtManger, DisableJoin, HasEnded, Goto,
         PcType, Thread, IInv, QueueOutlivesProcer, IsActive
    <3> QED
      BY <3>1, <3>2, <3>3, ScanSteps DEF DisableCancel, ProcTake
  <2> QED
    BY <1>1, <1>4, <2>1, <2>2 DEF CallbackInv
<1> QED
  BY <1>2, <1>3, <1>4 DEF CallbackInv

(* The cell i behind the head, and the cell before it once the head advances.*)
LEMMA CellAfterTake ==
    ASSUME NEW h \in Index, NEW i \in 0 .. Depth - 1
    PROVE  (((h + 1) % Depth) + i) % Depth = (h + (i + 1)) % Depth
<1>1. h + 1 \in 0 .. 2 * Depth - 1 /\ h + (i + 1) \in 0 .. 2 * Depth - 1
  BY EvtMangerAssumption DEF Index
<1>2. CASE h + 1 < Depth
  BY <1>1, <1>2, Wrap DEF Index
<1>3. CASE h + 1 = Depth
  <2>1. (h + 1) % Depth = 0 /\ i % Depth = i /\ (h + (i + 1)) % Depth = i
    BY <1>1, <1>3, Wrap, EvtMangerAssumption DEF Index
  <2> QED
    BY <2>1
<1> QED
  BY <1>2, <1>3, EvtMangerAssumption DEF Index

(* Behind the tail, the cell num + 1 behind the head.                        *)
LEMMA CellBehindTail ==
    ASSUME NEW h \in Index, NEW n \in 0 .. Depth - 1
    PROVE  (((h + n) % Depth) + 1) % Depth = (h + (n + 1)) % Depth
<1>1. h + n \in 0 .. 2 * Depth - 1 /\ h + (n + 1) \in 0 .. 2 * Depth - 1
  BY EvtMangerAssumption DEF Index
<1>2. CASE h + n < Depth
  BY <1>1, <1>2, Wrap DEF Index
<1>3. CASE h + n >= Depth
  <2>1. (h + n) % Depth = h + n - Depth
    BY <1>3, EvtMangerAssumption, SMT DEF Index
  <2>4. (h + (n + 1)) % Depth = h + (n + 1) - Depth
    BY <1>3, EvtMangerAssumption, SMT DEF Index
  <2>2. h + n - Depth + 1 \in 0 .. Depth - 1
    BY <1>1, <1>3, EvtMangerAssumption DEF Index
  <2>3. (h + n - Depth + 1) % Depth = h + n - Depth + 1
    BY <2>2, Wrap, EvtMangerAssumption
  <2> QED
    BY <2>1, <2>3, <2>4, <1>1, EvtMangerAssumption DEF Index
<1> QED
  BY <1>1, <1>2, <1>3, EvtMangerAssumption DEF Index

(* Cells fewer than Depth behind the head are distinct.                      *)
LEMMA CellsDistinct ==
    ASSUME NEW h \in Index, NEW i \in 0 .. Depth - 1, NEW j \in 0 .. Depth - 1, i # j
    PROVE  (h + i) % Depth \in Index /\ (h + i) % Depth # (h + j) % Depth
<1> DEFINE a == (h + i) % Depth
           b == (h + j) % Depth
<1>1. a = IF h + i < Depth THEN h + i ELSE h + i - Depth
  BY EvtMangerAssumption, SMT DEF Index
<1>2. b = IF h + j < Depth THEN h + j ELSE h + j - Depth
  BY EvtMangerAssumption, SMT DEF Index
<1> HIDE DEF a, b
<1>3. a \in Index /\ a # b
  BY <1>1, <1>2, EvtMangerAssumption DEF Index
<1> QED
  BY <1>3 DEF a, b

(* A post writes the one cell behind the events that are there, and a take   *)
(* moves the head past the oldest: the events between head and tail keep     *)
(* their places and their consecutive SeqIDs.                                *)
LEMMA RingNext ==
    ASSUME IInv, Next PROVE RingInv'
<1>1. RingType /\ RingInv /\ FrameInv /\ Depth \in Nat \ {0}
  BY Types, EvtMangerAssumption DEF IInv
<1> DEFINE Kept(i) ==
        buf[(head + i) % Depth] # None /\ buf[(head + i) % Depth].seq = seqID - num + i
<1>2. RingKeepsOrder <=> \A i \in 0 .. num - 1 : Kept(i)
  BY DEF RingKeepsOrder
<1>3. RingKeepsOrder' <=> \A i \in 0 .. num' - 1 : Kept(i)'
  BY DEF RingKeepsOrder
<1>4. CASE FreshQueue
  <2>1. tail' = (head' + num') % Depth
    BY <1>1, <1>4, Wrap DEF FreshQueue
  <2> QED
    BY <1>4, <2>1 DEF RingInv, RingKeepsOrder, FreshQueue
<1>5. ASSUME NEW t \in Thread, PostEnqueue(t) PROVE RingInv'
  <2>1. num \in 0 .. Depth - 1 /\ num' = num + 1 /\ seqID' = seqID + 1 /\ head' = head
        /\ tail \in Index /\ tail = (head + num) % Depth
        /\ buf' = [buf EXCEPT ![tail] = [msg |-> evt[t], seq |-> seqID]]
    BY <1>1, <1>5 DEF PostEnqueue, IsFull, RingType, RingInv
  <2>2. tail' = (head' + num') % Depth
    <3>1. (tail + 1) % Depth = (head + (num + 1)) % Depth
      BY <1>1, <2>1, CellBehindTail DEF RingType
    <3> QED
      BY <1>1, <1>5, <2>1, <3>1 DEF PostEnqueue, RingType, Index
  <2>3. ASSUME NEW i \in Nat, i = num PROVE Kept(i)'
    <3>1. [msg |-> evt[t], seq |-> seqID] \in Entry
      BY <1>1, <1>5 DEF PostEnqueue, AtQueue, FrameInv, RingType, Entry
    <3>2. buf'[tail] # None /\ buf'[tail].seq = seqID
      BY <1>1, <2>1, <3>1, EvtMangerAssumption DEF RingType
    <3>3. (head' + i) % Depth = tail /\ seqID = seqID' - num' + i
      BY <1>1, <2>1, <2>3 DEF RingType
    <3> QED
      BY <3>2, <3>3
  <2>4. ASSUME NEW i \in 0 .. num - 1 PROVE Kept(i)'
    <3>1. (head + i) % Depth # tail /\ (head + i) % Depth \in Index
      <4>1. i \in 0 .. Depth - 1 /\ i # num /\ head \in Index
        BY <1>1, <2>1 DEF RingType
      <4> QED
        BY <2>1, <4>1, CellsDistinct
    <3>2. buf'[(head + i) % Depth] = buf[(head + i) % Depth]
      BY <1>1, <2>1, <3>1 DEF RingType
    <3>3. Kept(i)
      BY <1>1, <1>2 DEF RingInv
    <3> QED
      BY <1>1, <2>1, <3>2, <3>3 DEF RingType
  <2>5. num' <= seqID'
    BY <1>1, <2>1 DEF RingType, RingInv
  <2>6. \A i \in 0 .. num' - 1 : i \in Nat /\ (i = num \/ i \in 0 .. num - 1)
    BY <2>1
  <2> HIDE DEF Kept
  <2>7. \A i \in 0 .. num' - 1 : Kept(i)'
    BY <2>3, <2>4, <2>6
  <2> QED
    BY <1>3, <2>2, <2>5, <2>7 DEF RingInv
<1>6. CASE ProcTake
  <2>1. num \in 1 .. Depth /\ num' = num - 1 /\ UNCHANGED <<buf, tail, seqID>>
        /\ head' = (head + 1) % Depth
    BY <1>1, <1>6 DEF ProcTake, RingType
  <2>2. tail' = (head' + num') % Depth
    <3>1. (head' + (num - 1)) % Depth = (head + (num - 1 + 1)) % Depth
      BY <1>1, <2>1, CellAfterTake DEF RingType
    <3> QED
      BY <1>1, <2>1, <3>1 DEF RingInv
  <2>3. ASSUME NEW i \in 0 .. num' - 1 PROVE Kept(i)'
    <3>1. (head' + i) % Depth = (head + (i + 1)) % Depth
      BY <1>1, <2>1, CellAfterTake DEF RingType
    <3>2. Kept(i + 1)
      BY <1>1, <1>2, <2>1 DEF RingInv
    <3> QED
      BY <1>1, <2>1, <3>1, <3>2 DEF RingType
  <2>4. num' <= seqID'
    BY <1>1, <2>1 DEF RingType, RingInv
  <2> HIDE DEF Kept
  <2> QED
    BY <1>3, <2>2, <2>3, <2>4 DEF RingInv
<1>7. CASE UNCHANGED ringVars
  BY <1>1, <1>7 DEF RingInv, RingKeepsOrder
<1> QED
  BY <1>4, <1>5, <1>6, <1>7, RingSteps DEF enableEvtManger, DisableJoin

(* The EvtProcer works on an event from when it takes it on: no step of      *)
(* another thread lets it begin.                                             *)
LEMMA HoldsSince ==
    ASSUME IInv, Next, HoldsEvent' PROVE HoldsEvent \/ ProcTake
<1>1. PcType /\ PlaceInv /\ EvtProcer \notin Client
  BY Types, EvtMangerAssumption DEF IInv
<1> USE <1>1 DEF HoldsEvent, PcType, PlaceInv, Thread, Goto
<1>2. ASSUME NEW t \in Thread, postEvtSRT(t) PROVE HoldsEvent
  BY <1>2 DEF postEvtSRT, PostCheck, PostNull, PostToFreed, PostFull, PostEnqueue,
     PostSignal, AtQueue, ReturnTo, Crash
<1>3. ASSUME EvtProcer_Thread, ~ProcTake PROVE HoldsEvent
  BY <1>3 DEF EvtProcer_Thread, ProcWait, ProcSpuriousWakeup, ProcLock, ProcCall,
     ProcSkip, ProcCbReturn, ProcDone, ProcCancelledInWait, ProcCancelledInCb
<1>4. ASSUME NEW c \in Client,
             \/ initEvtManger(c) \/ enableEvtManger(c) \/ DisableCancel(c)
             \/ DisableJoin(c) \/ RegCheck(c) \/ doRegOper(c) \/ PubScan(c)
             \/ PubStore(c) \/ doSubEvts(c) \/ unsubEvts(c)
      PROVE  HoldsEvent
  BY <1>4 DEF initEvtManger, enableEvtManger, DisableCancel, DisableJoin, RegCheck,
     doRegOper, PubScan, PubStore, PubReturn, doSubEvts, unsubEvts, FreeRow, SubReturn
<1>5. ASSUME NEW c \in Client, NEW o \in OperID,
             \/ unregOper(c, o) \/ PubCheck(c, o) \/ unpubEvts(c, o)
             \/ SubCheck(c, o) \/ UnsubCall(c, o)
      PROVE  HoldsEvent
  BY <1>5 DEF unregOper, PubCheck, unpubEvts, SubCheck, UnsubCall
<1> QED
  BY <1>2, <1>3, <1>4, <1>5 DEF Next

(* While the EvtProcer works on an event, its pointer stays, and so does the *)
(* ring unless somebody posts.                                               *)
LEMMA HeldRing ==
    ASSUME IInv, Next, HoldsEvent, HoldsEvent'
    PROVE  /\ cur' = cur
           /\ (\E t \in Thread : PostEnqueue(t)) \/ UNCHANGED ringVars
<1>1. ASSUME NEW c \in Client PROVE ~enableEvtManger(c) /\ ~DisableJoin(c)
  <2>1. pc[EvtProcer] # "none" /\ procQueue # None /\ ~HasEnded
    BY DEF HoldsEvent, HasEnded, IInv, QueueOutlivesProcer, IsActive
  <2> QED
    BY <2>1 DEF enableEvtManger, DisableJoin
<1>2. ~ProcTake
  BY DEF HoldsEvent, ProcTake
<1> QED
  BY <1>1, <1>2, ScanSteps, RingSteps
     DEF DisableCancel, ProcLock, ProcSkip, ProcCbReturn

(* The cell before the head is written by the post that fills the ring, and  *)
(* by none before.                                                           *)
LEMMA TakenNext ==
    ASSUME IInv, Next PROVE TakenInv'
<1>1. RingType /\ RingInv /\ TakenInv /\ ScanType /\ Depth \in Nat \ {0}
  BY Types, EvtMangerAssumption DEF IInv
<1>2. CASE ProcTake
  <2>1. num \in 1 .. Depth /\ num' = num - 1 /\ UNCHANGED <<buf, seqID>>
        /\ head \in Index /\ cur' = head /\ head' = (head + 1) % Depth
    BY <1>1, <1>2 DEF ProcTake, RingType
  <2>2. cur' = (head' + (Depth - 1)) % Depth
    <3>1. (head' + (Depth - 1)) % Depth = (head + (Depth - 1 + 1)) % Depth
      BY <1>1, <2>1, CellAfterTake
    <3>2. (head + Depth) % Depth = head
      BY <1>1, <2>1, Wrap DEF Index
    <3> QED
      BY <1>1, <2>1, <3>1, <3>2 DEF Index
  <2>3. num' < seqID'
    BY <1>1, <2>1 DEF RingType, RingInv
  <2>4. buf[head] # None /\ buf[head].seq = seqID - num
    <3>1. (head + 0) % Depth = head
      BY <1>1, <2>1, Wrap DEF Index
    <3>2. buf[(head + 0) % Depth] # None /\ buf[(head + 0) % Depth].seq = seqID - num + 0
      BY <1>1, <2>1 DEF RingInv, RingKeepsOrder
    <3> QED
      BY <1>1, <3>1, <3>2 DEF RingType
  <2> QED
    BY <1>1, <2>1, <2>2, <2>3, <2>4 DEF TakenInv, TakenEventKept, RingType
<1>3. ASSUME HoldsEvent, HoldsEvent', NEW t \in Thread, PostEnqueue(t) PROVE TakenInv'
  <2>1. cur' = cur
    BY <1>3, HeldRing
  <2>2. num \in 0 .. Depth - 1 /\ num' = num + 1 /\ seqID' = seqID + 1 /\ head' = head
        /\ head \in Index /\ tail = (head + num) % Depth /\ seqID \in Nat
        /\ buf' = [buf EXCEPT ![tail] = [msg |-> evt[t], seq |-> seqID]]
    BY <1>1, <1>3 DEF PostEnqueue, IsFull, RingType, RingInv
  <2>3. cur = (head + (Depth - 1)) % Depth /\ num < seqID
    BY <1>1, <1>3 DEF TakenInv
  <2>4. ASSUME num' < Depth
        PROVE  buf'[cur] # None /\ buf'[cur].seq = seqID' - num' - 1
    <3>1. Depth - 1 \in 0 .. Depth - 1 /\ num # Depth - 1
      BY <1>1, <2>2, <2>4
    <3>2. cur # tail /\ cur \in Index
      BY <2>2, <2>3, <3>1, CellsDistinct
    <3>3. buf[cur] # None /\ buf[cur].seq = seqID - num - 1
      BY <1>1, <1>3, <2>2 DEF TakenInv, TakenEventKept
    <3> QED
      BY <1>1, <2>2, <3>2, <3>3 DEF RingType
  <2>5. num' < seqID'
    BY <2>2, <2>3
  <2> QED
    BY <2>1, <2>2, <2>3, <2>4, <2>5 DEF TakenInv, TakenEventKept
<1>4. CASE HoldsEvent /\ HoldsEvent' /\ UNCHANGED <<ringVars, cur>>
  BY <1>1, <1>4 DEF TakenInv, TakenEventKept
<1> QED
  BY <1>2, <1>3, <1>4, HoldsSince, HeldRing DEF TakenInv

(* A client that has put an event into the queue of a waiting EvtProcer is   *)
(* the one that will signal, and only its own signal ends that.              *)
LEMMA WakeupNext ==
    ASSUME IInv, Next PROVE WakeupNotLost'
<1>1. PcType /\ PlaceInv /\ WakeupNotLost /\ QueueOutlivesProcer /\ CallType /\ MgrType
      /\ EvtProcer \notin Client
  BY Types, EvtMangerAssumption DEF IInv
<1> USE <1>1 DEF PcType, PlaceInv, WakeupNotLost, Thread, ClientPc, ProcPc, Goto
<1>2. ASSUME NEW c \in Client,
             \/ initEvtManger(c) \/ enableEvtManger(c) \/ DisableCancel(c) \/ DisableJoin(c)
      PROVE  WakeupNotLost'
  BY <1>2 DEF initEvtManger, enableEvtManger, DisableCancel, DisableJoin, IsIdle, FreshQueue
<1>3. ASSUME NEW c \in Client, NEW o \in OperID,
             \/ RegCheck(c) \/ doRegOper(c) \/ PubScan(c) \/ PubStore(c)
             \/ unregOper(c, o) \/ PubCheck(c, o) \/ unpubEvts(c, o)
      PROVE  WakeupNotLost'
  BY <1>3 DEF RegCheck, doRegOper, PubScan, PubStore, PubReturn, unregOper, PubCheck,
     unpubEvts, IsIdle
<1>4. ASSUME NEW c \in Client, NEW o \in OperID,
             doSubEvts(c) \/ unsubEvts(c) \/ SubCheck(c, o) \/ UnsubCall(c, o)
      PROVE  WakeupNotLost'
  BY <1>4 DEF doSubEvts, unsubEvts, FreeRow, SubReturn, SubCheck, UnsubCall, IsIdle
<1>5. ASSUME NEW t \in Thread, PostEnqueue(t) PROVE WakeupNotLost'
  BY <1>5 DEF PostEnqueue, AtQueue
<1>6. ASSUME NEW t \in Thread, PostSignal(t) PROVE WakeupNotLost'
  BY <1>6 DEF PostSignal, PostReturn, ReturnTo, CallType
<1>7. ASSUME NEW t \in Thread,
             \/ \E m \in Msg : PostCheck(t, m)
             \/ PostNull(t) \/ PostToFreed(t) \/ PostFull(t)
      PROVE  WakeupNotLost'
  BY <1>7 DEF PostCheck, PostNull, PostToFreed, PostFull, PostReturn, AtQueue, ReturnTo,
     Crash, CallType
<1>8. CASE EvtProcer_Thread
  BY <1>8 DEF EvtProcer_Thread, ProcWait, ProcSpuriousWakeup, ProcTake, ProcLock, ProcCall,
     ProcSkip, ProcCbReturn, ProcDone, ProcCancelledInWait, ProcCancelledInCb
<1>9. 0 \in OperID
  BY EvtMangerAssumption DEF OperID
<1> QED
  BY <1>2, <1>3, <1>4, <1>5, <1>6, <1>7, <1>8, <1>9 DEF Next, postEvtSRT

-----------------------------------------------------------------------------
(* The theorems.                                                             *)

(* Before the first call every part of the invariant holds, whatever is      *)
(* still to be posted.                                                       *)
LEMMA IdleIInv ==
    ASSUME Idle, unposted \subseteq Msg PROVE IInv
<1> USE EvtMangerAssumption DEF Idle, EmptyRing
<1>1. 0 \in OperID /\ 0 \in Index /\ 0 \in 0 .. Depth /\ 0 \in 0 .. SubMax
  BY DEF OperID, Index
<1>2. TypeOK
  BY <1>1, Zenon DEF TypeOK, Thread
<1>3. PlaceInv /\ FrameInv /\ CallbackInv /\ DisableInv /\ QueueOutlivesProcer
  BY DEF PlaceInv, FrameInv, CallbackInv, DisableInv, QueueOutlivesProcer, InCallback,
     IsActive, Thread, ClientPc, ProcPc
<1>4. RingInv
  BY Wrap DEF RingInv, RingKeepsOrder
<1>5. TakenInv /\ WakeupNotLost
  BY DEF TakenInv, HoldsEvent, WakeupNotLost, Thread
<1> QED
  BY <1>2, <1>3, <1>4, <1>5 DEF IInv

(* Every step preserves it.                                                  *)
LEMMA NextIInv == IInv /\ [Next]_vars => IInv'
<1> SUFFICES ASSUME IInv, [Next]_vars PROVE IInv'
  OBVIOUS
<1>1. CASE Next
  <2>1. TypeOK'
    BY <1>1, MgrTypeNext, PSTypeNext, RingTypeNext, ScanTypeNext, CallTypeNext, PcTypeNext
       DEF TypeOK, MgrType, PSType, RingType, ScanType, CallType, PcType, ClientPc, ProcPc
  <2> QED
    BY <1>1, <2>1, PcTypeNext, FrameNext, CallbackNext, DisableNext, OutlivesNext,
       RingNext, TakenNext, WakeupNext DEF IInv
<1>2. CASE UNCHANGED vars
  BY <1>2 DEF IInv, TypeOK, PlaceInv, FrameInv, CallbackInv, InCallback, DisableInv,
     QueueOutlivesProcer, IsActive, RingInv, RingKeepsOrder, TakenInv, TakenEventKept,
     HoldsEvent, WakeupNotLost
<1> QED
  BY <1>1, <1>2

(* So it always holds.                                                       *)
LEMMA Inductive == Spec => []IInv
<1>1. Init => IInv
  BY IdleIInv DEF Init
<1> QED
  BY <1>1, NextIInv, PTL DEF Spec

(* Every variable of the manager has its type whatever its clients, its      *)
(* callbacks and a cancellation do: the indices of the ring and of the scan  *)
(* stay inside their arrays, and CurEvtNum within Depth.                     *)
THEOREM TypeCorrect == Spec => []TypeOK
BY Inductive, PTL DEF IInv

(* No event in the queue is lost, overwritten or overtaken before the        *)
(* EvtProcer takes it, for any number of posters and any depth of the ring.  *)
THEOREM RingOrder == Spec => []RingKeepsOrder
BY Inductive, PTL DEF IInv, RingInv

(* The event a callback is called with is the oldest one, however long it    *)
(* runs, unless posts have filled the queue since: the exact extent of the   *)
(* early reuse of its cell.                                                  *)
THEOREM TakenEvent == Spec => []TakenEventKept
<1>1. IInv => TakenEventKept
  BY DEF IInv, TakenInv, TakenEventKept
<1> QED
  BY <1>1, Inductive, PTL

(* An EvtProcer that waits while its queue is not empty is about to be woken *)
(* up, for any number of posters and also when the queue is another one at   *)
(* the same address.                                                         *)
THEOREM NoWakeupLost == Spec => []WakeupNotLost
BY Inductive, PTL DEF IInv

(* disable never frees the queue under its EvtProcer, and the manager is     *)
(* RUNNING exactly while it has a queue.                                     *)
THEOREM Outlives == Spec => []QueueOutlivesProcer
BY Inductive, PTL DEF IInv

-----------------------------------------------------------------------------
(* EvtManger implements EvtBroker: each of its steps opens, shuts or closes  *)
(* the box, puts or takes one event, changes one subscription, begins or     *)
(* ends one callback, crashes, or changes nothing a user can see.            *)

(* What a user of the manager sees is determined by these.                   *)
LEMMA Unseen ==
    ASSUME UNCHANGED <<procQueue, cancel, subTable>>,
           UNCHANGED InQueue, UNCHANGED Worker,
           (pc[EvtProcer] = "dead")' <=> pc[EvtProcer] = "dead",
           InCallback' <=> InCallback, InCallback => UNCHANGED row
    PROVE  UNCHANGED Broker!vars
BY DEF Broker!vars

(* The events in the queue are those of the ring.                            *)
LEMMA SameRing ==
    ASSUME UNCHANGED ringVars PROVE UNCHANGED InQueue
BY DEF InQueue

(* A queue without events is the empty sequence.                             *)
LEMMA NoEvents ==
    ASSUME num' = 0 PROVE InQueue' = <<>>
BY DEF InQueue

(* A function on 1 .. n is a sequence of length n.                           *)
LEMMA FunctionIsSeq ==
    ASSUME NEW S, NEW n \in Nat, NEW f \in [1 .. n -> S]
    PROVE  f \in Seq(S) /\ Len(f) = n
<1>1. f \in Seq(S)
  BY SeqDef
<1>2. Len(f) \in Nat /\ DOMAIN f = 1 .. Len(f) /\ DOMAIN f = 1 .. n
  BY <1>1, LenProperties
<1> QED
  BY <1>1, <1>2

(* The queue is a sequence of num events: every cell between head and tail   *)
(* holds one.                                                                *)
LEMMA QueueType ==
    IInv => InQueue \in Seq(Msg) /\ Len(InQueue) = num
<1> SUFFICES ASSUME IInv PROVE InQueue \in Seq(Msg) /\ Len(InQueue) = num
  OBVIOUS
<1>1. RingType /\ RingInv /\ Depth \in Nat \ {0}
  BY Types, EvtMangerAssumption DEF IInv
<1>2. num \in Nat
  BY <1>1 DEF RingType
<1>3. ASSUME NEW i \in 1 .. num PROVE buf[(head + i - 1) % Depth].msg \in Msg
  <2>1. i - 1 \in 0 .. num - 1 /\ i - 1 \in 0 .. Depth - 1 /\ head \in Index
        /\ head + (i - 1) = head + i - 1
    BY <1>1 DEF RingType, Index
  <2>2. buf[(head + (i - 1)) % Depth] # None
    BY <1>1, <2>1 DEF RingInv, RingKeepsOrder
  <2>3. (head + (i - 1)) % Depth \in Index
    BY <1>1, <2>1, SMT DEF Index
  <2> QED
    BY <1>1, <2>1, <2>2, <2>3 DEF RingType, Entry
<1>4. InQueue \in [1 .. num -> Msg]
  BY <1>3 DEF InQueue
<1> QED
  BY <1>2, <1>4, FunctionIsSeq

(* After a step, too.                                                        *)
LEMMA QueueTypeNext ==
    ASSUME IInv, Next PROVE InQueue' \in Seq(Msg) /\ Len(InQueue') = num'
<1>1. IInv'
  BY NextIInv
<1>2. (IInv => InQueue \in Seq(Msg) /\ Len(InQueue) = num)'
  BY QueueType, PTL
<1> QED
  BY <1>1, <1>2

(* A post appends its event to the queue.                                    *)
LEMMA PostAppends ==
    ASSUME IInv, NEW t \in Thread, Next, PostEnqueue(t)
    PROVE  /\ evt[t] \in Msg
           /\ Len(InQueue) < Depth
           /\ InQueue' = Append(InQueue, evt[t])
<1>1. RingType /\ RingInv /\ FrameInv /\ Depth \in Nat \ {0}
  BY Types, EvtMangerAssumption DEF IInv
<1>2. num \in 0 .. Depth - 1 /\ num' = num + 1 /\ head' = head /\ evt[t] \in Msg
      /\ tail \in Index /\ tail = (head + num) % Depth
      /\ buf' = [buf EXCEPT ![tail] = [msg |-> evt[t], seq |-> seqID]]
  BY <1>1 DEF PostEnqueue, AtQueue, IsFull, RingType, RingInv, FrameInv
<1>3. InQueue \in Seq(Msg) /\ Len(InQueue) = num
  BY QueueType
<1>4. InQueue' \in Seq(Msg) /\ Len(InQueue') = num + 1
  BY <1>2, QueueTypeNext
<1>5. ASSUME NEW i \in 1 .. num PROVE InQueue'[i] = InQueue[i]
  <2>1. i - 1 \in 0 .. Depth - 1 /\ num \in 0 .. Depth - 1 /\ i - 1 # num /\ head \in Index
    BY <1>1, <1>2 DEF RingType
  <2>2. (head + (i - 1)) % Depth \in Index /\ (head + (i - 1)) % Depth # tail
    BY <1>2, <2>1, CellsDistinct
  <2>3. buf'[(head + (i - 1)) % Depth] = buf[(head + (i - 1)) % Depth]
    BY <1>1, <1>2, <2>2 DEF RingType
  <2>4. head + i - 1 = head + (i - 1)
    BY <2>1 DEF Index
  <2> QED
    BY <1>2, <2>3, <2>4 DEF InQueue
<1>6. InQueue'[num + 1] = evt[t]
  <2>1. head + (num + 1) - 1 = head + num
    BY <1>1, <1>2 DEF RingType, Index
  <2>2. buf'[tail].msg = evt[t]
    BY <1>1, <1>2 DEF RingType
  <2> QED
    BY <1>2, <2>1, <2>2 DEF InQueue
<1> DEFINE r == Append(InQueue, evt[t])
<1>7. r \in Seq(Msg) /\ Len(r) = num + 1 /\ r[num + 1] = evt[t]
      /\ \A i \in 1 .. num : r[i] = InQueue[i]
  BY <1>2, <1>3, AppendProperties
<1> HIDE DEF r
<1>8. \A i \in 1 .. Len(r) : r[i] = InQueue'[i]
  BY <1>2, <1>5, <1>6, <1>7
<1>9. r = InQueue'
  BY <1>4, <1>7, <1>8, SeqEqual
<1>10. Len(InQueue) < Depth
  BY <1>1, <1>2, <1>3
<1> QED
  BY <1>2, <1>9, <1>10, Zenon DEF r

(* The EvtProcer takes the queue's head.                                     *)
LEMMA TakeRemovesHead ==
    ASSUME IInv, Next, ProcTake
    PROVE  InQueue # <<>> /\ InQueue' = Tail(InQueue)
<1>1. RingType /\ RingInv /\ Depth \in Nat \ {0}
  BY Types, EvtMangerAssumption DEF IInv
<1>2. num \in 1 .. Depth /\ num' = num - 1 /\ buf' = buf /\ head' = (head + 1) % Depth
      /\ head \in Index
  BY <1>1 DEF ProcTake, RingType
<1>3. InQueue \in Seq(Msg) /\ Len(InQueue) = num /\ InQueue # <<>>
  BY <1>2, QueueType
<1>4. InQueue' \in Seq(Msg) /\ Len(InQueue') = num - 1
  BY <1>2, QueueTypeNext
<1> DEFINE r == Tail(InQueue)
<1>5. r \in Seq(Msg) /\ Len(r) = num - 1 /\ \A i \in 1 .. num - 1 : r[i] = InQueue[i + 1]
  BY <1>2, <1>3, HeadTailProperties
<1>6. ASSUME NEW i \in 1 .. num - 1 PROVE InQueue'[i] = InQueue[i + 1]
  <2>1. i - 1 \in 0 .. Depth - 1 /\ i - 1 + 1 = i
    BY <1>1, <1>2
  <2>2. (head' + (i - 1)) % Depth = (head + i) % Depth
    BY <1>2, <2>1, CellAfterTake
  <2>3. head' + i - 1 = head' + (i - 1) /\ head + (i + 1) - 1 = head + i
    <3>1. head' \in Index
      BY <1>2, NextIndex
    <3> QED
      BY <1>2, <3>1 DEF Index
  <2> QED
    BY <1>2, <2>2, <2>3 DEF InQueue
<1> HIDE DEF r
<1>7. \A i \in 1 .. Len(r) : r[i] = InQueue'[i]
  BY <1>5, <1>6
<1>8. r = InQueue'
  BY <1>2, <1>4, <1>5, <1>7, SeqEqual
<1> QED
  BY <1>3, <1>8 DEF r

-----------------------------------------------------------------------------
(* The steps.                                                                *)

(* Whoever takes a step finds the process alive.                             *)
LEMMA Alive ==
    ASSUME IInv, NEW t \in Thread, pc[t] # "dead" PROVE pc[EvtProcer] # "dead"
BY DEF IInv, PlaceInv

(* init, enable and disable open, shut and close the box, the last of them   *)
(* when the worker has ended.                                                *)
LEMMA LifeCycle ==
    ASSUME IInv, Next, NEW c \in Client,
           \/ initEvtManger(c) \/ enableEvtManger(c) \/ DisableCancel(c) \/ DisableJoin(c)
    PROVE  Broker!Next \/ UNCHANGED Broker!vars
<1>1. /\ MgrType /\ PcType /\ PlaceInv /\ QueueOutlivesProcer /\ DisableInv
      /\ c \in Thread /\ EvtProcer \in Thread /\ c # EvtProcer /\ None \notin Address
  BY Types, EvtMangerAssumption DEF IInv, Thread
<1>2. pc[c] # "dead" /\ pc[EvtProcer] # "dead"
  BY <1>1, Alive DEF initEvtManger, enableEvtManger, DisableCancel, DisableJoin, IsIdle
<1>3. CASE initEvtManger(c)
  BY <1>3, SameRing, Unseen DEF initEvtManger, Worker, InCallback, ReadsSubTable
<1>4. CASE enableEvtManger(c)
  <2>1. pc[EvtProcer] \in {"none", "cancelledInWait", "cancelledInCb"}
    BY <1>1, <1>2, <1>4 DEF QueueOutlivesProcer, IsActive, enableEvtManger, PlaceInv, ProcPc
  <2>2. pc'[EvtProcer] = "top" /\ procQueue' # None /\ ~cancel' /\ procQueue = None
        /\ subTable' = subTable
    BY <1>1, <1>4 DEF enableEvtManger, FreshQueue, Goto, PcType
  <2>3. InQueue' = <<>>
    BY <1>4, NoEvents DEF enableEvtManger, FreshQueue
  <2>4. Broker!Open
    BY <2>1, <2>2, <2>3 DEF Broker!Open, Worker, InCallback, ReadsSubTable
  <2> QED
    BY <1>2, <2>2, <2>4 DEF Broker!Next
<1>5. CASE DisableCancel(c)
  <2>1. pc'[EvtProcer] = pc[EvtProcer] /\ procQueue # None /\ cancel' = TRUE
        /\ UNCHANGED <<procQueue, subTable, row, InQueue>>
    BY <1>1, <1>5, SameRing DEF DisableCancel, Goto, PcType, QueueOutlivesProcer
  <2>2. UNCHANGED <<Worker, InCallback>>
    BY <2>1 DEF Worker, InCallback, ReadsSubTable
  <2>3. CASE cancel
    BY <2>1, <2>2, <2>3, Unseen
  <2>4. CASE ~cancel
    <3>1. Broker!Shut
      BY <1>2, <2>1, <2>2, <2>4 DEF Broker!Shut
    <3> QED
      BY <1>2, <3>1 DEF Broker!Next
  <2> QED
    BY <2>3, <2>4
<1>6. CASE DisableJoin(c)
  <2>1. pc[EvtProcer] \in {"cancelledInWait", "cancelledInCb"} /\ pc'[EvtProcer] = "none"
    BY <1>1, <1>6 DEF DisableJoin, HasEnded, PcType
  <2>2. cancel /\ procQueue # None /\ procQueue' = None /\ subTable' = subTable
    BY <1>1, <1>6 DEF DisableJoin, DisableInv, QueueOutlivesProcer
  <2>3. InQueue' = <<>>
    BY <1>6, NoEvents DEF DisableJoin, FreshQueue
  <2>4. Broker!Close
    BY <2>1, <2>2, <2>3 DEF Broker!Close, Worker, InCallback, ReadsSubTable
  <2> QED
    BY <1>2, <2>4 DEF Broker!Next
<1> QED
  BY <1>3, <1>4, <1>5, <1>6

(* Users do not see operators and publishers come and go.                    *)
LEMMA Calls ==
    ASSUME IInv, Next, NEW c \in Client, NEW o \in OperID,
           \/ RegCheck(c) \/ doRegOper(c) \/ PubScan(c) \/ PubStore(c)
           \/ unregOper(c, o) \/ PubCheck(c, o) \/ unpubEvts(c, o) \/ SubCheck(c, o)
           \/ UnsubCall(c, o)
    PROVE  UNCHANGED Broker!vars
<1>1. PcType /\ c \in Thread /\ EvtProcer \in Thread /\ c # EvtProcer
  BY Types, EvtMangerAssumption DEF Thread
<1>2. pc'[EvtProcer] = pc[EvtProcer]
  BY <1>1 DEF PcType, Goto, RegCheck, doRegOper, PubScan, PubReturn, PubStore, unregOper,
     PubCheck, unpubEvts, SubCheck, UnsubCall
<1>3. UNCHANGED <<procQueue, cancel, subTable, row, ringVars>>
  BY DEF RegCheck, doRegOper, PubScan, PubStore, unregOper, PubCheck, unpubEvts, SubCheck,
     UnsubCall
<1> QED
  BY <1>2, <1>3, SameRing, Unseen DEF Worker, InCallback, ReadsSubTable

(* subEvts and unsubEvts change one row, while the worker calls nobody back. *)
LEMMA Subs ==
    ASSUME IInv, Next, NEW c \in Client, doSubEvts(c) \/ unsubEvts(c)
    PROVE  Broker!Next \/ UNCHANGED Broker!vars
<1>1. /\ PcType /\ PSType /\ FrameInv /\ c \in Thread /\ EvtProcer \in Thread /\ c # EvtProcer
  BY Types, EvtMangerAssumption DEF IInv, Thread
<1>2. pc[c] # "dead" /\ pc[EvtProcer] # "dead"
  BY <1>1, Alive DEF doSubEvts, unsubEvts
<1>3. pc'[EvtProcer] = pc[EvtProcer] /\ UNCHANGED <<procQueue, cancel, row, InQueue>>
  BY <1>1, SameRing DEF PcType, Goto, doSubEvts, unsubEvts, FreeRow, SubReturn
<1>4. UNCHANGED <<Worker, InCallback>> /\ Worker # "calling"
  BY <1>3 DEF Worker, InCallback, ReadsSubTable, doSubEvts, unsubEvts, CanWriteSubTable
<1>5. CASE subTable' = subTable
  BY <1>3, <1>4, <1>5, Unseen
<1>6. ASSUME NEW r \in SubRow, NEW ids \in SubArgs, doSubEvts(c), IsFirst(r, FreeSubRows),
             subTable' = [subTable EXCEPT ![r] = [suber |-> oper[c], ids |-> ids]]
      PROVE  Broker!Next
  <2> DEFINE sub == [suber |-> oper[c], ids |-> ids]
  <2>1. sub \in Subscription /\ subTable[r] = None
    BY <1>1, <1>6 DEF doSubEvts, FrameInv, Subscription, IsFirst, FreeSubRows
  <2>2. Broker!Subscribe(r, sub)
    BY <1>2, <1>3, <1>4, <1>6, <2>1 DEF Broker!Subscribe
  <2> QED
    BY <1>2, <2>1, <2>2 DEF Broker!Next
<1>7. ASSUME NEW r \in SubRow, IsFirst(r, RowsOf(oper[c])),
             subTable' = [subTable EXCEPT ![r] = None]
      PROVE  Broker!Next
  <2>1. subTable[r] # None
    BY <1>7 DEF IsFirst, RowsOf
  <2>2. Broker!Unsubscribe(r)
    BY <1>2, <1>3, <1>4, <1>7, <2>1 DEF Broker!Unsubscribe
  <2> QED
    BY <1>2, <2>2 DEF Broker!Next
<1> QED
  BY <1>5, <1>6, <1>7 DEF doSubEvts, unsubEvts, FreeRow

(* A post puts its event into the box, once; it may crash the process; and   *)
(* nobody sees it begin or return.                                           *)
LEMMA PostSteps ==
    ASSUME IInv, Next, NEW t \in Thread, postEvtSRT(t)
    PROVE  Broker!Next \/ UNCHANGED Broker!vars
<1>1. PcType /\ EvtProcer \in Thread /\ EvtProcer \notin Client
  BY Types, EvtMangerAssumption DEF Thread
<1>2. pc[t] # "dead" /\ pc[EvtProcer] # "dead"
  <2>1. pc[t] # "dead"
    BY DEF postEvtSRT, PostCheck, PostNull, PostToFreed, PostFull, PostEnqueue, PostSignal,
       AtQueue
  <2> QED
    BY <2>1, Alive
<1>3. UNCHANGED <<procQueue, cancel, subTable, row>>
  BY DEF postEvtSRT, PostCheck, PostNull, PostToFreed, PostFull, PostEnqueue, PostSignal
<1>4. CASE Crash
  <2>1. pc'[EvtProcer] = "dead" /\ InQueue' = InQueue
    BY <1>1, <1>2, <1>4, SameRing DEF Crash, postEvtSRT, PostCheck, PostNull, PostToFreed,
       PostFull, PostEnqueue, PostSignal, Goto, PcType
  <2>2. Broker!Crash
    BY <1>3, <2>1 DEF Broker!Crash, Worker, InCallback, ReadsSubTable
  <2> QED
    BY <1>2, <2>2 DEF Broker!Next
<1>5. CASE ~Crash
  <2>1. Worker' = Worker /\ InCallback' = InCallback /\ pc'[EvtProcer] # "dead"
    BY <1>1, <1>2, <1>5 DEF PcType, Goto, postEvtSRT, PostCheck, PostNull, PostToFreed,
       PostFull, PostEnqueue, PostSignal, AtQueue, ReturnTo, Worker, InCallback,
       ReadsSubTable
  <2>2. CASE PostEnqueue(t)
    <3>1. evt[t] \in Msg /\ Len(InQueue) < Depth /\ InQueue' = Append(InQueue, evt[t])
      BY <2>2, PostAppends
    <3>2. procQueue # None
      BY <2>2 DEF PostEnqueue, AtQueue
    <3>3. Broker!Put(evt[t])
      BY <1>2, <1>3, <2>1, <3>1, <3>2 DEF Broker!Put
    <3> QED
      BY <1>2, <3>1, <3>3 DEF Broker!Next
  <2>3. CASE ~PostEnqueue(t)
    <3>1. UNCHANGED ringVars
      BY <2>3 DEF postEvtSRT, PostCheck, PostNull, PostToFreed, PostFull, PostSignal
    <3> QED
      BY <1>2, <1>3, <2>1, <3>1, SameRing, Unseen
  <2> QED
    BY <2>2, <2>3
<1> QED
  BY <1>4, <1>5

(* The EvtProcer takes one event, calls back the rows that match, one at a   *)
(* time, and ends in its wait or in a callback once disable has asked it to. *)
LEMMA ProcSteps ==
    ASSUME IInv, Next, EvtProcer_Thread
    PROVE  Broker!Next \/ UNCHANGED Broker!vars
<1>1. /\ PcType /\ ScanType /\ CallbackInv /\ QueueOutlivesProcer
      /\ EvtProcer \in Thread /\ None \notin Nat
  BY Types, EvtMangerAssumption DEF IInv, Thread
<1>2. UNCHANGED <<procQueue, cancel, subTable>>
  BY DEF EvtProcer_Thread, ProcWait, ProcSpuriousWakeup, ProcTake, ProcLock, ProcCall,
     ProcSkip, ProcCbReturn, ProcDone, ProcCancelledInWait, ProcCancelledInCb
<1> USE <1>1, <1>2 DEF PcType, Goto, Worker, InCallback, ReadsSubTable
<1>3. CASE ProcWait \/ ProcSpuriousWakeup \/ ProcSkip
  BY <1>3, SameRing, Unseen DEF ProcWait, ProcSpuriousWakeup, ProcSkip
<1>4. CASE ProcTake
  <2>1. InQueue # <<>> /\ InQueue' = Tail(InQueue)
    BY <1>4, TakeRemovesHead
  <2>2. Broker!Take
    BY <1>4, <2>1 DEF ProcTake, Broker!Take
  <2> QED
    BY <1>4, <2>2 DEF ProcTake, Broker!Next
<1>5. CASE ProcLock
  <2>1. Broker!StartCalling
    BY <1>5, SameRing DEF ProcLock, Broker!StartCalling
  <2> QED
    BY <1>5, <2>1 DEF ProcLock, Broker!Next
<1>6. CASE ProcCall
  <2>1. Broker!Call(row)
    BY <1>6, SameRing DEF ProcCall, MatchesHere, Broker!Call
  <2> QED
    BY <1>6, <2>1 DEF ProcCall, Broker!Next
<1>7. CASE ProcCbReturn
  <2>1. row # None
    BY DEF ScanType
  <2>2. Broker!Return
    BY <1>7, <2>1, SameRing DEF ProcCbReturn, Broker!Return
  <2> QED
    BY <1>7, <2>2 DEF ProcCbReturn, Broker!Next
<1>8. CASE ProcDone
  <2>1. Broker!AllCalled
    BY <1>8, SameRing DEF ProcDone, Broker!AllCalled
  <2> QED
    BY <1>8, <2>1 DEF ProcDone, Broker!Next
<1>9. CASE ProcCancelledInWait \/ ProcCancelledInCb
  <2>1. cancel /\ procQueue # None /\ pc'[EvtProcer] \in {"cancelledInWait", "cancelledInCb"}
        /\ pc[EvtProcer] \in {"wait", "cb"} /\ UNCHANGED <<row, ringVars>>
    BY <1>9 DEF ProcCancelledInWait, ProcCancelledInCb, QueueOutlivesProcer, IsActive
  <2>2. row # None
    BY DEF ScanType
  <2>3. Broker!End
    BY <2>1, <2>2, SameRing DEF Broker!End
  <2> QED
    BY <2>1, <2>3 DEF Broker!Next
<1> QED
  BY <1>3, <1>4, <1>5, <1>6, <1>7, <1>8, <1>9 DEF EvtProcer_Thread

-----------------------------------------------------------------------------

(* Before the first call the box is closed and nobody subscribes.            *)
LEMMA IdleBroker == Idle => Broker!Init
<1> SUFFICES ASSUME Idle PROVE Broker!Init
  OBVIOUS
<1>1. EvtProcer \in Thread /\ EvtProcer \notin Client
  BY EvtMangerAssumption DEF Thread
<1>2. InQueue = <<>>
  BY DEF Idle, EmptyRing, InQueue
<1> QED
  BY <1>1, <1>2 DEF Idle, Broker!Init, Worker, InCallback, ReadsSubTable

(* Every step of a reachable state is one of the broker or invisible.        *)
LEMMA NextBroker == IInv /\ [Next]_vars => [Broker!Next]_Broker!vars
<1> SUFFICES ASSUME IInv, [Next]_vars PROVE Broker!Next \/ UNCHANGED Broker!vars
  OBVIOUS
<1>1. CASE UNCHANGED vars
  BY <1>1, SameRing, Unseen DEF Worker, InCallback, ReadsSubTable
<1>2. CASE Next
  <2>1. 0 \in OperID
    BY EvtMangerAssumption DEF OperID
  <2> QED
    BY <1>2, <2>1, LifeCycle, Calls, Subs, PostSteps, ProcSteps DEF Next
<1> QED
  BY <1>1, <1>2

(* The manager, with its ring, its scan of rows and IDs and its locks,       *)
(* implements the broker: whatever clients, callbacks and a cancellation do, *)
(* events leave oldest first and within the bound, one callback runs at a    *)
(* time, of a subscription that stays meanwhile, and the queue goes after    *)
(* its EvtProcer.                                                            *)
THEOREM BrokerImplemented == Spec => ImplementsEvtBroker
BY Inductive, IdleBroker, NextBroker, PTL DEF Init, Spec, ImplementsEvtBroker, Broker!Spec

==============================================================================
