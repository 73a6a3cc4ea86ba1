------------------------------- MODULE EvtLink -------------------------------
(*****************************************************************************)
(* What a ConlesMode event link promises its users: subscriptions that open  *)
(* and close, each with a bounded box of events and the threads that are     *)
(* inside its callback.  No context mutex, no threads that wait, no scan of  *)
(* a table, no retries: ConlesEvent implements this specification.           *)
(*****************************************************************************)
EXTENDS Naturals, Sequences

CONSTANTS
    Slot,      \* the subscriptions there is room for
    Thread,    \* whoever may run a callback; a slot's own thread has its name
    EvtID,
    Msg,
    EvtOf,     \* the EvtID of each event
    Room       \* how many events one subscription holds

VARIABLES
    alive,     \* the process has not aborted
    open,      \* the slots with a subscription
    ids,       \* [Slot -> the EvtIDs it has subscribed to]
    box,       \* [Slot -> the events delivered and not handled yet]
    busy       \* [Slot -> the threads inside its callback]

vars == <<alive, open, ids, box, busy>>

Init ==
    /\ alive = TRUE
    /\ open = {}
    /\ ids = [s \in Slot |-> {}]
    /\ box = [s \in Slot |-> <<>>]
    /\ busy = [s \in Slot |-> {}]

IsQuiet(s) == box[s] = <<>> /\ busy[s] = {}
Wants(s, m) == s \in open /\ EvtOf[m] \in ids[s]

\* A subscription starts with nothing left of an earlier one ...
Open(s, I) ==
    /\ s \notin open
    /\ IsQuiet(s)
    /\ open' = open \cup {s}
    /\ ids' = [ids EXCEPT ![s] = I]
    /\ UNCHANGED <<alive, box, busy>>

\* ... and ends when all its events are handled and its callback has returned.
Close(s) ==
    /\ s \in open
    /\ IsQuiet(s)
    /\ open' = open \ {s}
    /\ ids' = [ids EXCEPT ![s] = {}]
    /\ UNCHANGED <<alive, box, busy>>

\* An event goes to who wants it, if there is room.
Deliver(s, m) ==
    /\ Wants(s, m)
    /\ Len(box[s]) < Room
    /\ box' = [box EXCEPT ![s] = Append(@, m)]
    /\ UNCHANGED <<alive, open, ids, busy>>

\* The slot's thread handles the oldest event, one at a time.
Handle(s) ==
    /\ s \in open
    /\ box[s] # <<>>
    /\ s \notin busy[s]
    /\ box' = [box EXCEPT ![s] = Tail(@)]
    /\ busy' = [busy EXCEPT ![s] = @ \cup {s}]
    /\ UNCHANGED <<alive, open, ids>>

\* A synchronous post calls the callback itself.
SyncCall(s, t, m) ==
    /\ Wants(s, m)
    /\ busy' = [busy EXCEPT ![s] = @ \cup {t}]
    /\ UNCHANGED <<alive, open, ids, box>>

Return(s, t) ==
    /\ t \in busy[s]
    /\ busy' = [busy EXCEPT ![s] = @ \ {t}]
    /\ UNCHANGED <<alive, open, ids, box>>

\* The process ends, whatever it was doing.
Abort ==
    /\ alive' = FALSE
    /\ busy' = [s \in Slot |-> {}]
    /\ UNCHANGED <<open, ids, box>>

Next ==
    /\ alive
    /\ \/ \E s \in Slot : \/ \E I \in SUBSET EvtID : Open(s, I)
                          \/ Close(s)
                          \/ Handle(s)
                          \/ \E m \in Msg : Deliver(s, m)
                          \/ \E t \in Thread : \/ \E m \in Msg : SyncCall(s, t, m)
                                               \/ Return(s, t)
       \/ Abort

Spec == Init /\ [][Next]_vars

=============================================================================
