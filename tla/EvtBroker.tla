------------------------------ MODULE EvtBroker ------------------------------
(*****************************************************************************)
(* What the event manager promises its users: a table of subscriptions, a    *)
(* bounded box of events, and one worker that takes the oldest event and     *)
(* calls back subscriptions of a table that stands still meanwhile.  No      *)
(* ring, no address of a queue, no locks, no condition, no scan by rows and  *)
(* IDs: EvtManger implements this specification.                             *)
(*****************************************************************************)
EXTENDS Naturals, Sequences

CONSTANTS
    Row,              \* the subscriptions there is room for
    Subscription,     \* what may be subscribed
    Msg,              \* the events
    Room,             \* how many events the box holds
    None

VARIABLES
    alive,     \* the process has not crashed
    mode,      \* "closed", "open", or "closing": the worker is being stopped
    subs,      \* [Row -> Subscription or None]
    box,       \* the events posted and not taken yet, oldest first
    worker,    \* "idle", "taken" an event, "calling" back, or "ended"
    called     \* the row whose callback runs, or None

vars == <<alive, mode, subs, box, worker, called>>

Init ==
    /\ alive = TRUE
    /\ mode = "closed"
    /\ subs = [r \in Row |-> None]
    /\ box = <<>>
    /\ worker = "ended"
    /\ called = None

-----------------------------------------------------------------------------

\* A box opens empty, with a worker of its own ...
Open ==
    /\ mode = "closed" /\ worker = "ended"
    /\ mode' = "open" /\ box' = <<>> /\ worker' = "idle"
    /\ UNCHANGED <<alive, subs, called>>

Shut ==
    /\ mode = "open"
    /\ mode' = "closing"
    /\ UNCHANGED <<alive, subs, box, worker, called>>

\* ... that ends between two events or inside a callback ...
End ==
    /\ mode = "closing"
    /\ worker = "idle" \/ called # None
    /\ worker' = "ended" /\ called' = None
    /\ UNCHANGED <<alive, mode, subs, box>>

\* ... and only then the box is discarded, with what is left in it.
Close ==
    /\ mode = "closing" /\ worker = "ended"
    /\ mode' = "closed" /\ box' = <<>>
    /\ UNCHANGED <<alive, subs, worker, called>>

\* Subscriptions do not come or go while any of them is called back.
Subscribe(r, s) ==
    /\ worker # "calling"
    /\ subs[r] = None
    /\ subs' = [subs EXCEPT ![r] = s]
    /\ UNCHANGED <<alive, mode, box, worker, called>>

Unsubscribe(r) ==
    /\ worker # "calling"
    /\ subs[r] # None
    /\ subs' = [subs EXCEPT ![r] = None]
    /\ UNCHANGED <<alive, mode, box, worker, called>>

Put(m) ==
    /\ mode # "closed"
    /\ Len(box) < Room
    /\ box' = Append(box, m)
    /\ UNCHANGED <<alive, mode, subs, worker, called>>

Take ==
    /\ worker = "idle"
    /\ box # <<>>
    /\ box' = Tail(box)
    /\ worker' = "taken"
    /\ UNCHANGED <<alive, mode, subs, called>>

StartCalling ==
    /\ worker = "taken"
    /\ worker' = "calling"
    /\ UNCHANGED <<alive, mode, subs, box, called>>

\* One callback at a time, of a subscription there is.
Call(r) ==
    /\ worker = "calling" /\ called = None
    /\ subs[r] # None
    /\ called' = r
    /\ UNCHANGED <<alive, mode, subs, box, worker>>

Return ==
    /\ called # None
    /\ called' = None
    /\ UNCHANGED <<alive, mode, subs, box, worker>>

AllCalled ==
    /\ worker = "calling" /\ called = None
    /\ worker' = "idle"
    /\ UNCHANGED <<alive, mode, subs, box, called>>

\* The process ends, whatever it was doing.
Crash ==
    /\ alive' = FALSE
    /\ worker' = "ended" /\ called' = None
    /\ UNCHANGED <<mode, subs, box>>

Next ==
    /\ alive
    /\ \/ Open \/ Shut \/ End \/ Close
       \/ \E r \in Row : \/ \E s \in Subscription : Subscribe(r, s)
                         \/ Unsubscribe(r)
                         \/ Call(r)
       \/ \E m \in Msg : Put(m)
       \/ Take \/ StartCalling \/ Return \/ AllCalled \/ Crash

Spec == Init /\ [][Next]_vars

=============================================================================
