----------------------------- MODULE MCEvtManger -----------------------------
(* Instances of EvtManger for TLC: c1 manages, c2 posts, and so does a       *)
(* callback; two rows, a queue of two events.                                *)
EXTENDS EvtManger, TLC

CONSTANTS c1, c2, proc

\* Two events of one class, a group of both, and a group of two classes.
EvtA     == [class |-> 1, mates |-> {1}]
EvtB     == [class |-> 1, mates |-> {2}]
AllOf1   == [class |-> 1, mates |-> {1, 2}]
Classes  == [class |-> 3, mates |-> {1, 2}]

MCEvtID    == {EvtA, EvtB, AllOf1, Classes}
MCSubArgs  == {<<AllOf1, EvtA>>}
MCMsg      == 1 .. 4
MCEvtOf    == [m \in MCMsg |-> IF m = 2 THEN EvtB ELSE EvtA]
MCPostedBy == [m \in MCMsg |-> IF m = 4 THEN proc ELSE c2]

\* Enough posts of one client for the ring to wrap onto the event in process.
WrapMsg      == 1 .. 3
WrapEvtOf    == [m \in WrapMsg |-> IF m = 3 THEN EvtB ELSE EvtA]
WrapPostedBy == [m \in WrapMsg |-> c2]

-----------------------------------------------------------------------------
(* What the documentation says and the code does not do.                     *)

(* A callback is called with the event the EvtProcer has taken, the oldest   *)
(* one (PlatIF_EventInterfaces.h:80), whatever is posted meanwhile.          *)
CallbackSeesOldest ==
    pc[EvtProcer] = "cb" => buf[cur].seq = seqID - num - 1

(* pubEvts refuses a publisher when the PubTable is full                     *)
(* (PlatIF_EventInterfaces.h:72).                                            *)
PubStaysInTable == \A c \in Client : pubRow[c] # PubMax

(* unsubEvts, the step after disableEvtManger in the call flow               *)
(* (PlatIF_EventInterfaces.h:21), returns.                                   *)
UnsubReturns == \A c \in Client : (pc[c] = "unsub") ~> (pc[c] # "unsub")

=============================================================================
