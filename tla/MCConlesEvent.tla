---------------------------- MODULE MCConlesEvent ----------------------------
(* Instances of ConlesEvent for TLC: two event IDs, two subscriber keys, two *)
(* slots.  The queue depth is the code's; the cache is shorter, so that it   *)
(* overflows.                                                                *)
EXTENDS ConlesEvent, TLC

CONSTANTS c1, c2, k1, k2, e1, e2

\* k1 subscribes to one event, k2 to both: posts of e1 match both keys.
MCSubArgs == {[key |-> k1, ids |-> {e1}], [key |-> k2, ids |-> {e1, e2}]}

Opt(s, w) == [sync |-> s, wait |-> w]

\* Clients only: c1 posts twice, c2 once.
ClientMsg      == {1, 2, 3}
ClientEvtOf    == [m \in ClientMsg |-> IF m = 2 THEN e2 ELSE e1]
ClientPostedBy == [m \in ClientMsg |-> IF m = 3 THEN c2 ELSE c1]
ClientOptions  == {Opt(FALSE, "block"), Opt(FALSE, "nonblock"), Opt(TRUE, "block")}

\* Callbacks that post: c1 posts 1, the callback of slot 1 posts 2 and 3.
CallbackMsg      == 1 .. 3
CallbackEvtOf    == [m \in CallbackMsg |-> IF m = 1 THEN e1 ELSE e2]
CallbackPostedBy == [m \in CallbackMsg |-> IF m = 1 THEN c1 ELSE 1]
CallbackOptions  == {Opt(FALSE, "block"), Opt(FALSE, "timeout")}
BlockOnly        == {Opt(FALSE, "block")}

\* Short behaviours for the temporal properties.
LiveMsg      == {1, 2}
LiveEvtOf    == [m \in LiveMsg |-> e1]
LivePostedBy == [m \in LiveMsg |-> IF m = 1 THEN c1 ELSE c2]
OneSub       == {[key |-> k1, ids |-> {e1}]}

-----------------------------------------------------------------------------
(* What the documentation and the tests say and the code does not do.        *)

(* The callback of a subscription is called one by one, however many threads *)
(* post (UT_ConlesEVT_State.cxx:181).                                        *)
CallbacksOneByOne ==
    \A s \in Slot :
        pc[s] = "cb" => ~\E t \in Thread : pc[t] = "syncCb" /\ idx[t] = s

(* unsubEVT blocks only until the running callback returns                   *)
(* (UT_ConlesEVT_State.cxx:15).                                              *)
UnsubReturns == \A c \in Client : (pc[c] \in InUnsub) ~> (pc[c] = "idle")

=============================================================================
