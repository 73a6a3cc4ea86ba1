---------------------------- MODULE MCConlesTests ----------------------------
(* The tests of ConlesTests for TLC: with the code's queue, three slots, and *)
(* three rounds of each loop.                                                *)
EXTENDS ConlesTestsInv

TestKey == {"A", "B", "C", "D"}
TestEvtID == Case02_ObjA \cup Case02_ObjC \cup Case02_ObjD \cup {MayBlock, NonBlock}
TestSubArgs ==
    [key : TestKey, ids : {KeepAlive, {MayBlock}, {NonBlock}, {MayBlock, NonBlock},
                           Case02_ObjA, Case02_ObjC, Case02_ObjD}]
TestOptions == {Block, OptNonBlock, SyncMode}

\* The posts there are: who makes them, and of which event.  A test leaves out
\* those its programs do not make.
Posts(n, t, e) == Repeat(n, << <<t, e>> >>)
Table ==
    Posts(2 * Rounds, main, "KEEPALIVE") \o Posts(Rounds, main, MayBlock)
    \o Posts(Rounds, main, NonBlock)
    \o Posts(Rounds, T1, "KEEPALIVE") \o Posts(Rounds, T1, MayBlock)
    \o Posts(Rounds, T2, "KEEPALIVE") \o Posts(Rounds, T2, NonBlock)
    \o Posts(Moves, T2, "MOVE_VERTICAL") \o Posts(Collisions, T3, "COLLISION_DETECTED")
    \o Posts(Moves, 2, "MOVE_VERTICAL_ACK") \o Posts(Collisions, 2, "COLLISION_DETECTED_ACK")
    \o Posts(Collisions, 3, "COLLISION_DETECTED_ACK")
TestMsg      == DOMAIN Table
TestPostedBy == [m \in TestMsg |-> Table[m][1]]
TestEvtOf    == [m \in TestMsg |-> Table[m][2]]

\* The tests whose assertions the code meets, and the one whose it does not.
PassingCases == {
    "State_Case01", "State_Case02", "State_Case03", "Typical_Case01", "Typical_Case02",
    "Typical_Case03", "Concurrency_Case01", "Concurrency_Case02",
    "Performance_Case01", "InFile_Case01", "InFile_Case02"}

(* A non-blocking post that returns SUCCESS has reached every subscription,  *)
(* one that returns TIMEOUT none: each subscriber's processed events and the *)
(* poster's TIMEOUTs add up to the events posted                             *)
(* (UT_T1_EventConlesMode_Concurrency.cxx:302).                              *)
NonBlockCountsAddUp == "check" \notin failed

=============================================================================
