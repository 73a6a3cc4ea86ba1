------------------------------ MODULE MCEvtTests ------------------------------
(* The tests of EvtTests for TLC.                                            *)
EXTENDS EvtTestsInv

TestEvtID == {TestEvt(bit) : bit \in 0 .. 11}
TestSubArgs ==
    {<< KEEPALIVE >>, << MSGDATA >>, << KEEPALIVE, MSGDATA >>, << ECHO_REQUEST >>,
     << ECHO_RESPONSE >>, << CMD.X1, CMD.X3, MSGDATA >>, << CMD.X2, CMD.X4, MSGDATA >>,
     << ACK.X1, ACK.X2, ACK.X3, ACK.X4, KEEPALIVE >>}

\* Who posts what; a test leaves out what its programs do not post.
Kinds ==
    << <<"main", KEEPALIVE>>, <<"main", ECHO_REQUEST>>,
       <<"A", MSGDATA>>, <<"B", KEEPALIVE>>, <<"C", KEEPALIVE>>, <<"D", KEEPALIVE>>,
       <<"E", KEEPALIVE>>, <<"X1", KEEPALIVE>>, <<"X2", MSGDATA>>,
       <<"X1", CMD.X1>>, <<"X2", CMD.X2>>, <<"X3", CMD.X3>>, <<"X4", CMD.X4>>,
       <<"proc", ECHO_RESPONSE>>, <<"proc", ACK.X1>>, <<"proc", ACK.X2>>,
       <<"proc", ACK.X3>>, <<"proc", ACK.X4>> >>
OfObjects(kind) == kind[1] \in {"A", "B", "C", "D", "E"} \/ kind[2].mates \cap (4 .. 11) # {}
Table        == Each(Kinds, LAMBDA kind :
                    Repeat(IF OfObjects(kind) THEN ObjRounds ELSE Rounds, << kind >>))
TestMsg      == DOMAIN Table
TestPostedBy == [m \in TestMsg |-> Table[m][1]]
TestEvtOf    == [m \in TestMsg |-> Table[m][2]]

=============================================================================
