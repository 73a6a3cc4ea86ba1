------------------------------- MODULE EvtTests -------------------------------
(*****************************************************************************)
(* The typical tests of the event manager                                    *)
(* (src/PlatIF_EVT_UT_useGtest/UT_T1_PubSubEvt_Typical.cxx and the case its  *)
(* C forerunners run) as programs that run on EvtManger.                     *)
(*                                                                           *)
(* A test is a program for each of its threads, a sequence of instructions,  *)
(* and a table of the replies its callbacks post.  A call is all of          *)
(* PLT_EVT_*, step by step, so the threads of a test and the EvtProcer       *)
(* interleave.  A call that is refused before it changes anything never      *)
(* takes a step: its test would not end.                                     *)
(*                                                                           *)
(* The tests post far more events than the queue holds, and sleep after each *)
(* post to let the EvtProcer keep up.  The sleeps are taken to be long       *)
(* enough (KeepsUp); the replies of callbacks have none.  No callback        *)
(* contains a cancellation point.  The named semaphores start at 0.          *)
(*****************************************************************************)
EXTENDS EvtManger, SequencesExt

CONSTANTS
    Cases,      \* the tests of a run
    Rounds,     \* events of a loop that posts
    ObjRounds,  \* the same for a loop of Case04
    ObjSets,    \* the objects of Case04: "A" and others of its five
    MaxRacing   \* more objects than these prepare one after the other

ASSUME TestAssumption ==
    /\ Client = {"main", "A", "B", "C", "D", "E", "X1", "X2", "X3", "X4"}
    /\ Manager = Client
    /\ Cases \subseteq STRING
    /\ Rounds \in Nat \ {0} /\ ObjRounds \in Nat \ {0}
    /\ \A objs \in ObjSets : "A" \in objs /\ objs \subseteq {"A", "B", "C", "D", "E"}
    /\ MaxRacing \in Nat

VARIABLES
    case,       \* the test that runs
    objs,       \* its objects, if it is Case04
    step,       \* [Client -> its instruction; 0: not started]
    operID,     \* [Oper -> the EvtOperID regOper has given it, or None]
    count,      \* [Oper \X EvtID -> the calls of the oper's callback]
    replied,    \* the running callback has posted its reply
    sem,        \* bag of semaphores: their values
    failed      \* the checkpoints that did not hold

testVars == <<case, objs, step, operID, count, replied, sem, failed>>

-----------------------------------------------------------------------------
(* Event IDs of the test class, and instructions.                            *)

TestEvt(bit)  == [class |-> 1, mates |-> {bit}]
KEEPALIVE     == TestEvt(0)
MSGDATA       == TestEvt(1)
ECHO_REQUEST  == TestEvt(2)
ECHO_RESPONSE == TestEvt(3)
CMD == [X1 |-> TestEvt(4), X2 |-> TestEvt(6), X3 |-> TestEvt(8), X4 |-> TestEvt(10)]
ACK == [X1 |-> TestEvt(5), X2 |-> TestEvt(7), X3 |-> TestEvt(9), X4 |-> TestEvt(11)]

\* The operators of the tests; object A of Case04 has two.
Oper == {"A", "A2", "B", "C", "D", "E"}

init         == [do |-> "init"]
reg(x)       == [do |-> "reg", oper |-> x]
pub(x)       == [do |-> "pub", oper |-> x]
sub(x, ids)  == [do |-> "sub", oper |-> x, ids |-> ids]
enable       == [do |-> "enable"]
post(x, e)   == [do |-> "post", oper |-> x, evt |-> e]
disable      == [do |-> "disable"]
unpub(x)     == [do |-> "unpub", oper |-> x]
unsub(x)     == [do |-> "unsub", oper |-> x]
unreg(x)     == [do |-> "unreg", oper |-> x]
start(ts)    == [do |-> "start", threads |-> ts]
join(ts)     == [do |-> "join", threads |-> ts]
semPost(s)   == [do |-> "semPost", sem |-> s]
semWait(s)   == [do |-> "semWait", sem |-> s]
expect(x)    == [do |-> "expect", oper |-> x]

Repeat(n, body) == FlattenSeq([i \in 1 .. n |-> body])
Each(xs, Body(_)) == FlattenSeq([i \in DOMAIN xs |-> Body(xs[i])])

Puber(x)      == << reg(x), pub(x) >>
Suber(x, ids) == << reg(x), sub(x, ids) >>
Unsub(x)      == << unsub(x) >>
Unreg(x)      == << unreg(x) >>
\* Waits until the callback of x has got all its events, and counts them.
Proced(x)     == << semWait(<<"AllProced", x>>), expect(x) >>
Posts(x, e)   == Repeat(Rounds, << post(x, e) >>)
Sends(x, e)   == Repeat(ObjRounds, << post(x, e) >>)

-----------------------------------------------------------------------------
(* Case01: one publisher, three subscribers.                                 *)

Case01 == [main |->
    << init >> \o Puber("A")
    \o Each(<<"B", "C", "D">>, LAMBDA x : Suber(x, << KEEPALIVE >>))
    \o << enable >> \o Posts("A", KEEPALIVE) \o Each(<<"B", "C", "D">>, Proced)
    \o << disable, unpub("A") >> \o Each(<<"B", "C", "D">>, Unsub)
    \o Each(<<"A", "B", "C", "D">>, Unreg)]

(* The case of the C tests: the operators are registered by its setup.       *)

CaseC01 == [main |->
    << init >> \o Each(<<"A", "B", "C">>, LAMBDA x : << reg(x) >>)
    \o << pub("A"), sub("B", << KEEPALIVE >>), enable >> \o Posts("A", KEEPALIVE)
    \o Proced("B") \o << disable, unpub("A"), unsub("B") >>
    \o Each(<<"A", "B", "C">>, Unreg)]

(* Case02: two threads post with one operator; X1 and X2 stand for them.     *)

ThreadCase02_KEEPALIVE == Posts("A", KEEPALIVE)
ThreadCase02_MSGDATA   == Posts("A", MSGDATA)
Case02 == [
    main |->
        << init >> \o Puber("A") \o Suber("B", << KEEPALIVE >>)
        \o Suber("C", << MSGDATA >>) \o Suber("D", << KEEPALIVE, MSGDATA >>)
        \o << enable, start({"X1", "X2"}), join({"X1", "X2"}) >>
        \o Each(<<"B", "C", "D">>, Proced)
        \o << disable, unpub("A") >> \o Each(<<"B", "C", "D">>, Unsub)
        \o Each(<<"A", "B", "C", "D">>, Unreg),
    X1 |-> ThreadCase02_KEEPALIVE,
    X2 |-> ThreadCase02_MSGDATA]

(* Case03: B answers from its callback; A, C and D get the answers.          *)

Case03 == [main |->
    << init >> \o Puber("A") \o << sub("A", << ECHO_RESPONSE >>) >>
    \o Puber("B") \o << sub("B", << ECHO_REQUEST >>) >>
    \o << reg("C"), reg("D"),
          sub("C", << ECHO_RESPONSE >>), sub("D", << ECHO_RESPONSE >>), enable >>
    \o Posts("A", ECHO_REQUEST) \o Each(<<"A", "B", "C", "D">>, Proced)
    \o << disable, unpub("A"), unsub("A"), unpub("B"), unsub("B"), unsub("C"),
          unsub("D") >> \o Each(<<"A", "B", "C", "D">>, Unreg)]

(* Case04: objects in threads of their own, which main leads through their   *)
(* stages.  B and E command C and D, which acknowledge to A from their       *)
(* callbacks; A sends its state to all.                                      *)

InStages(x, prepare, running, finish) ==
    prepare \o << semPost(<<"Ready", x>>), semWait(<<"Enter", x>>) >>
    \o running \o << semPost(<<"Leave", x>>), semWait(<<"Exit", x>>) >> \o finish

ThreadA_ofVMainObj == InStages("A",
    Puber("A") \o Suber("A2", << ACK.X1, ACK.X2, ACK.X3, ACK.X4, KEEPALIVE >>),
    Sends("A", MSGDATA) \o Proced("A2"),
    << unpub("A"), unsub("A2"), unreg("A"), unreg("A2") >>)

ModObj(x, ids, running) ==
    InStages(x, Puber(x) \o << sub(x, ids) >>, running,
             << unpub(x), unsub(x), unreg(x) >>)

\* B and E start threads that post their commands; those to absent objects are left out.
Cmds(os) == {x \in DOMAIN CMD :
    CASE x = "X1" -> {"B", "C"} \subseteq os [] x = "X2" -> {"B", "D"} \subseteq os
      [] x = "X3" -> {"E", "C"} \subseteq os [] x = "X4" -> {"E", "D"} \subseteq os}
Commander(x, xs) == ModObj(x, << MSGDATA >>,
    << start(xs) >> \o Sends(x, KEEPALIVE) \o Proced(x) \o << join(xs) >>)
ThreadB_ofRCAgentObj(os) == Commander("B", {"X1", "X2"} \cap Cmds(os))
ThreadE_ofCDObj(os)      == Commander("E", {"X3", "X4"} \cap Cmds(os))

\* C and D acknowledge the commands from their callbacks.
Mover(x, x1, x2) == ModObj(x, << CMD[x1], CMD[x2], MSGDATA >>,
    Sends(x, KEEPALIVE) \o Proced(x))
ThreadC_ofChassicObj == Mover("C", "X1", "X3")
ThreadD_ofPalletObj  == Mover("D", "X2", "X4")

postEvtCmdX1 == Sends("B", CMD.X1)
postEvtCmdX2 == Sends("B", CMD.X2)
postEvtCmdX3 == Sends("E", CMD.X3)
postEvtCmdX4 == Sends("E", CMD.X4)

InOrder(os) == SelectSeq(<<"A", "B", "C", "D", "E">>, LAMBDA x : x \in os)
OfEach(Do(_), stage, os) ==
    [i \in 1 .. Cardinality(os) |-> Do(<<stage, InOrder(os)[i]>>)]
Case04(os) == [
    main |->
        << init, start(os) >> \o OfEach(semWait, "Ready", os)
        \o << enable >> \o OfEach(semPost, "Enter", os) \o OfEach(semWait, "Leave", os)
        \o << disable >> \o OfEach(semPost, "Exit", os) \o << join(os) >>,
    A |-> ThreadA_ofVMainObj, B |-> ThreadB_ofRCAgentObj(os),
    C |-> ThreadC_ofChassicObj, D |-> ThreadD_ofPalletObj, E |-> ThreadE_ofCDObj(os),
    X1 |-> postEvtCmdX1, X2 |-> postEvtCmdX2,
    X3 |-> postEvtCmdX3, X4 |-> postEvtCmdX4]

\* The programs of the threads a test starts.
Started(c, os) ==
    {"main"} \cup (CASE c = "Case02" -> {"X1", "X2"}
                     [] c = "Case04" -> os \cup Cmds(os)
                     [] OTHER -> {})
Programs == [os \in ObjSets \cup {{}} |-> [c \in Cases |->
    LET all == CASE c = "Case01" -> Case01 [] c = "CaseC01" -> CaseC01
                 [] c = "Case02" -> Case02 [] c = "Case03" -> Case03
                 [] c = "Case04" -> Case04(os)
    IN  [t \in Client |-> IF t \in Started(c, os) THEN all[t] ELSE <<>>]]]

ObjsOf(c) == IF c = "Case04" THEN ObjSets ELSE {{}}

-----------------------------------------------------------------------------
Program(t) == Programs[objs][case][t]
Instr(t)   == Program(t)[step[t]]
IsOver(t)  == step[t] = Len(Program(t)) + 1
At(t, do)  == step[t] \in DOMAIN Program(t) /\ Instr(t).do = do

\* What the callback of x posts when it gets e.
Obeys == [C |-> {"X1", "X3"}, D |-> {"X2", "X4"}]
Reply(c, x, e) ==
    IF c = "Case03" /\ x = "B" /\ e = ECHO_REQUEST THEN ECHO_RESPONSE
    ELSE IF c = "Case04" /\ x \in DOMAIN Obeys /\ \E n \in Obeys[x] : e = CMD[n]
    THEN ACK[CHOOSE n \in Obeys[x] : e = CMD[n]]
    ELSE None

\* The events of a test: of its threads, and the replies to them.
EventsOf == [os \in DOMAIN Programs |-> [c \in Cases |->
    LET Posted(t) == {i.evt : i \in {j \in ToSet(Programs[os][c][t]) : j.do = "post"}}
    IN  {m \in Msg : IF PostedBy[m] = EvtProcer
                     THEN \E t \in Client : \E e \in Posted(t), x \in Oper :
                             Reply(c, x, e) = EvtOf[m]
                     ELSE EvtOf[m] \in Posted(PostedBy[m])}]]
TotalOf == [os \in DOMAIN Programs |-> [c \in Cases |-> [e \in EvtID |->
    Cardinality({m \in EventsOf[os][c] : EvtOf[m] = e})]]]
Total(e) == TotalOf[objs][case][e]

TestInit ==
    /\ Idle
    /\ case \in Cases
    /\ objs \in ObjsOf(case)
    /\ pubTable[PubMax] = None     \* the PubTable of the tests is never full
    /\ unposted = EventsOf[objs][case]
    /\ step = [t \in Client |-> IF t = "main" THEN 1 ELSE 0]
    /\ operID = [x \in Oper |-> None]
    /\ count = [x \in Oper \X EvtID |-> 0]
    /\ replied = FALSE
    /\ sem = EmptyBag
    /\ failed = {}

GoOn(t) == step' = [step EXCEPT ![t] = @ + 1]
OtherTestVars == <<case, objs, operID, count, replied, sem, failed>>

(* The calls. *)

ID(t) == operID[Instr(t).oper]

\* The events that are being posted, in the queue or in the hands of the EvtProcer.
Posters  == {t \in Client : pc[t] = "post"}
OnTheWay == num + Cardinality(Posters) + (IF HoldsEvent THEN 1 ELSE 0)

\* How far the EvtProcer may be behind when a thread posts: with the event there is still
\* a free place in the queue for a reply.
KeepsUp == OnTheWay + 2 <= Depth

\* The row doSubEvts fills is that of the instruction.
SubsAsked(t) ==
    \A r \in SubRow : subTable'[r] \in {subTable[r], [suber |-> ID(t), ids |-> Instr(t).ids]}

PLT_EVT(t) ==
    \/ At(t, "init") /\ initEvtManger(t) /\ haveTables'
    \/ At(t, "reg") /\ (RegCheck(t) \/ doRegOper(t))
    \/ At(t, "pub") /\ (PubCheck(t, ID(t)) \/ PubScan(t) \/ PubStore(t))
    \/ At(t, "sub") /\ (SubCheck(t, ID(t)) \/ (doSubEvts(t) /\ SubsAsked(t)))
    \/ At(t, "enable") /\ enableEvtManger(t)
    \/ At(t, "post") /\
          \/ \E m \in Msg : /\ EvtOf[m] = Instr(t).evt /\ isRegedOperID(ID(t))
                            /\ PostCheck(t, m) /\ KeepsUp
          \/ PostNull(t) \/ PostToFreed(t) \/ PostFull(t) \/ PostEnqueue(t)
          \/ PostSignal(t)
    \/ At(t, "disable") /\ (DisableCancel(t) \/ DisableJoin(t))
    \/ At(t, "unpub") /\ IF \E r \in PubRow \ {PubMax} : pubTable[r] = ID(t)
                         THEN unpubEvts(t, ID(t)) ELSE UNCHANGED vars
    \/ At(t, "unsub") /\ ((ID(t) \in OperID /\ UnsubCall(t, ID(t))) \/ unsubEvts(t))
    \/ At(t, "unreg") /\ unregOper(t, ID(t))

\* The step that ends the call does not return SUCCESS.
Refused(t) ==
    \/ pc[t] = "reg" /\ FreeOperIDs = {}
    \/ pc[t] = "pub"
    \/ pc[t] = "sub" /\ FreeSubRows = {}
    \/ pc[t] = "post"

Call(t) ==
    /\ PLT_EVT(t)
    /\ IF pc'[t] = "idle" THEN GoOn(t) ELSE UNCHANGED step
    /\ operID' = IF pc[t] = "reg" /\ opers' # opers
                 THEN [operID EXCEPT ![Instr(t).oper] = CHOOSE o \in opers' : o \notin opers]
                 ELSE operID
    /\ failed' = failed
           \cup (IF pc'[t] = "dead" \/ (pc'[t] = "idle" /\ Refused(t)) THEN {"call"} ELSE {})
           \cup (IF cancel' /\ ~cancel /\ num > 0 THEN {"discarded"} ELSE {})
    /\ UNCHANGED <<case, objs, count, replied, sem>>

(* The other instructions. *)

Start(t) ==
    /\ At(t, "start")
    /\ step' = [u \in Client |-> IF u \in Instr(t).threads THEN 1
                                 ELSE IF u = t THEN step[t] + 1 ELSE step[u]]
    /\ UNCHANGED <<vars, OtherTestVars>>

Join(t) ==
    /\ At(t, "join")
    /\ \A u \in Instr(t).threads : IsOver(u)
    /\ GoOn(t)
    /\ UNCHANGED <<vars, OtherTestVars>>

SemPost(t) ==
    /\ At(t, "semPost")
    /\ sem' = sem (+) SetToBag({Instr(t).sem})
    /\ GoOn(t)
    /\ UNCHANGED <<vars, case, objs, operID, count, replied, failed>>

SemWait(t) ==
    /\ At(t, "semWait")
    /\ BagIn(Instr(t).sem, sem)
    /\ sem' = sem (-) SetToBag({Instr(t).sem})
    /\ GoOn(t)
    /\ UNCHANGED <<vars, case, objs, operID, count, replied, failed>>

\* The events x has subscribed, and whether its callback has got all of them.
IDsOf(x) == UNION {ToSet(subTable[r].ids) : r \in RowsOf(operID[x])}
GotAll(x) == \A e \in IDsOf(x) : count[<<x, e>>] = Total(e)

Expect(t) ==
    /\ At(t, "expect")
    /\ failed' = IF GotAll(Instr(t).oper) THEN failed ELSE failed \cup {"count"}
    /\ GoOn(t)
    /\ UNCHANGED <<vars, case, objs, operID, count, replied, sem>>

\* Which object gets which operator and row matters to none of them, so more than
\* MaxRacing of them prepare, and finish, one after the other.
Has(u, passed) == passed \in ToSet(SubSeq(Program(u), 1, step[u] - 1))
Earlier(t) == ToSet(SubSeq(InOrder(objs), 1, IndexFirstSubSeq(<<t>>, InOrder(objs)) - 1))
InTurn(t) ==
    t \in objs /\ Cardinality(objs) > MaxRacing =>
        \A u \in Earlier(t) :
            IF Has(t, semWait(<<"Exit", t>>)) THEN IsOver(u)
            ELSE Has(u, semPost(<<"Ready", u>>))

TestThread(t) ==
    /\ step[t] \in DOMAIN Program(t)
    /\ InTurn(t)
    /\ Call(t) \/ Start(t) \/ Join(t) \/ SemPost(t) \/ SemWait(t) \/ Expect(t)

(* The callbacks, in the EvtProcer. *)

TheSuber == CHOOSE x \in Oper : operID[x] = subTable[row].suber
Current == EvtOf[buf[cur].msg]

\* U32[0] of an event: how many of its kind its poster has posted before.
Data(m) == Cardinality({n \in EventsOf[objs][case] : EvtOf[n] = EvtOf[m] /\ n < m})

Gotten == count[<<TheSuber, Current>>]

\* What the callbacks expect of the event they get.
AsExpected ==
    /\ Current \in ToSet(subTable[row].ids)
    /\ case \in {"Case01", "CaseC01"} => buf[cur].seq = Gotten
    /\ case = "Case02" /\ Current = MSGDATA => Data(buf[cur].msg) = Gotten

CallbackEnters ==
    /\ ProcCall
    /\ count' = [count EXCEPT ![<<TheSuber, Current>>] = @ + 1]
    /\ replied' = FALSE
    /\ failed' = IF AsExpected THEN failed ELSE failed \cup {"event"}
    /\ UNCHANGED <<case, objs, step, operID, sem>>

OwesReply == Reply(case, TheSuber, Current) # None /\ ~replied

CallbackReplies ==
    /\ pc[EvtProcer] = "cb"
    /\ OwesReply
    /\ \E m \in Msg : EvtOf[m] = Reply(case, TheSuber, Current) /\ PostCheck(EvtProcer, m)
    /\ replied' = TRUE
    /\ UNCHANGED <<case, objs, step, operID, count, sem, failed>>

CallbackPosts ==
    /\ \/ PostNull(EvtProcer) \/ PostFull(EvtProcer) \/ PostEnqueue(EvtProcer)
       \/ PostSignal(EvtProcer)
    /\ failed' = IF pc[EvtProcer] = "post" /\ pc'[EvtProcer] # "signal"
                 THEN failed \cup {"call"} ELSE failed
    /\ UNCHANGED <<case, objs, step, operID, count, replied, sem>>

CallbackReturns ==
    /\ ProcCbReturn
    /\ ~OwesReply
    /\ sem' = IF GotAll(TheSuber) THEN sem (+) SetToBag({<<"AllProced", TheSuber>>})
              ELSE sem
    /\ UNCHANGED <<case, objs, step, operID, count, replied, failed>>

Proc ==
    \/ CallbackEnters \/ CallbackReplies \/ CallbackPosts \/ CallbackReturns
    \/ /\ ProcWait \/ ProcTake \/ ProcLock \/ ProcDone \/ ProcCancelledInWait
       /\ UNCHANGED testVars

\* Nobody can change what the EvtProcer reads between two callbacks, so its scan goes
\* ahead of the other threads.
Skips == pc[EvtProcer] = "scan" /\ row \in SubRow /\ ~MatchesHere

TestNext ==
    IF Skips THEN ProcSkip /\ UNCHANGED testVars
    ELSE \/ \E t \in Client : TestThread(t)
         \/ Proc
         \/ ProcSpuriousWakeup /\ UNCHANGED testVars

\* Some thread of the test runs on, and so does the EvtProcer; nobody counts on a
\* spurious wakeup.
TestSpec ==
    /\ TestInit
    /\ [][TestNext]_<<vars, testVars>>
    /\ WF_<<vars, testVars>>(Skips /\ TestNext)
    /\ WF_<<vars, testVars>>(~Skips /\ \E t \in Client : TestThread(t))
    /\ WF_<<vars, testVars>>(~Skips /\ Proc)

-----------------------------------------------------------------------------
(* Properties.                                                               *)

(* Every call of a test returns SUCCESS, whatever its threads interleave:    *)
(* concurrent registrations fit into the tables, and no post finds the queue *)
(* missing, freed or full, however many events the test posts.  It leans on  *)
(* the sleeps of the threads (KeepsUp); the replies of callbacks have none,  *)
(* and fit in all the same.                                                  *)
CallsReturnAsAsserted == "call" \notin failed

(* Each callback gets the events its operator has subscribed, each one once, *)
(* with consecutive SeqIDs, and each poster's data in the order it was       *)
(* posted; the semaphores of the tests hold disable back until all of them   *)
(* have been processed, and while the threads' sleeps are long enough        *)
(* (KeepsUp) none is refused, nor overwritten while its callback reads it.   *)
EventsAsAsserted == failed \cap {"event", "count", "discarded"} = {}

(* A test leaves no operator and no row in the tables behind for the next    *)
(* one, not even where the pubEvts of two of its threads raced for a row.    *)
NothingLeftBehind ==
    IsOver("main") =>
        /\ opers = {} /\ procQueue = None
        /\ \A r \in PubRow \ {PubMax} : pubTable[r] = None
        /\ \A r \in SubRow : subTable[r] = None

(* Every test ends, if the threads' sleeps are long enough (KeepsUp): no     *)
(* wakeup of the EvtProcer is lost, no semaphore of its stages is waited for *)
(* in vain, and disable gets its EvtProcer to end.                           *)
TestsEnd == <>IsOver("main")

=============================================================================
