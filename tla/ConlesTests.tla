----------------------------- MODULE ConlesTests -----------------------------
(*****************************************************************************)
(* The unit tests of the ConlesMode event link                               *)
(* (src/PlatIF_IOC_UT_useGtest and the in-file tests of                      *)
(* _PlatIF_IOC_EventTest.cxx) as programs that run on ConlesEvent.           *)
(*                                                                           *)
(* A test is a program for each of its threads, a sequence of instructions,  *)
(* and a table of the replies its callbacks post.  The call an instruction   *)
(* makes is all of subEVT, unsubEVT or postEVT, step by step, so the threads *)
(* of a test, and the async threads of its subscriptions, interleave.        *)
(*                                                                           *)
(* The tests wait for callbacks with sleeps of fixed length.  Such a sleep   *)
(* is taken to be long enough (settle); where a test checks without one,     *)
(* so does its program.  Limits on the time a call takes, and counts that    *)
(* must be positive because the test posts for so long, are left out.        *)
(*****************************************************************************)
EXTENDS ConlesEvent, SequencesExt

CONSTANTS
    main, T1, T2, T3,   \* the threads of a test
    Cases,              \* the tests of a run
    Rounds,             \* rounds of a loop of a test
    Moves, Collisions   \* the same for the loops of Typical_Case02

ASSUME TestAssumption ==
    /\ Client = {main, T1, T2, T3}
    /\ main \notin {T1, T2, T3} /\ T1 \notin {T2, T3} /\ T2 # T3
    /\ Cases \subseteq STRING
    /\ Rounds \in Nat \ {0} /\ Moves \in Nat /\ Collisions \in Nat
    /\ IsFiniteSet(Msg)
    /\ [sync |-> FALSE, wait |-> "block"] \in Options     \* that of the replies
    /\ MaxFaults = 0 /\ MayDrop = {}     \* no malloc fails, and no event may be dropped

VARIABLES
    case,       \* the test that runs
    step,       \* [Client -> its instruction; 0: not started]
    count,      \* [Key -> [EvtID -> the EvtCnt of the callback's pCbPriv]]
    tally,      \* [EvtID -> [result -> posts of clients that returned it]]
    asleep,     \* main is in the pthread_cond_wait of State_Case01
    failed      \* the checkpoints that did not hold: results, "check", "early"

testVars == <<case, step, count, tally, asleep, failed>>

-----------------------------------------------------------------------------
(* Instructions.                                                             *)

Ok == {"SUCCESS"}
Block    == [sync |-> FALSE, wait |-> "block"]
SyncMode == [sync |-> TRUE, wait |-> "block"]

sub(k, ids)         == [do |-> "sub", key |-> k, ids |-> ids, want |-> Ok]
subRefused(k, ids)  == [sub(k, ids) EXCEPT !.want = {"NOT_ENOUGH_RESOURCE"}]
unsub(k)            == [do |-> "unsub", key |-> k, want |-> Ok]
post(e, o, results) == [do |-> "post", evt |-> e, opt |-> o, want |-> results]
start(ts)           == [do |-> "start", threads |-> ts]
join(ts)            == [do |-> "join", threads |-> ts]
condWait            == [do |-> "condWait"]
settle              == [do |-> "settle"]
checkMagic          == [do |-> "checkMagic"]

\* The callback k has counted e, and posts returned one of results, n times together.
check(k, e, results, n) ==
    [do |-> "check", key |-> k, evt |-> e, results |-> results, n |-> n]
\* Counters only grow: reading all of them in one step fails when reading them in turn does.
checkAll(checks) == [do |-> "checkAll", checks |-> checks]

Repeat(n, body) == FlattenSeq([i \in 1 .. n |-> body])
Each(keys, Instruction(_)) == [i \in DOMAIN keys |-> Instruction(keys[i])]

\* The programs of main, T1, T2 and T3.
Threads(m, a, b, c) ==
    [t \in Client |-> CASE t = main -> m [] t = T1 -> a [] t = T2 -> b [] t = T3 -> c]

-----------------------------------------------------------------------------
(* UT_ConlesEVT_State.cxx.                                                   *)

KeepAlive == {"KEEPALIVE"}

\* unsubEVT waits for the callback that is running: MagicValue is 3 afterwards.
State_Case01 == Threads(
    << sub("A", KeepAlive), post("KEEPALIVE", Block, Ok), condWait, unsub("A"),
       checkMagic >>, <<>>, <<>>, <<>>)

\* T1 subscribes and unsubscribes while T2 posts: what returned SUCCESS was counted.
State_Case02_ThreadObjA == Repeat(Rounds, << sub("A", KeepAlive), unsub("A") >>)
State_Case02_ThreadObjB ==
    Repeat(Rounds, << post("KEEPALIVE", Block, {"SUCCESS", "NO_EVT_SUBER"}) >>)
State_Case02 == Threads(
    << start({T1, T2}), join({T1, T2}),
       check("A", "KEEPALIVE", {"NO_EVT_SUBER"}, Rounds) >>,
    State_Case02_ThreadObjA, State_Case02_ThreadObjB, <<>>)

\* Several publishers at once.
State_Case03_ThreadObjB == Repeat(Rounds, << post("KEEPALIVE", Block, Ok) >>)
State_Case03 == Threads(
    << sub("A", KeepAlive), start({T1, T2}), join({T1, T2}), settle,
       check("A", "KEEPALIVE", {}, 2 * Rounds), unsub("A") >>,
    State_Case03_ThreadObjB, State_Case03_ThreadObjB, <<>>)

(* UT_T1_EventConlesMode_Typical.cxx.                                        *)

Typical_Case01 == Threads(
    << sub("A", KeepAlive) >>
       \o Repeat(Rounds, << post("KEEPALIVE", Block, Ok) >>)
       \o << settle, check("A", "KEEPALIVE", {}, Rounds), unsub(ALL) >>
       \o Repeat(Rounds, << post("KEEPALIVE", Block, {"NO_EVT_SUBER"}) >>)
       \o << check("A", "KEEPALIVE", {}, Rounds) >>, <<>>, <<>>, <<>>)

\* Objects A, C and D; C and D acknowledge from their callbacks, which may fill their
\* caches.  The five threads that post KEEPALIVE and MOVE_HORIZONTAL are left out.
Case02_ObjA == KeepAlive \cup {"MOVE_VERTICAL_ACK", "MOVE_HORIZONTAL_ACK",
                               "COLLISION_DETECTED_ACK"}
Case02_ObjC == {"MOVE_VERTICAL", "COLLISION_DETECTED"}
Case02_ObjD == {"MOVE_HORIZONTAL", "COLLISION_DETECTED"}
Typical_Case02 == Threads(
    << sub("A", Case02_ObjA), sub("C", Case02_ObjC), sub("D", Case02_ObjD),
       start({T2, T3}), join({T2, T3}),
       checkAll({
          check("A", "KEEPALIVE", {}, 0), check("A", "MOVE_VERTICAL_ACK", {}, Moves),
          check("A", "MOVE_HORIZONTAL_ACK", {}, 0),
          check("A", "COLLISION_DETECTED_ACK", {}, 2 * Collisions),
          check("C", "MOVE_VERTICAL", {}, Moves), check("C", "COLLISION_DETECTED", {}, Collisions),
          check("D", "MOVE_HORIZONTAL", {}, 0), check("D", "COLLISION_DETECTED", {}, Collisions)}),
       unsub("A"), unsub("C"), unsub("D") >>,
    <<>>,
    Repeat(Moves, << post("MOVE_VERTICAL", Block, Ok) >>),
    Repeat(Collisions, << post("COLLISION_DETECTED", Block, Ok) >>))

\* R1 = 1, R2 = 2 and R3 = 1 posts; unsubEVT itself waits for what was posted.
Typical_Case03 == Threads(
    << sub("A", KeepAlive), sub("B", KeepAlive),
       post("KEEPALIVE", Block, Ok),
       unsub("A"),
       post("KEEPALIVE", Block, Ok), post("KEEPALIVE", Block, Ok),
       unsub("B"),
       post("KEEPALIVE", Block, {"NO_EVT_SUBER"}),
       check("A", "KEEPALIVE", {}, 1), check("B", "KEEPALIVE", {}, 3) >>,
    <<>>, <<>>, <<>>)

(* UT_T1_EventConlesMode_Concurrency.cxx.                                    *)

MayBlock == "MAYBLOCK_SLEEP_1MS"
NonBlock == "NONBLOCK_SLEEP_5MS"
OrTimeout == {"SUCCESS", "TIMEOUT"}

Concurrency_Case01_ThreadObjB == Repeat(Rounds, << post(MayBlock, Block, Ok) >>)
Concurrency_Case01_ThreadObjC ==
    Repeat(Rounds, << post(NonBlock, OptNonBlock, OrTimeout) >>)
Concurrency_Case01 == Threads(
    << sub("A", {MayBlock, NonBlock}), start({T1, T2}), join({T1, T2}), settle,
       check("A", MayBlock, {}, Rounds), check("A", NonBlock, {"TIMEOUT"}, Rounds),
       unsub("A") >>,
    Concurrency_Case01_ThreadObjB, Concurrency_Case01_ThreadObjC, <<>>)

\* Three subscribers stand for the ten of the test.
Objs == << "A", "B", "C" >>
Concurrency_Case02 == Threads(
    Each(Objs, LAMBDA k : sub(k, {MayBlock}))
       \o Repeat(Rounds, << post(MayBlock, Block, Ok) >>) \o << settle >>
       \o Each(Objs, LAMBDA k : check(k, MayBlock, {}, Rounds))
       \o Each(Objs, unsub), <<>>, <<>>, <<>>)

Concurrency_Case03 == Threads(
    Each(Objs, LAMBDA k : sub(k, {NonBlock}))
       \o Repeat(Rounds, << post(NonBlock, OptNonBlock, OrTimeout) >>) \o << settle >>
       \o Each(Objs, LAMBDA k : check(k, NonBlock, {"TIMEOUT"}, Rounds))
       \o Each(Objs, unsub), <<>>, <<>>, <<>>)

(* UT_T1_EventConlesMode_Performance.cxx.                                    *)

Performance_Case01_ThreadObjX == Repeat(Rounds, << post("KEEPALIVE", SyncMode, Ok) >>)
Performance_Case01 == Threads(
    << sub("A", KeepAlive), start({T1, T2}), join({T1, T2}),
       check("A", "KEEPALIVE", {}, 2 * Rounds), unsub("A") >>,
    Performance_Case01_ThreadObjX, Performance_Case01_ThreadObjX, <<>>)

(* The in-file tests, with MaxSuberNum slots instead of one: a subscription  *)
(* too many is refused, and slots come back however often they are used.     *)

InFile_Case01 == Threads(
    [i \in 1 .. MaxSuberNum |-> sub(Objs[i], KeepAlive)]
       \o << subRefused("D", KeepAlive) >>, <<>>, <<>>, <<>>)

InFile_Case02 == Threads(
    Repeat(MaxSuberNum + 1, << sub("A", KeepAlive), unsub("A") >>), <<>>, <<>>, <<>>)

Programs == [
    State_Case01 |-> State_Case01, State_Case02 |-> State_Case02,
    State_Case03 |-> State_Case03, Typical_Case01 |-> Typical_Case01,
    Typical_Case02 |-> Typical_Case02, Typical_Case03 |-> Typical_Case03,
    Concurrency_Case01 |-> Concurrency_Case01,
    Concurrency_Case02 |-> Concurrency_Case02,
    Concurrency_Case03 |-> Concurrency_Case03,
    Performance_Case01 |-> Performance_Case01,
    InFile_Case01 |-> InFile_Case01, InFile_Case02 |-> InFile_Case02 ]

\* The events the callbacks of a test post in return: those of ObjC and ObjD.
Typical_Case02_Replies == [
    C |-> [MOVE_VERTICAL |-> "MOVE_VERTICAL_ACK",
           COLLISION_DETECTED |-> "COLLISION_DETECTED_ACK"],
    D |-> [MOVE_HORIZONTAL |-> "MOVE_HORIZONTAL_ACK",
           COLLISION_DETECTED |-> "COLLISION_DETECTED_ACK"] ]
ReplyTo(k, e) ==
    IF case = "Typical_Case02" /\ k \in DOMAIN Typical_Case02_Replies
    THEN Typical_Case02_Replies[k][e] ELSE None

-----------------------------------------------------------------------------
Program(t)  == Programs[case][t]
Instr(t)    == Program(t)[step[t]]
HasEnded(t) == step[t] = Len(Program(t)) + 1
At(t, do)   == step[t] \in DOMAIN Program(t) /\ Instr(t).do = do

\* The posts the threads of the test that runs will make.
WillPost(m) ==
    \/ PostedBy[m] \in Slot
    \/ \E i \in ToSet(Program(PostedBy[m])) : i.do = "post" /\ i.evt = EvtOf[m]

TestInit ==
    /\ Idle
    /\ case \in Cases
    /\ unposted = {m \in Msg : WillPost(m)}
    /\ step = [t \in Client |-> IF t = main THEN 1 ELSE 0]
    /\ count = [k \in Key |-> [e \in EvtID |-> 0]]
    /\ tally = [e \in EvtID |-> [r \in {"SUCCESS", "TIMEOUT", "NO_EVT_SUBER",
                                        "NOT_FOUND"} |-> 0]]
    /\ asleep = FALSE
    /\ failed = {}

GoOn(t) == step' = [step EXCEPT ![t] = @ + 1]

\* An EXPECT of a thread goes on; an ASSERT of main leaves the test.
Checked(t, missed) ==
    /\ failed' = failed \cup missed
    /\ IF t = main /\ missed # {}
       THEN step' = [step EXCEPT ![t] = Len(Program(t)) + 1] ELSE GoOn(t)

(* The calls: each is the whole of the function, with the arguments of the   *)
(* instruction, on the auto link of ConlesMode.                              *)

PLT_IOC_subEVT(t) ==
    /\ At(t, "sub")
    /\ subEVT(t)
    /\ \A s \in Slot : cbProc'[s] # cbProc[s] =>
          cbProc'[s] = Instr(t).key /\ evtIDs'[s] = Instr(t).ids

PLT_IOC_unsubEVT(t) ==
    /\ At(t, "unsub")
    /\ unsubEVT(t)
    /\ pc[t] = "idle" => target'[t] = Instr(t).key

PLT_IOC_postEVT(t) ==
    /\ At(t, "post")
    /\ postEVT(t)
    /\ pc[t] = "idle" => EvtOf[evt'[t]] = Instr(t).evt /\ opt'[t] = Instr(t).opt

\* What the call returns if its next step is its last.
ResultOf(t) ==
    CASE pc[t] = "sub" ->
           IF curSuberNum < MaxSuberNum /\ \E s \in Slot : IsFree(s)
           THEN "SUCCESS" ELSE "NOT_ENOUGH_RESOURCE"
      [] pc[t] = "lock" ->
           IF CanLock(t) THEN "NOT_FOUND"
           ELSE IF opt[t].wait # "block" THEN "TIMEOUT"
           ELSE IF Len(cache[t]) < EVTCACHED_MAX THEN "SUCCESS"
           ELSE "NOT_ENOUGH_RESOURCE"
      [] pc[t] = "post" -> IF res[t] = None THEN "NO_EVT_SUBER" ELSE res[t]
      [] OTHER -> IF inited THEN "SUCCESS" ELSE "NOT_FOUND"

Missed(t, want) == IF ResultOf(t) \in want THEN {} ELSE {ResultOf(t)}

\* A SYNC callback counts in the thread of the poster.
CountSync(t) ==
    count' = IF pc[t] = "post" /\ pc'[t] = "syncCb"
             THEN [count EXCEPT ![cbProc[idx[t]]][EvtOf[evt[t]]] = @ + 1] ELSE count

Call(t) ==
    /\ PLT_IOC_subEVT(t) \/ PLT_IOC_unsubEVT(t) \/ PLT_IOC_postEVT(t)
    /\ CountSync(t)
    /\ IF pc'[t] = "idle"
       THEN /\ Checked(t, Missed(t, Instr(t).want))
            /\ tally' = IF At(t, "post")
                        THEN [tally EXCEPT ![Instr(t).evt][ResultOf(t)] = @ + 1]
                        ELSE tally
       ELSE UNCHANGED <<step, failed, tally>>
    /\ UNCHANGED <<case, asleep>>

(* The other instructions.                                                   *)

Start(t) ==
    /\ At(t, "start")
    /\ step' = [u \in Client |-> IF u \in Instr(t).threads THEN 1
                                 ELSE IF u = t THEN step[t] + 1 ELSE step[u]]
    /\ UNCHANGED <<vars, case, count, tally, asleep, failed>>

Join(t) ==
    /\ At(t, "join")
    /\ \A u \in Instr(t).threads : HasEnded(u)
    /\ GoOn(t)
    /\ UNCHANGED <<vars, case, count, tally, asleep, failed>>

\* Every callback has run, and every event a callback has posted has arrived.
Settled ==
    \A s \in Slot : queue[s] = <<>> /\ cache[s] = <<>> /\ pc[s] \in {"none", "top", "wait"}

Settle(t) ==
    /\ At(t, "settle")
    /\ Settled
    /\ GoOn(t)
    /\ UNCHANGED <<vars, case, count, tally, asleep, failed>>

CondWait(t) ==
    /\ At(t, "condWait")
    /\ ~asleep
    /\ asleep' = TRUE
    /\ UNCHANGED <<vars, case, step, count, tally, failed>>

\* MagicValue of State_Case01: 2 while the callback runs, 3 once it has returned.
MagicValue ==
    IF count["A"]["KEEPALIVE"] = 0 THEN 1
    ELSE IF \E s \in Slot : InAsyncCb(s) THEN 2 ELSE 3

Counted(i) ==
    i.n = count[i.key][i.evt] + FoldSet(LAMBDA r, n : tally[i.evt][r] + n, 0, i.results)

Holds(i) ==
    CASE i.do = "check"      -> Counted(i)
      [] i.do = "checkAll"   -> \A j \in i.checks : Counted(j)
      [] i.do = "checkMagic" -> MagicValue = 3

Check(t) ==
    /\ \E do \in {"check", "checkAll", "checkMagic"} : At(t, do)
    /\ Checked(t, IF Holds(Instr(t)) THEN {}
                  ELSE IF Settled THEN {"check"} ELSE {"early"})
    /\ UNCHANGED <<vars, case, count, tally, asleep>>

TestThread(t) ==
    Call(t) \/ Start(t) \/ Join(t) \/ Settle(t) \/ CondWait(t) \/ Check(t)

(* The callbacks, in the async threads.                                      *)

\* The callback counts the event; that of State_Case01 wakes main.
CallbackEnters(s) ==
    /\ AsyncTake(s)
    /\ count' = [count EXCEPT ![cbProc[s]][EvtOf[Head(queue[s])]] = @ + 1]
    /\ asleep' = FALSE
    /\ step' = [step EXCEPT ![main] = IF asleep THEN @ + 1 ELSE @]
    /\ UNCHANGED <<case, tally, failed>>

Reply(s) == ReplyTo(cbProc[s], EvtOf[Last(handled[s])])
RepliesDue(s) ==
    Cardinality({i \in DOMAIN handled[s] : ReplyTo(cbProc[s], EvtOf[handled[s][i]]) # None})
OwesReply(s) == Cardinality({m \in Msg \ unposted : PostedBy[m] = s}) < RepliesDue(s)

CallbackReplies(s) ==
    /\ OwesReply(s)
    /\ \E m \in Msg : EvtOf[m] = Reply(s) /\ PostCall(s, m, Block)
    /\ UNCHANGED testVars

\* The steps of the reply's call, and those of the cached loop's calls.
CallbackPosts(s) ==
    /\ pc[s] # "cb"
    /\ postEVT(s)
    /\ failed' = IF ret[s] = "cb" /\ pc'[s] = "cb"
                 THEN failed \cup Missed(s, Ok) ELSE failed
    /\ UNCHANGED <<case, step, count, tally, asleep>>

TestSlot(s) ==
    \/ CallbackEnters(s) \/ CallbackReplies(s) \/ CallbackPosts(s)
    \/ /\ AsyncExit(s) \/ AsyncWait(s) \/ AsyncDrain(s) \/ AsyncDrained(s)
          \/ (~OwesReply(s) /\ AsyncCbReturn(s))
       /\ UNCHANGED testVars

TestNext ==
    \/ \E t \in Client : TestThread(t)
    \/ \E s \in Slot : TestSlot(s)

\* Some thread of the test runs on, and each async thread: the callbacks return.
TestSpec ==
    /\ TestInit
    /\ [][TestNext]_<<vars, testVars>>
    /\ WF_<<vars, testVars>>(\E t \in Client : TestThread(t))
    /\ \A s \in Slot : WF_<<vars, testVars>>(TestSlot(s))

-----------------------------------------------------------------------------
(* Properties.                                                               *)

CallResults == {"SUCCESS", "TIMEOUT", "NO_EVT_SUBER", "NOT_FOUND", "NOT_ENOUGH_RESOURCE"}

(* Every call returns what its test asserts, in each interleaving: above all *)
(* no blocking post of a thread ever fails while its subscriber stays.  It   *)
(* does before the first subEVT of the process, which State_Case02 risks     *)
(* when it runs alone: it gets NOT_FOUND where the test counts NO_EVT_SUBER. *)
(* And a callback's reply does, in Typical_Case02, if it finds the mutex     *)
(* taken and the cache of its thread full: NOT_ENOUGH_RESOURCE.              *)
CallsReturnAsAsserted ==
    failed \cap CallResults \subseteq CASE case = "State_Case02" -> {"NOT_FOUND"}
                                       [] case = "Typical_Case02" -> {"NOT_ENOUGH_RESOURCE"}
                                       [] OTHER -> {}

(* The counters of the callbacks and the results of the posts agree as each  *)
(* test asserts: no event is lost, doubled or given to a callback that did   *)
(* not ask for it, through unsubEVT and through replies that were cached,    *)
(* but for those posts that CallsReturnAsAsserted excepts.  Typical_Case02   *)
(* looks too early besides: the acknowledgements of its callbacks may still  *)
(* be under way when its threads have been joined.                           *)
CountsAsAsserted ==
    /\ "check" \in failed => failed \cap {"NOT_FOUND", "NOT_ENOUGH_RESOURCE"} # {}
    /\ "early" \in failed => case = "Typical_Case02"

(* No two threads are ever inside the callback of one subscription, which    *)
(* counts without a lock: neither two SYNC posts, nor an async thread and    *)
(* the one that takes over its slot (TryLockFailCnt of State_Case03).        *)
InCallbackOf(k) ==
    {s \in Slot : InAsyncCb(s) /\ cbProc[s] = k}
        \cup {t \in Client : pc[t] = "syncCb" /\ cbProc[idx[t]] = k}
CallbackAlone == \A k \in Key : Cardinality(InCallbackOf(k)) <= 1

(* Every test comes to its end: no thread of it is left behind in a call,    *)
(* and no join of unsubEVT, for a callback that replies, waits for ever.     *)
(* Only State_Case01 can hang: main may start to wait for the signal of its  *)
(* callback when the callback has given it.                                  *)
LostSignal == asleep /\ count["A"]["KEEPALIVE"] = 1
TestsEnd == <>((\A t \in Client : HasEnded(t) \/ step[t] = 0) \/ LostSignal)

=============================================================================
