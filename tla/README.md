# A TLA+ model of FreelyCraftCodes' event services

The repository holds two in-process event services written in C/C++, an interface
for a third, a set of base types and a memory tool. This directory models the two
services that run, and their unit tests as programs on top of them:

- **IOC, ConlesMode** (`PlatIF_IOC/_PlatIF_IOC_EventTest.cxx`): subscriptions in a
  table of slots, one asynchronous thread and one queue per subscription, posts that
  block, do not block, time out, or run the callback in the poster's thread.
- **EVT** (`PlatIF_EVT/PlatIF_Event.c`): a publish/subscribe manager with a life
  cycle, tables of publishers and subscribers, one ring of events and one thread,
  the EvtProcer, that calls the subscribers' callbacks.

Paths below are relative to the repository root; `PROJECT.json` maps every
definition to its lines.

## 1. Inventory

| Component | State | Operations | Hard behaviour |
|---|---|---|---|
| IOC subEVT / unsubEVT | `_mConlesEvtCtx`: recursive mutex, `CurSuberNum`, table `pEvtSubers`; a slot's `Args` | subscribe, unsubscribe one / all, stop and join the slot's thread | join under the context mutex; reuse of a slot; failing allocations; a lock that is not given back |
| IOC postEVT | the same, plus the slot's queue (depth 1) and mutex/condition | blocking, non-blocking, timed, SYNC | full queues, partial delivery, polling with the mutex held, signal after unlock |
| IOC ASyncEventThread | `EvtPostCnt`, `EvtProcCnt`, `ShouldExitASyncThread`, the cached queue (4) | take, call back, post cached events again, leave | stop flag against queued events; retries against a busy mutex |
| IOC dispatch | none | PLT_IOC_subEVT / unsubEVT / postEVT | - |
| IOC ConetMode, module init | none / empty files | - | - |
| EVT life cycle | `_mEvtMangerState`, the tables' allocation | init, enable, disable | pthread_cancel of a thread that holds locks, freeing its queue |
| EVT operators | `_mRegedOperObjs` | regOper, unregOper | check and act under different locks, ID reuse |
| EVT tables | PubTable, SubTable | pubEvts, unpubEvts, subEvts, unsubEvts | no lock in pubEvts, one row too many, writers against the scan |
| EVT queue and EvtProcer | the ring `_TOS_EvtQueue_T`, the EvtProcer's scan | postEvtSRT, the thread | ring wrap, a pointer kept past the unlock, NULL and freed queue |
| IOC unit tests | threads and callbacks with their counters | 12 cases | sleeps, unlocked counters, threads against callbacks |
| EVT unit tests | threads, callbacks, semaphores | 5 cases | stages of objects in threads, replies from callbacks |
| PEC, ThinkOS types, Tools | stub / types / tool | - | - |

Interaction: applications call both services from any thread; callbacks run in the
services' threads (or, for SYNC posts, in the poster's) and may call back into the
service. IOC and EVT do not use each other. What makes each part correct:

- subscriptions: a slot is never reused, and a callback never called, after unsubEVT has
  returned; what was queued before is handled before (`FreeSlotIsQuiet`,
  `UnsubDrainsQueue`); the functions exclude each other (`CtxMutexHeld`), give the mutex
  back (`CtxMutexNotLeaked`) and keep the count of subscribers (`SubersCounted`);
- posts: a blocking post that scans the table reaches every subscriber, the order of a
  client's posts is kept, NO_EVT_SUBER is true (`BlockingPostReachesAll`,
  `ClientOrderKept`, `NoSuberIsTrue`); no wakeup is lost (`WakeupNotLost`,
  `QueuedIsTaken`), nobody keeps the mutex, a non-blocking post does not wait
  (`CtxMutexReleased`, `NonBlockReturns`);
- manager: the ring keeps order and loses nothing (`RingKeepsOrder`,
  `QueuedEventLeaves`), nor a wakeup (`WakeupNotLost`), the event under work stays until
  the ring has gone round (`TakenEventKept`), the queue outlives the thread that uses it
  (`QueueOutlivesProcer`); what its users see is one bounded box, emptied oldest first
  by one worker that calls back out of a table that stands still meanwhile
  (`ImplementsEvtBroker`);
- a link as a whole: what its users see is a set of bounded boxes, each handled one
  event at a time (`ImplementsEvtLink`);
- tests: what they assert holds in every interleaving, and they end
  (`CallsReturnAsAsserted`, `CountsAsAsserted`, `EventsAsAsserted`, `NothingLeftBehind`,
  `CallbackAlone`, `TestsEnd`).

`PROJECT.json` lists the hazards of the code at their lines with these properties.

## 2. Plan

| Step | Module | State |
|---|---|---|
| 1 | `ConlesEvent`, the IOC link: all operations, safety, liveness | done |
| 2 | `EvtManger`, the EVT manager: all operations, safety, liveness | done |
| 3 | proofs about `ConlesEvent`: types, mutual exclusion, quiescence, delivery | done |
| 4 | `EvtLink`, an abstract link, and the refinement `ConlesEvent` => `EvtLink`, checked and proved | done |
| 5 | `ConlesTests` and `EvtTests`: the repository's tests composed with the components they drive | done |
| 6 | proof of `ClientOrderKept` | done |
| 7 | proofs about `EvtManger`: types, life cycle, ring order, wakeup | done |
| 8 | `EvtBroker`, an abstract manager, and the refinement `EvtManger` => `EvtBroker`, checked and proved | done |
| 9 | an operator module for event IDs (`TOS_MAKE_EVTID`, class and classmate masks of `PlatIF_EVT/PlatIF_EventID.h`) with the match checked against set membership | later |
| 10 | the 32-bit timeout arithmetic of a timed post | later |
| 11 | subEVT and unsubEVT called from callbacks; posts from a SYNC callback (nested calls need a stack per thread) | later |
| 12 | the tests' assertions as theorems, from an invariant of what their programs have in common | done, but for `Typical_Case02` (section 7) |

`ConlesEvent` and `EvtManger` are independent components of the repository, so no
module composes them; each is composed with its tests. The modules to prove about
declare no RECURSIVE operator.

## 3. `ConlesEvent`: the ConlesMode link

State. `inited` is `pEvtSubers # NULL`; `ctxOwner`, `ctxDepth` the recursive mutex;
`curSuberNum` the count modulo 2^w of `ULONG_T`; `cbProc`, `evtIDs` the `Args` of the
slots; `queue` is `EvtDescQueue` between `EvtProcCnt` and `EvtPostCnt`, `cache` the
cached queue; `shouldExit` the stop flag. `pc` says where a thread is; a slot whose
thread does not exist is at "none". `ret`, `evt`, `opt`, `idx`, `res` are the locals of
a running postEVT or unsubEVT. `accepted` and `handled` are history: what has been
queued for the present subscription, and what its thread has given to the callback.

Atomicity. The context mutex is held across calls that block, so its lock and unlock
are visible steps. A slot's mutex protects short sections that never block: each is
one action. `pthread_cond_signal` is called after the unlock and is therefore a step
of its own (`PostSignal`, `UnsubSignal`), and a waiting thread may wake up without a
signal. `pthread_join` is enabled once the thread has left its loop. subEVT after its
lock is one action, since it writes only a free slot nobody else looks at without the
mutex. unsubEVT reads the slot's thread ID, stops, signals, joins and clears in
separate steps.

Actions follow the functions: `subEVT`, `unsubEVT`, `postEVT` and `ASyncEventThread`
are disjunctions of their paths, named after what happens. The failing malloc of
subEVT leaves a slot that is used and not counted (`SubMallocFails`); the count can
then say there is room where no slot is free, and subEVT locks the mutex a second time
instead of unlocking it (`SubNoFreeSlot`): the model has both. abort() is the state in
which every thread is "dead".

`BlockingPostReachesAll` is about posts that scan the table, in the caller or in a retry
of the cached loop. A callback's post that finds the context mutex taken is cached (line
386) and returns SUCCESS before any subscriber has got its event; it promises a retry
and no more.

A subscription has a callback: a `Key` is never `None`. subEVT and unsubEVT do not check
it, and an unsubEVT with a NULL CbProcEvt_F, which no caller in the repository makes,
would find a free slot (line 180) and count down. A SYNC post returns what the callback
does (line 420); the callbacks of the model return SUCCESS.

Bounds (constants of the module): `MaxFaults` failing allocations, `MaxDepth` nested
locks of the mutex, `MaxAccepted` events queued for a subscription (a cached event can be
retried for ever), and the finite set `Msg` of posts. They only restrict how long a
behaviour the runs follow; the theorems hold for all their values.

| Run | Instance | Shows |
|---|---|---|
| `ioc_clients` | 2 clients, 2 slots, 3 posts to overlapping subscriptions, blocking / non-blocking / SYNC | safety of sub, unsub and post against each other, the count, the mutex given back, and somebody can always go on; 556,000 states |
| `ioc_callbacks` | 2 slots, a client's post and two posts of a callback, blocking and timed, one fault, lock depth 3, cache of 1 | the cached path, aborts, the lock leak, counter wrap, wakeups by posts of callbacks; may stop (abort, leaked lock) |
| `ioc_live` | 2 clients, 2 posts, callbacks may hang | non-blocking posts return; if callbacks return, no wakeup is lost and the mutex is always given back |
| `ioc_sync`, `ioc_unsub` | as above | two disagreements with documents and tests, section 8 |

Two slots and two clients are enough for every pair of calls to meet, with a third
thread (a slot's) between them; the queue has the code's depth 1, so that full queues
are common; two slots that match the same event give partial delivery. The cache is 1
instead of 4, so that it overflows.

Fairness. Weak fairness of "a thread inside a call takes its next step" is what a
preemptive scheduler gives (`HungSpec`); a call that waits for the context mutex has no
strong fairness, since POSIX promises no order. That callbacks return is up to the
application: the properties of `ioc_live` that need it have it as a premise
(`CallbacksReturn`), and `NonBlockReturns` does without. `FairSpec` has both. No call
has to be made, and no spurious wakeup has to happen.

Refinement. `EvtLink` is what a user of a link sees: subscriptions that open and close,
each with a box of at most `Room` events and the threads inside its callback. An event
goes only to a subscription that wants it, a slot's thread handles the oldest event and
one at a time, and a subscription opens with nothing left in it and closes when it is
empty and nobody is inside. `ConlesEvent` maps to it with `Room` the queue depth, `open`
the slots with a `CbProcEvt_F`, `ids` their `EvtIDs`, `box` their queue and `busy` the
threads in their callback, a thread that posts from its callback included; the locks,
the scan, the cache and the retries are steps that change nothing. Both safety runs
check `ImplementsEvtLink`; section 7 is about its proof.

## 4. `EvtManger`: the EVT manager

State. `mgrState` with `stateOwner`, the client inside disable, which holds the state
lock across the join; `opers`, `pubTable` (with the cell behind it, which the code's
loop reaches), `subTable`, and `leaked`: the read lock a cancelled EvtProcer leaves
behind; `procQueue` the address of the queue; `buf`, `num`, `head`, `tail`, `seqID` the
ring; `row`, `nth` the EvtProcer's scan and `cur` the cell its `pEvtDesc` points to,
which is read when the callback runs. `pQueue` is the address a poster has read without
a lock.

`initEvtManger`, `enableEvtManger`, `unregOper`, `unpubEvts` are one section under a
lock, one action; `regOper`, `subEvts`, `postEvtSRT` check under one lock and act under
another, two actions; `pubEvts` takes no lock and has its scan and its store apart;
disable cancels, then joins. The EvtProcer can be cancelled in `pthread_cond_wait`
(which takes the queue's mutex back: nobody can use the queue any more) and in a
callback that contains a cancellation point. Use of a NULL queue ends the process; use
of a freed one, by its mutex or, if disable comes between the unlock and the signal, by its
condition, ends it, has no effect, or never returns.

Two simplifications to know of. pubEvts publishes its row zeroed and fills it in the
next statements (lines 279 to 289); the model does both at once. In between, an
unpubEvts of the operator with ID 0 could take the row for its own. And `ProcLock` gets
the read lock whenever no writer has it, as glibc's default rwlock, which prefers
readers, gives it: with one that prefers writers, a read lock left behind (`evt_unsub`)
would stop the EvtProcer of the next enable too, as soon as an unsubEvts waits.

Refinement. `EvtBroker` is what the users of the manager see: a table of subscriptions,
one box of at most `Room` events, and one worker. The worker takes the oldest event and
then calls back subscriptions of the table, one at a time, while no subscription comes
or goes; the box opens empty and is discarded only after its worker has ended.
`EvtManger` maps to it with `Room` the depth of the ring, `box` the `num` cells from
`head` on (`InQueue`), `subs` the SubTable, `worker` the place of the EvtProcer, `called`
the row whose callback runs, and `mode` from the queue's address and the pending
cancellation. It does not see the operators, the PubTable, the state lock, the leaked read
lock, the condition and the scan by rows and IDs. The abstract worker does not
say which event its callbacks get: the code passes a pointer into the ring, whose cell a
later post can overwrite (`evt_overwrite`), so a broker that promised the event taken
would not be implemented. Which row is called for which event is the match of
`ProcCall`, and is left to the runs of the tests (`EventsAsAsserted`).

The run `evt_all` has one managing client, one client that posts three events and a
callback that posts a fourth, a ring of 2, so that it fills and wraps, one operator and
two subscriber rows, each with two IDs that match the same event. It checks the safety
properties, the wakeup of the EvtProcer (as an invariant and as liveness) and
`ImplementsEvtBroker`, of which the SubTable under the scan is part (228,000 states). It
assumes that threads inside calls run on and callbacks return; it may stop, because the
process may have ended. With one managing client the calls that change tables do not run
against each other (they are serialised by locks except pubEvts); they run against the
posts, the scan and the callbacks. `evt_tests` has them run against each other. The runs
`evt_overwrite`, `evt_pubfull` and `evt_unsub` are disagreements, section 8.

## 5. `ConlesTests`: the tests of the ConlesMode link

A test is a record of programs, one per thread, and the replies of its callbacks; a
program is a sequence of instructions (`sub`, `unsub`, `post`, `start`, `join`, `check`
...), each with the results the test asserts. `TestNext` runs the programs on the actions
of `ConlesEvent`: an instruction that calls takes all steps of the function, with the
instruction's arguments, so every interleaving of the threads of the test, the
callbacks and the async threads is followed. `count` holds the counters of the
callbacks, `tally` those of the posters, `failed` what did not come out as asserted. A
failing ASSERT of main ends the test.

| Source | Cases | What is reduced |
|---|---|---|
| `UT_ConlesEVT_State.cxx` | `State_Case01` to `03` | loops to 3 rounds |
| `UT_T1_EventConlesMode_Typical.cxx` | `Typical_Case01` to `03` | loops to 3 or fewer rounds; Case02 with one MOVE_VERTICAL and one COLLISION_DETECTED (`Moves`, `Collisions`), and without the five of its seven threads that post KEEPALIVE and MOVE_HORIZONTAL |
| `UT_T1_EventConlesMode_Concurrency.cxx` | `Concurrency_Case01` to `03` | 3 rounds; 3 subscribers stand for ten |
| `UT_T1_EventConlesMode_Performance.cxx` | `Performance_Case01` | 2 threads, 3 rounds; the measured times |
| in `_PlatIF_IOC_EventTest.cxx` | `InFile_Case01`, `02` | the slot table has 3 rows |

Three rounds fill the queue of depth 1, which is the code's, and overtake it; three
slots are more than a test needs but the refused one. The cache has one place instead of
four: only the callbacks of `Typical_Case02` reply, with two replies of one callback in
the run and thousands in the test, so that a reply finds the mutex taken and the cache
full, as it can there. A sleep that a test takes to be long enough is `settle`, which
waits until all is quiet. Where a test checks without such a sleep, so does its program:
this is how `CallsReturnAsAsserted`, `CountsAsAsserted` and `TestsEnd` come to name the
places where a test depends on timing. They except these, they do not show them:

- `State_Case01` waits on a condition without a predicate; the callback can signal
  before (UT_ConlesEVT_State.cxx:59), and main waits for ever;
- in `State_Case02` a post before the first subEVT of the process returns NOT_FOUND,
  which the test counts as an error (line 144); after another test in the same process
  it does not;
- `Typical_Case02` reads counters after the posting threads have been joined, while
  replies may still be under way (UT_T1_EventConlesMode_Typical.cxx:311); the sleep of a
  second stands before the joins, where it orders nothing but usually hides it;
- in `Typical_Case02` a reply can find the mutex taken and the cache full. It gets
  NOT_ENOUGH_RESOURCE, where the callback asserts SUCCESS
  (UT_T1_EventConlesMode_Typical.cxx:139, 149, 171, 180), its event is lost, and the
  counters never come to agree (section 8).

Everything else holds in `ioc_tests` for eleven of the twelve cases; `ioc_nonblock` runs the
twelfth, `Concurrency_Case03`, whose assertion fails. Fairness (`TestSpec`): some
thread of the test runs on, and so does each async thread; its callbacks return, since
the tests' callbacks do. Nothing is assumed of which thread gets the mutex. A run is one
process that executes one case from the start.

## 6. `EvtTests`: the tests of the EVT manager

The same for `UT_T1_PubSubEvt_Typical.cxx` and for the one case the main of
`PlatIF_EVT_UT_useCmocka` runs (its cases 02 and 03 are commented out there), which is
also the one of `PlatIF_EVT_UT_useCriterion`. The state adds the semaphores, with which
a callback tells its test that it has got everything and with which main leads the
objects of Case04 through their stages. A call that is refused before it changes
anything takes no step in `EvtManger`; a test that makes one does not end, and
`TestsEnd` shows that there is none.

The tests post 1000 events and more in a loop, to a queue of 256 cells
(UT_T1_PubSubEvt_Typical.cxx:60) or, in the C tests, of the default 32
(PlatIF_Event.c:146). That it does not fill rests on the sleep after each post: 1 ms
(line 175 and every other loop), 10 ms in cmocka's test. Nothing in the code makes an
EvtProcer that is starved for longer catch up; posts are then refused
(PlatIF_Event.c:417), their events lost, and the test waits for a count that never
comes. So the pacing is an assumption of the model, as `settle` is: a thread posts only
when `KeepsUp` holds, that is when with its event one place of the queue is still free
for a reply. All properties of `evt_tests` are about such behaviours. The callbacks of
Case03 and Case04 reply without any sleep, from the EvtProcer itself; their posts are
not restricted, and that these never find the queue full is shown and not assumed.

`evt_tests` runs all five cases: `Rounds` = 4 events per loop; Case04 with `ObjRounds` =
1 and the objects {A, B} and {A, D, E} of its five, so that an object that commands, one
that moves and acknowledges, and the one that collects are there (B and C have the
programs of E and D with other events); the tables have room for all that a case
registers and little more, so that an operator lost is missed. `Depth` = 3 is less than
the events of each case but the one with {A, B} (4 to 8), so that the ring wraps, up to
twice and more, and a reply may take its last free place (195,000 states). Two objects
prepare and leave concurrently; three (`MaxRacing` = 2) do so one after the other, since
the order only permutes their IDs and rows. While the EvtProcer skips rows it reads what
nobody else can change, and `Skips` lets it go ahead of the others; no property can
tell, because nothing is observable in between. The callbacks contain no cancellation
point, so disable ends the EvtProcer in its wait. Fairness: some thread of the test runs
on, and so does the EvtProcer.

What the run shows beyond a run of the tests: the calls of several objects race for
the operators and rows in every order, disable comes at every place the semaphores leave
it, and still each callback gets each event once and in order and the tables are empty
afterwards.

## 7. Proofs

For all values of the constants that satisfy `ConlesAssumption` (the members of the sets
are distinct from `None`, clients are not slots, events are numbers, the bounds are
numbers, `ULONG_MOD` exceeds the number of slots):

| Theorem | Module | Statement |
|---|---|---|
| `TypeCorrect` | `ConlesEventProofs` | `Spec => []TypeOK` |
| `MutualExclusion` | `ConlesEventProofs` | `Spec => []CtxMutexHeld` |
| `MutexNotLeaked` | `ConlesEventProofs` | `Spec => []CtxMutexNotLeaked` |
| `CountCorrect` | `ConlesEventProofs` | `Spec => []SubersCounted` |
| `WakeupsKept` | `ConlesEventProofs` | `Spec => []WakeupNotLost` |
| `UnsubQuiesces` | `ConlesEventProofs` | `Spec => []FreeSlotIsQuiet` |
| `NoSuberCorrect` | `ConlesEventProofs` | `Spec => []NoSuberIsTrue` |
| `BlockingPostDelivers` | `ConlesEventProofs` | `Spec => []BlockingPostReachesAll` |
| `UnsubDelivers` | `ConlesEventProofs` | `Spec => UnsubDrainsQueue` |
| `OrderCorrect` | `ConlesEventLink` | `Spec => []ClientOrderKept` |
| `LinkImplemented` | `ConlesEventLink` | `Spec => ImplementsEvtLink` |

For all that satisfy `EvtMangerAssumption` (the tables and the ring have at least one
cell, the EvtProcer is not a client, events are numbers, `None` is no thread, address,
number, row of the SubTable or cell of the ring):

| Theorem | Module | Statement |
|---|---|---|
| `TypeCorrect` | `EvtMangerProofs` | `Spec => []TypeOK` |
| `RingOrder` | `EvtMangerProofs` | `Spec => []RingKeepsOrder` |
| `TakenEvent` | `EvtMangerProofs` | `Spec => []TakenEventKept` |
| `NoWakeupLost` | `EvtMangerProofs` | `Spec => []WakeupNotLost` |
| `Outlives` | `EvtMangerProofs` | `Spec => []QueueOutlivesProcer` |
| `BrokerImplemented` | `EvtMangerProofs` | `Spec => ImplementsEvtBroker` |

So every safety property of the two components that a run checks is also proved; the run
shows it on a small instance, the theorem for every number of clients, slots, rows, cells
and events.

For the tests, the constants are the size of the tables, the queues and the caches, the
rounds of the loops and the events; the programs are those of `ConlesTests` and
`EvtTests`. Besides the assumptions above and those of the two modules, the theorems use
that the threads of a test are distinct and what its programs have in common,
`ProgramsAssumption`, and for the counts `CountsAssumption` and `EventsAssumption`. TLC
evaluates them in `ioc_tests`, `ioc_nonblock` and `evt_tests`, for the constants of
these runs (those of the IOC tests also for 1 and 5 rounds). None of them bounds the
number of events by the size of a queue. The theorems on the EVT tests have the pacing
`KeepsUp` in `TestSpec` (section 6); `EvtCallsReturn` and `EventsCorrect` need it:

| Theorem | Module | Statement |
|---|---|---|
| `TestsKeepLinkSafe` | `ConlesTestsProofs` | `TestSpec => []IInv` |
| `TestsKeepLinkOrder` | `ConlesTestsProofs` | `TestSpec => []ClientOrderKept` |
| `TestsUseLink` | `ConlesTestsProofs` | `TestSpec => ImplementsEvtLink` |
| `TestCallsReturn` | `ConlesTestsProofs` | `TestSpec => [](case # "Typical_Case02" => CallsReturnAsAsserted)` |
| `CallbackExclusive` | `ConlesTestsProofs` | `TestSpec => []CallbackAlone` |
| `TestCountsAgree` | `ConlesTestsCounts` | `TestSpec => [](case \notin {"Typical_Case02", "Concurrency_Case03"} => CountsAsAsserted)` |
| `TestsKeepMangerSafe` | `EvtTestsProofs` | `TestSpec => []IInv` |
| `TestsUseBroker` | `EvtTestsProofs` | `TestSpec => ImplementsEvtBroker` |
| `NothingLeft` | `EvtTestsProofs` | `TestSpec => []NothingLeftBehind` |
| `EvtCallsReturn` | `EvtTestsEvents` | `TestSpec => []CallsReturnAsAsserted` |
| `EventsCorrect` | `EvtTestsEvents` | `TestSpec => []EventsAsAsserted` |

The modules:

- `ConlesEventInv`: the inductive invariants `IInv` and `OrderInv` and their parts;
- `ConlesEventSteps`: lemmas on sequences, locks and the shape of the larger actions,
  and the step lemmas for the types and the other parts of the invariant;
- `ConlesEventProofs`: `IInv` is inductive, and the theorems it gives;
- `ConlesEventLink`: `OrderInv` is inductive, the order of a client's events, and the
  refinement of `EvtLink`;
- `EvtMangerInv`: the inductive invariant `IInv` of the manager;
- `EvtMangerProofs`: lemmas on which actions change what and on the arithmetic of the
  ring, the step lemmas, the theorems, and the refinement of `EvtBroker`;
- `ConlesTestsInv`, `EvtTestsInv`: the shape of the programs, and the inductive
  invariants of the tests;
- `ConlesTestsProofs`, `EvtTestsProofs`: that a test keeps the invariants of its
  component and `TestInv`, and the theorems on calls, callbacks and what is left;
- `ConlesTestsCounts`, `EvtTestsEvents`: that `CountsInv` and `EventsInv` are inductive,
  so that each event is counted once and, in the EVT tests, each post finds room.

### The link

None of the properties is inductive. `IInv` adds:

- `FrameInv`: what the locals hold at each place (a scanning thread has an event,
  options and a place to return to; a thread that signals points to a slot);
- `DrainInv`: a thread that retries a cached event still has it in its cache;
- `LifeInv`: what a slot's thread leaves behind at each place, above all that it ends
  only when stopped, with both queues empty;
- `StopInv`: the stop flag is set only while unsubEVT is at this slot, or on a slot
  that is already free or half free;
- `HistInv`: `accepted = handled \o queue` for every slot;
- `SignalInv`, `ReachInv`: a post that signals has queued its event at that slot, and a
  blocking post has done so at every matching slot behind it;
- `CountInv`: while no malloc has failed, a slot has a callback exactly if it has event
  IDs, and the count is that of the occupied slots; unsubEVT(NULL), which sets the count
  last (`ClearsAll`), has freed the slots behind it.

The argument for `FreeSlotIsQuiet`, the heart of it: a slot becomes free only in
`UnsubClear` and `UnsubJoin`; there its thread has not started or has ended, and by
`LifeInv` both its queues are empty; while it is free, a post skips it, and nobody
starts its thread. `LifeInv` holds for a thread that ends because it tests the stop flag
and the queue together and because it empties its cache before it goes back to the top
(the cached loop ends with a nonempty cache only if the queue is nonempty). Posts cannot
fill the queue of a slot between the join and the clearing, since unsubEVT holds the
context mutex: `CtxMutexHeld`, which in turn needs `FrameInv`. `UnsubDrainsQueue`
follows from `HistInv` and an empty queue at the moment the slot is given back.
`BlockingPostReachesAll` and `NoSuberIsTrue` need that the table does not change under a
scan, again from `CtxMutexHeld`.

`WakeupNotLost` is inductive with these: the enqueue of a post and the flag of unsubEVT
leave their thread at the signal, and a thread goes to wait only if it has seen neither.
`CtxMutexNotLeaked` and `CountInv` need each other: subEVT locks once too often only if it
finds no free slot although the count has room, which the count excludes; and the count is
changed only by who owns the mutex.

`ClientOrderKept` says that a client's events stand in each slot in the order of its
calls. It is not inductive with `IInv`, because nothing there relates an event that is
being posted to those posted before. `OrderInv` adds:

- `PosterInv`: the event of a running post belongs to the thread that posts it, and a
  cached event to the slot whose callback posted it. So a retry, which may come late and
  twice, never adds an event of a client;
- `AheadInv`: while the scan of a client's post has a slot still ahead of it, all of this
  client's events there are older than the one it posts; and the events it has not
  begun to post are newer than all of them. An event is put into a slot when the scan is
  at the slot (it is the newest there), and from then on the scan is past it: it does not
  come back, since the table index only grows within a post.

The refinement takes each action under `IInv` to the abstract action it is: subEVT to
`Open` (`SubOpens`; the slot is quiet by `FreeSlotIsQuiet`, and no SYNC post is at it,
since subEVT owns the mutex), unsubEVT to `Close` (`UnsubCloses`), an enqueue to
`Deliver` (the bound is the guard, the match is that of the scan), the async thread to
`Handle` and `Return`, a SYNC post to `SyncCall`, abort to `Abort`. `Unseen` is the
lemma for all the others.

### The manager

`IInv` of `EvtMangerInv` consists of `TypeOK`, `QueueOutlivesProcer` and:

- `PlaceInv`: clients and the EvtProcer each stay in their own code, and a crash ends
  all of them at once. `TypeOK` alone would allow a client at a place of the EvtProcer,
  whose steps it could then disturb;
- `FrameInv`: a running post has its event, a running call its operator, and a pubEvts
  about to store the row it has found;
- `CallbackInv`: a running callback belongs to a row that is subscribed, at one of its IDs;
- `DisableInv`: the client that waits in disable holds the state lock, the manager is
  RUNNING and the cancellation pending. It is what makes the free of `DisableJoin` the
  last step of the queue: no second disable and no enable can come between;
- `RingInv`: `tail` is `num` cells behind `head`, modulo the depth, and `RingKeepsOrder`;
- `TakenInv`: the cell the EvtProcer works on is the one before `head`, and holds the event
  taken unless the ring is full: that cell is then the last one a post has written.

`QueueOutlivesProcer` holds because only `DisableJoin` frees the queue, and it waits for
the EvtProcer to end; enable makes the queue before its thread. That the callback's row
is still there when it returns (`CallbackInv`) is a matter of the read lock: the write
of subEvts and unsubEvts needs `CanWriteSubTable`, which is false there.
`RingKeepsOrder` needs arithmetic modulo the depth, of which the prover knows little:
`Wrap` computes the remainder of numbers below twice the depth, the only ones that
occur, and `CellAfterTake`, `CellBehindTail` and `CellsDistinct` say with it that taking
moves every other event one place forward, that the cell a post writes is the one behind
the last event, and that it is none of those that hold one, which is where the guard of
postEvtSRT against a full ring comes in.

The refinement: enable is `Open`, disable `Shut` and `Close`, subEvts and unsubEvts are
`Subscribe` and `Unsubscribe` (not while the worker calls, by the read lock), a post is
`Put` (`PostAppends`), the EvtProcer's steps are `Take` (`TakeRemovesHead`),
`StartCalling`, `Call`, `Return`, `AllCalled` and, when it is cancelled, `End`; a post to a
NULL or a freed queue may be `Crash`. A queue with unprocessed events is dropped in `Close`
only. The two lemmas on `InQueue` turn the cells of the ring into a sequence, from
`RingInv`. `Unseen` is again the lemma for all other steps.

TLC has checked every invariant above as an invariant of a run before it was proved:
`IInv` and `OrderInv` of the link on the two safety instances, `IInv` of the manager on
that of `evt_all` and on one with two managing clients and two addresses for the queue
(2.3 million states). Each step lemma has one step per action, or per group of actions a
shape lemma (`MgrSteps`, `RingSteps`, ...) sets apart.

### The tests

A theorem about a test must not follow its threads instruction by instruction, or it would
hold for one number of rounds only. `ProgramsAssumption` says what the programs
have in common, as far as one sees it without running them: which thread starts and joins
which; that a subscriber unsubscribes what it has subscribed, and fits into the table;
that a post of the IOC tests wants SUCCESS alone only where something subscribes its event
all the time; that a post of the EVT tests lies between enable and disable, by order in
its program, by start and join, or by a semaphore that is given or taken. `TestInv` ties
this to the state:

- IOC: a thread is inside the call that is its instruction (`PlaceInv`), runs between its
  start and its join (`ThreadsInv`), the slots hold what the subscriber's program has
  subscribed and not unsubscribed (`SlotsInv`), and a post's result so far is one of
  those it can have (`ResultInv`, `ModeInv`). So a subEVT finds the slot it asks for, and
  a post its subscriber; a refused subscription is refused, because the table is full, and
  not because the lock or the count is wrong (`IInv` of the link). `CallbackAlone` holds
  because a key has one slot, whose thread has ended before another has the key, and
  because SYNC and other posts do not meet in a test;
- EVT: a semaphore that was taken was given, so who waits for it is behind who gives it
  (`ThreadsInv`); the queue is there exactly between enable and disable (`RunsInv`); each
  registered operator, and each row, belongs to an operator of the program that has done
  this and not undone it (`OperInv`, `PubInv`, `SubInv`), so the tables have room while
  objects race for them; and a thread posts events of its own, each once (`PosterInv`).

`CountsInv` does the accounting of the IOC tests. Each check of a test is about one
callback and one event (`Claim`), and `Balanced` says of it: what the callback has
counted, what is queued for it, and the results that the check counts as well add up to the
posts that have returned (`Returned`) and those under way that have come to the callback's
slot (`Reached`). A step moves a post from one of these to another: an enqueue makes it both
`Reached` and queued, a return takes it from `Reached` to `Returned`, the async thread
from the queue to the count. That no post is missed needs `DeliveryInv`: what a
post has found so far, it has found at a slot that matches its event, and there was room for
it; that a blocking post does not return before it has come to the callback is
`ReachInv` of the link, and that a slot which is given back takes no event with it is
`LifeInv`. `CountsAssumption` says of the programs that a check is well made. The
callback's subscription gets the posts from the beginning of a call to its end or does
not get them at all; or the check counts the one other result that the posts may have
(`CountsOneWay`). When it is made nothing is on its way, because main has settled
(`SettledInv`), has unsubscribed the callback, or posts SYNC only; and it expects the
number of posts made by then (`IsChecked`, with `StartedInv`). `FailedInv` draws the
conclusion: no check fails, but for those of `State_Case02` after a post before the first
subEVT, which `CountsAsAsserted` excepts.

`EventsInv` follows each event of an EVT test: to be posted, about to enter, in the
ring, with the EvtProcer; it is at one of these places only (`PlacesInv`), and those of
one sender are so in their order (`LateInv`). While the manager is up, the rows are
those of the subscriptions (`TableInv`), and for each row and event ID the count of the
callback and the events on the way, the one in the EvtProcer's hands included as long as
its scan has not passed the row, add up to the events of the test (`CountInv`,
`Accounted`). `ToldInv` is what makes disable safe: who has waited for a callback to
tell that it has got all its events can rely on its counts, and `EventsAssumption` says
that somebody has waited so for every event before main disables the manager. So disable
cancels the EvtProcer only when no callback is left to be made, and when operators check
their counts, nothing is on its way to them. `LoadInv` is what keeps the queue from
filling. The load is what is queued, in the hands of the EvtProcer, or about to be
queued by a thread (`OnTheWay`); a thread's post leaves it below `Depth`, by `KeepsUp`.
A reply adds one event without taking one away, so the load may reach `Depth`, and a
second reply to the same event would go beyond. There is none: one callback at most
answers an event (`OneAnswers`, of the programs), it does so once (`replied`), and
`AnswerDue`, which holds from the moment the EvtProcer takes such an event until its
answer is in the queue, keeps the place free: no other thread's post takes it, and the
next event is taken only when the one in hand has gone and given back its place. The
cell under a callback is not overwritten for the same reason: the load counts it.
`EventsAssumption` also asks that a subscription matches the events it names and no
others, which is where the class and classmate masks of the EvtIDs enter.

TLC has checked `TestInv` in all cases of `ioc_tests`, `ioc_nonblock` and `evt_tests`,
`CountsInv` in the cases of `ioc_tests` (with 2 rounds) and `EventsInv` in those of
`evt_tests`, on these or smaller instances before they were proved.

### Only model-checked

- The liveness properties `QueuedIsTaken`, `CtxMutexReleased`, `NonBlockReturns`,
  `QueuedEventLeaves` and `TestsEnd`: the prover has no rules for fairness and ENABLED.
- `CountsAsAsserted` and `CallsReturnAsAsserted` of `Typical_Case02` in `ConlesTests`,
  that is that nothing worse happens there than section 5 says: its callbacks reply, and
  the replies may be cached, retried and refused, whose accounting is not done.
  (`Concurrency_Case03` is not in `ioc_tests`; its assertion fails, section 8, no. 1.)

## 8. Disagreements found while modelling

Six runs show the code doing something else than a document or test of the repository
says; `PROJECT.json` quotes both sides.

1. A non-blocking post to several subscribers is neither all nor nothing, and its result
   is that of the last subscriber (`ioc_nonblock`).
2. A SYNC post runs a callback that its async thread may be running (`ioc_sync`).
3. unsubEVT can stay blocked for ever after the callback has returned, if the callback
   has posted meanwhile (`ioc_unsub`).
4. The EvtProcer's callback can see its event replaced by a newer one (`evt_overwrite`).
5. pubEvts goes one cell beyond its table (`evt_pubfull`).
6. After disable during a callback, unsubEvts can block for ever (`evt_unsub`).

The tests depend on timing besides, which no run of its own shows: the callbacks of
`Typical_Case02` assert SUCCESS of replies that a full cache refuses, which `ioc_tests`
reaches and excepts (section 5; the comment at _PlatIF_IOC_EventTest.cxx:334 knows that
the test comes there); and the EVT tests fail, or wait for ever, when the EvtProcer does
not keep up with their posts, which the model assumes it does (section 6).

Three more need no run, a single call shows them: a timed post to a full queue aborts the
process (`PostFullTimeout`), where PlatIF_IOC.h:357 promises TIMEOUT; a post before enable
uses a NULL queue (`PostNull`); and SeqID counts the posts to the queue
(PlatIF_Event.c:424), where PlatIF_EventTypes.h:37 says "PerEvtPuber". `seqID` is this
count, of which the code keeps 32 bits; nothing in the manager reads it.

## 9. Not modelled

- IOC: the LinkIDs other than the auto link (refused, no state), ConetMode and module
  functions (empty files and stubs), subEVT and unsubEVT from callbacks, nested posts
  from SYNC callbacks, the length of timeouts, the results of failing mutex calls.
- EVT: failing allocations (no change of state), a failing pthread_create (its result is
  ignored and the thread ID undefined), the construction of IDs, postEvtHRT (declared
  only), deinitEvtManger (its body is empty, PlatIF_Event.c:562).
- Tests: times and thread counts as said in sections 5 and 6; a failing sem_open; the
  value a named semaphore keeps when a run is aborted; the cmocka cases 02 and 03; the
  files that hold templates or an empty main only.
- PEC (a server stub behind a header), ThinkOS types and other headers of declarations,
  `tos-ebedmemstat.c` (sequential parsing of /proc and printing): no state that several
  steps or threads share.
