---------------------------- MODULE EvtTestsProofs ----------------------------
(* The tests run the manager as EvtManger describes it, so all that is       *)
(* proved of the manager holds in each of them.  Beyond that, TestInv is     *)
(* shown to be inductive, part by part: threads keep in step, so posts fall  *)
(* between enable and disable; and operators own what they have registered,  *)
(* published and subscribed, so the tables have room.  Hence a test leaves   *)
(* nothing behind.                                                           *)
EXTENDS EvtTestsInv, EvtMangerProofs, FiniteSetTheorems

USE DEF vars, mgrVars, psVars, ringVars, scanVars, callVars, testVars

-----------------------------------------------------------------------------
(* The steps of the tests are steps of the manager.                          *)

(* A call of a thread is a step of the manager, or none.                     *)
LEMMA CallRunsManger ==
    ASSUME IInv, NEW t \in Client, PLT_EVT(t)
    PROVE  [Next]_vars
<1>1. t \in Thread /\ opers \subseteq OperID
  BY Types DEF Thread, PSType
<1>2. CASE \/ At(t, "init") \/ At(t, "enable") \/ At(t, "disable")
  BY <1>2 DEF PLT_EVT, At, Next
<1>3. CASE At(t, "reg") \/ At(t, "unreg")
  BY <1>1, <1>3, Zenon DEF PLT_EVT, At, Next, unregOper
<1>4. CASE At(t, "pub") \/ At(t, "sub")
  BY <1>1, <1>4, Zenon DEF PLT_EVT, At, Next, PubCheck, SubCheck, isRegedOperID
<1>5. CASE At(t, "post")
  BY <1>1, <1>5 DEF PLT_EVT, At, Next, postEvtSRT
<1>6. CASE At(t, "unpub")
  <2>1. unpubEvts(t, ID(t)) \/ UNCHANGED vars
    BY <1>6 DEF PLT_EVT, At
  <2>2. ASSUME unpubEvts(t, ID(t)), ID(t) \notin OperID PROVE UNCHANGED vars
    <3>1. PICK r \in PubRow : pubTable[r] = ID(t) /\ pubTable' = [pubTable EXCEPT ![r] = None]
      BY <2>2 DEF unpubEvts, IsFirst
    <3>2. pubTable \in [PubRow -> OperID \cup {None}]
      BY Types DEF PSType
    <3>3. pubTable' = pubTable
      BY <2>2, <3>1, <3>2
    <3> QED
      BY <2>2, <3>3 DEF unpubEvts
  <2>3. ASSUME NEW o \in OperID, unpubEvts(t, o) PROVE Next
    BY <2>3, Zenon DEF Next
  <2> QED
    BY <2>1, <2>2, <2>3
<1>7. CASE At(t, "unsub")
  BY <1>1, <1>7 DEF PLT_EVT, At, Next
<1> QED
  BY <1>2, <1>3, <1>4, <1>5, <1>6, <1>7 DEF PLT_EVT

(* So is every step of a test, but for what its threads do among themselves. *)
LEMMA TestRunsManger ==
    ASSUME IInv, [TestNext]_<<vars, testVars>>
    PROVE  [Next]_vars
<1>1. ASSUME NEW t \in Client, TestThread(t) PROVE [Next]_vars
  BY <1>1, CallRunsManger DEF TestThread, Call, Start, Join, SemPost, SemWait, Expect
<1>2. EvtProcer \in Thread
  BY DEF Thread
<1>3. CASE Proc
  BY <1>2, <1>3 DEF Proc, CallbackEnters, CallbackReplies, CallbackPosts, CallbackReturns,
     Next, postEvtSRT, EvtProcer_Thread
<1>4. CASE ProcSkip \/ ProcSpuriousWakeup
  BY <1>4 DEF Next, EvtProcer_Thread
<1> QED
  BY <1>1, <1>3, <1>4 DEF TestNext

(* The events of a test are events of the manager.                           *)
LEMMA TestStarts == TestInit => Idle /\ unposted \subseteq Msg /\ IInv
<1> SUFFICES ASSUME TestInit PROVE Idle /\ unposted \subseteq Msg /\ IInv
  OBVIOUS
<1>1. objs \in DOMAIN Programs /\ case \in Cases
  BY DEF TestInit, ObjsOf, Programs
<1>2. EventsOf[objs][case] \subseteq Msg
  BY <1>1 DEF EventsOf
<1> QED
  BY <1>2, IdleIInv DEF TestInit

(* So the manager's inductive invariant holds in every state of a test.      *)
LEMMA MangerInductive == TestSpec => []IInv
<1>1. IInv /\ [TestNext]_<<vars, testVars>> => IInv'
  BY TestRunsManger, NextIInv
<1> QED
  BY <1>1, TestStarts, PTL DEF TestSpec

(* In every test, the manager keeps its promises: the ring loses no event    *)
(* and keeps their order, an event stays while it is handled, no wakeup is   *)
(* lost, and the queue outlives its EvtProcer.                               *)
THEOREM TestsKeepMangerSafe ==
    TestSpec => [](/\ RingKeepsOrder /\ TakenEventKept /\ WakeupNotLost
                   /\ QueueOutlivesProcer)
<1>1. IInv => RingKeepsOrder /\ TakenEventKept /\ WakeupNotLost /\ QueueOutlivesProcer
  BY DEF IInv, RingInv, TakenInv, TakenEventKept
<1> QED
  BY <1>1, MangerInductive, PTL

(* In every test, the manager implements the broker its users rely on.       *)
THEOREM TestsUseBroker == TestSpec => ImplementsEvtBroker
<1>1. TestInit => Broker!Init
  BY TestStarts, IdleBroker
<1>2. IInv /\ [TestNext]_<<vars, testVars>> => [Broker!Next]_Broker!vars
  BY TestRunsManger, NextBroker
<1> QED
  BY <1>1, <1>2, MangerInductive, PTL DEF TestSpec, ImplementsEvtBroker, Broker!Spec

-----------------------------------------------------------------------------
(* The programs.                                                             *)

(* The programs that run are those of a test.                                *)
LEMMA TestPrograms ==
    ASSUME StepInv
    PROVE  /\ AreSequences(prog) /\ RunByMain(prog) /\ LedByMain(prog)
           /\ PostsWhileRunning(prog) /\ TidyWithOpers(prog) /\ FitsInTables(prog)
           /\ InPrograms(prog, step)
           /\ IsFiniteSet(Msg)
BY ProgramsAssumption DEF StepInv, prog, events

(* t goes on behind its instruction, and may start other threads thereby.    *)
Advances(p, st, st2, t) ==
    /\ st[t] \in DOMAIN p[t]
    /\ st2 \in [Client -> Nat]
    /\ st2[t] = st[t] + 1
    /\ \A u \in Client \ {t} :
          st2[u] = st[u] \/ (st[u] = 0 /\ st2[u] = 1 /\ Starts(p, t, st[t], u))

(* What it may pass.                                                         *)
MayPass(p, st, t) ==
    /\ \A u \in Client : Joins(p, t, st[t], u) => IsPast(p, st, u)
    /\ Takes(p, t, st[t]) => Given(p, st, p[t][st[t]].sem)

(* What is passed stays so, and t has passed one instruction more.           *)
LEMMA PassedNext ==
    ASSUME NEW p, NEW st, NEW st2, NEW t \in Client, AreSequences(p), InPrograms(p, st),
           Advances(p, st, st2, t)
    PROVE  /\ Passed(st2, t) = Passed(st, t) \cup {st[t]}
           /\ \A u \in Client \ {t} : Passed(st2, u) = Passed(st, u)
           /\ InPrograms(p, st2)
<1>1. st \in [Client -> Nat] /\ st2 \in [Client -> Nat] /\ st[t] \in 1 .. Len(p[t])
  BY DEF InPrograms, Advances, AreSequences
<1>2. Passed(st2, t) = Passed(st, t) \cup {st[t]}
  BY <1>1 DEF Advances, Passed
<1>3. ASSUME NEW u \in Client \ {t} PROVE Passed(st2, u) = Passed(st, u)
  BY <1>1 DEF Advances, Passed
<1>4. InPrograms(p, st2)
  BY <1>1 DEF InPrograms, Advances, AreSequences
<1> QED
  BY <1>2, <1>3, <1>4

(* What a thread has done, and given, stays done and given.                  *)
LEMMA DoneNext ==
    ASSUME NEW p, NEW st, NEW st2, NEW t \in Client, AreSequences(p), InPrograms(p, st),
           Advances(p, st, st2, t)
    PROVE  /\ \A do, x : Done(p, st2, do, x) <=> Done(p, st, do, x) \/ Is(p, t, st[t], do, x)
           /\ \A s : Given(p, st2, s) <=> Given(p, st, s) \/ Gives(p, t, st[t], s)
<1>1. /\ Passed(st2, t) = Passed(st, t) \cup {st[t]}
      /\ \A u \in Client \ {t} : Passed(st2, u) = Passed(st, u)
  BY PassedNext
<1>2. ASSUME NEW do, NEW x
      PROVE  Done(p, st2, do, x) <=> Done(p, st, do, x) \/ Is(p, t, st[t], do, x)
  BY <1>1 DEF Done
<1>3. ASSUME NEW s
      PROVE  Given(p, st2, s) <=> Given(p, st, s) \/ Gives(p, t, st[t], s)
  BY <1>1 DEF Given
<1> QED
  BY <1>2, <1>3

(* The threads stay in step.                                                 *)
LEMMA InStepNext ==
    ASSUME NEW p, NEW st, NEW st2, NEW t \in Client, AreSequences(p), InPrograms(p, st),
           InStep(p, st), Advances(p, st, st2, t), MayPass(p, st, t)
    PROVE  InStep(p, st2)
<1>1. /\ Passed(st2, t) = Passed(st, t) \cup {st[t]}
      /\ \A u \in Client \ {t} : Passed(st2, u) = Passed(st, u)
      /\ \A s : Given(p, st, s) => Given(p, st2, s)
  BY PassedNext, DoneNext
<1>2. ASSUME NEW u \in Client \ {"main"}, st2[u] # 0
      PROVE  \E s \in Client : \E i \in Passed(st2, s) : Starts(p, s, i, u)
  <2>1. CASE st[u] # 0
    BY <1>1, <2>1, Zenon DEF InStep
  <2>2. CASE st[u] = 0
    <3>1. u # t /\ Starts(p, t, st[t], u)
      BY <1>2, <2>2 DEF Advances, AreSequences
    <3> QED
      BY <1>1, <3>1
  <2> QED
    BY <2>1, <2>2
<1>3. ASSUME NEW u \in Client, IsPast(p, st, u) PROVE IsPast(p, st2, u)
  BY <1>3 DEF IsPast, Advances, AreSequences, InPrograms
<1>4. ASSUME NEW s \in Client, NEW u \in Client, NEW i \in Passed(st2, s), Joins(p, s, i, u)
      PROVE  IsPast(p, st2, u)
  BY <1>1, <1>3, <1>4 DEF InStep, MayPass
<1>5. ASSUME NEW s \in Client, NEW i \in Passed(st2, s), Takes(p, s, i)
      PROVE  Given(p, st2, p[s][i].sem)
  BY <1>1, <1>5 DEF InStep, MayPass
<1> QED
  BY <1>2, <1>4, <1>5 DEF InStep

-----------------------------------------------------------------------------
(* While a thread posts, main is between enable and disable.                 *)

(* main enables after its first instruction, and disables later.             *)
LEMMA MainsPlaces ==
    ASSUME NEW p, AreSequences(p), RunByMain(p)
    PROVE  /\ "main" \in Client
           /\ EnabledAt(p) \in Nat /\ EnabledAt(p) \in DOMAIN p["main"]
           /\ DisabledAt(p) \in Nat /\ DisabledAt(p) \in DOMAIN p["main"]
           /\ 1 < EnabledAt(p) /\ EnabledAt(p) < DisabledAt(p)
<1> DEFINE e == EnabledAt(p)
           d == DisabledAt(p)
<1>1. "main" \in Client
  BY TestAssumption
<1>2. DOMAIN p["main"] = 1 .. Len(p["main"]) /\ Len(p["main"]) \in Nat
  BY <1>1 DEF AreSequences
<1>3. e \in DOMAIN p["main"] /\ d \in DOMAIN p["main"] /\ e < d
  BY DEF RunByMain
<1>4. p["main"][1].do = "init" /\ p["main"][e].do = "enable"
  BY <1>1, <1>3 DEF RunByMain
<1> HIDE DEF e, d
<1>5. e # 1 /\ e \in Nat /\ d \in Nat /\ 1 < e
  BY <1>2, <1>3, <1>4
<1> QED
  BY <1>1, <1>3, <1>5 DEF e, d

(* What t does at n or later, it does once main has passed k.                *)
LEMMA ComesAfter ==
    ASSUME NEW p, NEW st, NEW t \in Client, NEW n \in Nat, NEW k \in Nat, AreSequences(p),
           InPrograms(p, st), InStep(p, st), Follows(p, t, n, k), n <= st[t]
    PROVE  k < st["main"]
<1>1. st \in [Client -> Nat] /\ "main" \in Client
  BY TestAssumption DEF InPrograms
<1>2. CASE t = "main" /\ k < n
  BY <1>1, <1>2
<1>3. ASSUME NEW i \in 1 .. n - 1, Takes(p, t, i),
             \A u \in Client : \A j \in DOMAIN p[u] :
                 Gives(p, u, j, p[t][i].sem) => u = "main" /\ k <= j
      PROVE  k < st["main"]
  <2>1. i \in Passed(st, t)
    BY <1>1 DEF Passed
  <2>2. Given(p, st, p[t][i].sem)
    BY <1>3, <2>1 DEF InStep
  <2>3. PICK u \in Client, j \in Nat : j \in Passed(st, u) /\ Gives(p, u, j, p[t][i].sem)
    BY <1>1, <2>2 DEF Given, Passed
  <2>4. j \in DOMAIN p[u] /\ j < st[u] /\ j \in Nat
    BY <1>1, <2>3 DEF Passed, AreSequences, InPrograms
  <2> QED
    BY <1>1, <1>3, <2>3, <2>4
<1> QED
  BY <1>2, <1>3 DEF Follows

LEMMA Enabled ==
    ASSUME NEW p, NEW st, NEW t \in Client, AreSequences(p), RunByMain(p),
           InPrograms(p, st), InStep(p, st), IsEnabled(p, t, st[t]), st[t] # 0
    PROVE  EnabledAt(p) < st["main"]
<1>1. st \in [Client -> Nat] /\ EnabledAt(p) \in Nat
  BY MainsPlaces DEF InPrograms
<1>2. CASE Follows(p, t, st[t], EnabledAt(p))
  BY <1>1, <1>2, ComesAfter
<1>3. CASE /\ t # "main"
           /\ \A u \in Client : \A i \in DOMAIN p[u] :
                 Starts(p, u, i, t) => Follows(p, u, i, EnabledAt(p))
  <2>1. PICK u \in Client, i \in Nat : i \in Passed(st, u) /\ Starts(p, u, i, t)
    BY <1>1, <1>3 DEF InStep, Passed
  <2>2. i \in DOMAIN p[u] /\ i <= st[u] /\ i \in Nat
    BY <1>1, <2>1 DEF Passed, AreSequences, InPrograms
  <2>3. Follows(p, u, i, EnabledAt(p))
    BY <1>3, <2>1, <2>2
  <2> QED
    BY <1>1, <2>2, <2>3, ComesAfter
<1> QED
  BY <1>2, <1>3 DEF IsEnabled

(* As long as t is not past n, main has not passed k; nor has it come there, *)
(* unless it is t.                                                           *)
LEMMA ComesBefore ==
    ASSUME NEW p, NEW st, NEW t \in Client, NEW n \in Nat, NEW k \in DOMAIN p["main"],
           AreSequences(p), InPrograms(p, st), InStep(p, st), Precedes(p, t, n, k),
           st[t] <= n, ~IsPast(p, st, t)
    PROVE  st["main"] <= k /\ (st["main"] < k \/ t = "main")
<1>1. /\ st \in [Client -> Nat] /\ "main" \in Client /\ k \in Nat
  <2>1. "main" \in Client
    BY TestAssumption
  <2> QED
    BY <2>1 DEF InPrograms, AreSequences
<1>2. CASE t = "main" /\ n <= k
  BY <1>1, <1>2
<1>3. ASSUME st["main"] >= k, NEW i \in 1 .. k - 1
      PROVE  i \in Passed(st, "main")
  BY <1>1, <1>3 DEF Passed
<1>4. ASSUME st["main"] >= k, NEW i \in 1 .. k - 1,
             Joins(p, "main", i, t)
      PROVE  FALSE
  BY <1>1, <1>3, <1>4 DEF InStep
<1>5. ASSUME st["main"] >= k, NEW i \in 1 .. k - 1,
             Takes(p, "main", i),
             \A u \in Client : \A j \in DOMAIN p[u] :
                 Gives(p, u, j, p["main"][i].sem) => u = t /\ n <= j
      PROVE  FALSE
  <2>1. Given(p, st, p["main"][i].sem)
    BY <1>1, <1>3, <1>5 DEF InStep
  <2>2. PICK u \in Client, j \in Nat : j \in Passed(st, u) /\ Gives(p, u, j, p["main"][i].sem)
    BY <1>1, <2>1 DEF Given, Passed
  <2>3. j \in DOMAIN p[u] /\ j < st[u] /\ j \in Nat
    BY <1>1, <2>2 DEF Passed, AreSequences, InPrograms
  <2> QED
    BY <1>1, <1>5, <2>2, <2>3
<1> QED
  BY <1>1, <1>2, <1>4, <1>5 DEF Precedes

LEMMA NotDisabled ==
    ASSUME NEW p, NEW st, NEW t \in Client, AreSequences(p), RunByMain(p),
           InPrograms(p, st), InStep(p, st), st[t] \in DOMAIN p[t],
           IsNotDisabled(p, t, st[t])
    PROVE  st["main"] <= DisabledAt(p)
<1>1. /\ st \in [Client -> Nat] /\ ~IsPast(p, st, t)
      /\ DisabledAt(p) \in DOMAIN p["main"]
  BY MainsPlaces DEF InPrograms, AreSequences, IsPast
<1>2. CASE Precedes(p, t, st[t], DisabledAt(p))
  BY <1>1, <1>2, ComesBefore
<1>3. ASSUME NEW u \in Client, NEW i \in DOMAIN p[u], Joins(p, u, i, t),
             Precedes(p, u, i, DisabledAt(p))
      PROVE  st["main"] <= DisabledAt(p)
  <2>1. i \in Nat \ {0} /\ i <= Len(p[u]) /\ Len(p[u]) \in Nat
    BY DEF AreSequences
  <2>2. i \notin Passed(st, u)
    BY <1>1, <1>3 DEF InStep
  <2>3. st[u] <= i /\ ~IsPast(p, st, u)
    BY <1>1, <2>1, <2>2 DEF Passed, IsPast
  <2>4. i \in Nat
    BY <2>1
  <2> QED
    BY <1>1, <1>3, <2>3, <2>4, ComesBefore
<1> QED
  BY <1>2, <1>3 DEF IsNotDisabled

(* When main is over, so is every thread that was started.                   *)
LEMMA AllOver ==
    ASSUME NEW p, NEW st, NEW t \in Client, AreSequences(p), LedByMain(p),
           InPrograms(p, st), InStep(p, st), IsPast(p, st, "main"), st[t] # 0
    PROVE  IsPast(p, st, t)
<1>1. st \in [Client -> Nat] /\ "main" \in Client
  BY TestAssumption DEF InPrograms
<1>2. ASSUME NEW s \in Client, NEW i \in Passed(st, s) PROVE i \in DOMAIN p[s]
  BY <1>1 DEF Passed, AreSequences, InPrograms
<1>3. ASSUME NEW s \in Client, IsPast(p, st, s), NEW i \in DOMAIN p[s]
      PROVE  i \in Passed(st, s)
  BY <1>1, <1>3 DEF Passed, AreSequences, IsPast
<1>4. ASSUME NEW s \in Client, IsPast(p, st, s), NEW u \in Client, u # "main", st[u] # 0,
             NEW i \in DOMAIN p[s], Starts(p, s, i, u)
      PROVE  IsPast(p, st, u)
  BY <1>3, <1>4 DEF LedByMain, InStep
<1>5. ASSUME t # "main" PROVE IsPast(p, st, t)
  <2>1. PICK s \in Client, i \in Nat : i \in Passed(st, s) /\ Starts(p, s, i, t)
    BY <1>1, <1>5 DEF InStep, Passed
  <2>2. CASE s = "main"
    BY <1>2, <1>4, <1>5, <2>1, <2>2
  <2>3. CASE s # "main"
    <3>1. st[s] # 0
      BY <1>1, <2>1 DEF Passed
    <3>2. PICK r \in Client, j \in Nat : j \in Passed(st, r) /\ Starts(p, r, j, s)
      BY <1>1, <2>3, <3>1 DEF InStep, Passed
    <3>3. r = "main"
      BY <1>2, <2>1, <2>3, <3>2 DEF LedByMain
    <3>4. IsPast(p, st, s)
      BY <1>2, <1>4, <2>3, <3>1, <3>2, <3>3
    <3> QED
      BY <1>2, <1>4, <1>5, <2>1, <3>4
  <2> QED
    BY <2>2, <2>3
<1> QED
  BY <1>5

-----------------------------------------------------------------------------
(* What is done with the operators, in the order of the programs.            *)

(* What is undone, and by what.                                              *)
LEMMA UndoneByIs ==
    /\ DOMAIN UndoneBy = {"reg", "pub", "sub"}
    /\ UndoneBy["reg"] = "unreg" /\ UndoneBy["pub"] = "unpub" /\ UndoneBy["sub"] = "unsub"
    /\ \A do \in DOMAIN UndoneBy : do \in OperCalls /\ UndoneBy[do] \in OperCalls
    /\ \A d, do \in DOMAIN UndoneBy : d # UndoneBy[do] /\ (UndoneBy[d] = UndoneBy[do] => d = do)
BY DEF UndoneBy, OperCalls

(* A call is done with an operator by one thread, at one place, which is     *)
(* behind its reg and before its unreg.                                      *)
LEMMA OnePlace ==
    ASSUME NEW p, TidyWithOpers(p), NEW x, NEW t \in Client, NEW i \in DOMAIN p[t],
           NEW do \in OperCalls, Is(p, t, i, do, x)
    PROVE  /\ x \in Oper
           /\ \A u \in Client : \A j \in DOMAIN p[u] : \A d \in OperCalls :
                 Is(p, u, j, d, x) =>
                    /\ u = t
                    /\ d = do => j = i
                    /\ do = "reg" => i <= j
                    /\ do = "unreg" => j <= i
           /\ \E j \in DOMAIN p[t] : Is(p, t, j, "reg", x)
BY DEF TidyWithOpers, Is

(* What is done is undone later, and undone only after it is done.           *)
LEMMA InPairs ==
    ASSUME NEW p, TidyWithOpers(p), NEW x, NEW t \in Client, NEW i \in DOMAIN p[t],
           NEW do \in DOMAIN UndoneBy
    PROVE  /\ Is(p, t, i, do, x) =>
                 \E j \in DOMAIN p[t] : i < j /\ Is(p, t, j, UndoneBy[do], x)
           /\ Is(p, t, i, UndoneBy[do], x) =>
                 \E j \in DOMAIN p[t] : j < i /\ Is(p, t, j, do, x)
<1>1. do \in OperCalls /\ UndoneBy[do] \in OperCalls
  BY UndoneByIs
<1>2. ASSUME Is(p, t, i, do, x)
      PROVE  \E j \in DOMAIN p[t] : i < j /\ Is(p, t, j, UndoneBy[do], x)
  BY <1>1, <1>2 DEF TidyWithOpers, Is
<1>3. ASSUME Is(p, t, i, UndoneBy[do], x)
      PROVE  \E j \in DOMAIN p[t] : j < i /\ Is(p, t, j, do, x)
  BY <1>1, <1>3 DEF TidyWithOpers, Is
<1> QED
  BY <1>2, <1>3

(* It is done once the thread is behind that place.                          *)
LEMMA DoneAt ==
    ASSUME NEW p, NEW st, AreSequences(p), TidyWithOpers(p), InPrograms(p, st),
           NEW x, NEW t \in Client, NEW i \in DOMAIN p[t], NEW do \in OperCalls,
           Is(p, t, i, do, x)
    PROVE  Done(p, st, do, x) <=> i < st[t]
<1>1. \A u \in Client : \A j \in Passed(st, u) : j \in DOMAIN p[u] /\ j < st[u]
  BY DEF Passed, AreSequences, InPrograms
<1>2. ASSUME Done(p, st, do, x) PROVE i < st[t]
  BY <1>1, <1>2, OnePlace DEF Done
<1>3. ASSUME i < st[t] PROVE Done(p, st, do, x)
  <2>1. i \in Passed(st, t)
    BY <1>3 DEF Passed, AreSequences, InPrograms
  <2> QED
    BY <2>1 DEF Done
<1> QED
  BY <1>2, <1>3

(* What a thread is about to do is not done yet, nor undone; what it is      *)
(* about to undo is done.                                                    *)
LEMMA AboutTo ==
    ASSUME NEW p, NEW st, AreSequences(p), TidyWithOpers(p), InPrograms(p, st),
           NEW x, NEW t \in Client, st[t] \in DOMAIN p[t], NEW do \in DOMAIN UndoneBy
    PROVE  /\ Is(p, t, st[t], do, x) =>
                 x \in Oper /\ ~Done(p, st, do, x) /\ ~Done(p, st, UndoneBy[do], x)
           /\ Is(p, t, st[t], UndoneBy[do], x) => x \in Held(p, st, do)
<1>1. do \in OperCalls /\ UndoneBy[do] \in OperCalls /\ st[t] \in Nat
  BY UndoneByIs DEF InPrograms
<1>2. \A j \in DOMAIN p[t] : j \in Nat
  BY DEF AreSequences
<1>3. ASSUME Is(p, t, st[t], do, x)
      PROVE  x \in Oper /\ ~Done(p, st, do, x) /\ ~Done(p, st, UndoneBy[do], x)
  <2>1. PICK j \in DOMAIN p[t] : st[t] < j /\ Is(p, t, j, UndoneBy[do], x)
    BY <1>3, InPairs
  <2>2. x \in Oper
    BY <1>1, <1>3, OnePlace
  <2>3. ~Done(p, st, do, x)
    BY <1>1, <1>3, DoneAt
  <2>4. ~Done(p, st, UndoneBy[do], x)
    BY <1>1, <1>2, <2>1, DoneAt
  <2> QED
    BY <2>2, <2>3, <2>4
<1>4. ASSUME Is(p, t, st[t], UndoneBy[do], x) PROVE x \in Held(p, st, do)
  <2>1. PICK j \in DOMAIN p[t] : j < st[t] /\ Is(p, t, j, do, x)
    BY <1>4, InPairs
  <2>2. x \in Oper
    BY <1>1, <1>4, OnePlace
  <2>3. Done(p, st, do, x)
    BY <1>1, <2>1, DoneAt
  <2>4. ~Done(p, st, UndoneBy[do], x)
    BY <1>1, <1>4, DoneAt
  <2> QED
    BY <2>2, <2>3, <2>4 DEF Held
<1> QED
  BY <1>3, <1>4

(* It does so with an operator that is registered, unless it registers it.   *)
LEMMA WithOperHere ==
    ASSUME NEW p, NEW st, AreSequences(p), TidyWithOpers(p), InPrograms(p, st),
           NEW x, NEW t \in Client, st[t] \in DOMAIN p[t], NEW do \in OperCalls \ {"reg"},
           Is(p, t, st[t], do, x)
    PROVE  x \in Here(p, st)
<1>1. /\ "reg" \in OperCalls /\ "unreg" \in OperCalls /\ st[t] \in Nat
      /\ UndoneBy["reg"] = "unreg" /\ "reg" \in DOMAIN UndoneBy
  BY UndoneByIs DEF InPrograms
<1>2. \A j \in DOMAIN p[t] : j \in Nat
  BY DEF AreSequences
<1>3. PICK j \in DOMAIN p[t] : Is(p, t, j, "reg", x)
  BY OnePlace
<1>4. j <= st[t] /\ j # st[t]
  BY <1>1, <1>3, OnePlace DEF Is
<1>5. x \in Oper
  BY OnePlace
<1>6. Done(p, st, "reg", x)
  BY <1>1, <1>2, <1>3, <1>4, DoneAt
<1>7. PICK k \in DOMAIN p[t] : j < k /\ Is(p, t, k, "unreg", x)
  BY <1>1, <1>3, InPairs
<1>8. st[t] <= k
  BY <1>1, <1>7, OnePlace
<1>9. ~Done(p, st, "unreg", x)
  BY <1>1, <1>2, <1>7, <1>8, DoneAt
<1> QED
  BY <1>1, <1>5, <1>6, <1>9 DEF Here, Held

(* An operator that has published or subscribed something is registered.     *)
LEMMA HeldHere ==
    ASSUME NEW p, NEW st, AreSequences(p), TidyWithOpers(p), InPrograms(p, st),
           NEW do \in DOMAIN UndoneBy, NEW x \in Held(p, st, do)
    PROVE  x \in Here(p, st)
<1>1. /\ "reg" \in OperCalls /\ "unreg" \in OperCalls
      /\ UndoneBy["reg"] = "unreg" /\ "reg" \in DOMAIN UndoneBy
      /\ do \in OperCalls /\ UndoneBy[do] \in OperCalls
  BY UndoneByIs
<1>2. \A u \in Client : st[u] \in Nat /\ \A j \in DOMAIN p[u] : j \in Nat
  BY DEF AreSequences, InPrograms
<1>3. x \in Oper /\ Done(p, st, do, x) /\ ~Done(p, st, UndoneBy[do], x)
  BY DEF Held
<1>4. PICK t \in Client : \E i \in DOMAIN p[t] : Is(p, t, i, do, x)
  BY <1>3 DEF Done, Passed, AreSequences, InPrograms
<1>5. PICK i \in DOMAIN p[t] : Is(p, t, i, do, x)
  BY <1>4
<1>6. i < st[t]
  BY <1>1, <1>3, <1>5, DoneAt
<1>7. PICK j \in DOMAIN p[t] : Is(p, t, j, "reg", x)
  BY <1>1, <1>5, OnePlace
<1>8. j <= i
  BY <1>1, <1>5, <1>7, OnePlace
<1>9. Done(p, st, "reg", x)
  BY <1>1, <1>2, <1>6, <1>7, <1>8, DoneAt
<1>10. PICK k \in DOMAIN p[t] : i < k /\ Is(p, t, k, UndoneBy[do], x)
  BY <1>5, InPairs
<1>11. st[t] <= k
  BY <1>1, <1>2, <1>3, <1>10, DoneAt
<1>12. PICK l \in DOMAIN p[t] : j < l /\ Is(p, t, l, "unreg", x)
  BY <1>1, <1>7, InPairs
<1>13. k <= l
  BY <1>1, <1>10, <1>12, OnePlace
<1>14. ~Done(p, st, "unreg", x)
  BY <1>1, <1>2, <1>11, <1>12, <1>13, DoneAt
<1> QED
  BY <1>1, <1>3, <1>9, <1>14 DEF Here, Held

(* What an instruction changes of it.                                        *)
LEMMA HeldNext ==
    ASSUME NEW p, NEW st, NEW st2, AreSequences(p), TidyWithOpers(p), InPrograms(p, st),
           NEW t \in Client, Advances(p, st, st2, t), NEW do \in DOMAIN UndoneBy
    PROVE  LET x == p[t][st[t]].oper
           IN  CASE p[t][st[t]].do = do ->
                       x \notin Held(p, st, do) /\ Held(p, st2, do) = Held(p, st, do) \cup {x}
                 [] p[t][st[t]].do = UndoneBy[do] ->
                       x \in Held(p, st, do) /\ Held(p, st2, do) = Held(p, st, do) \ {x}
                 [] OTHER -> Held(p, st2, do) = Held(p, st, do)
<1> DEFINE x == p[t][st[t]].oper
           d == p[t][st[t]].do
           un == UndoneBy[do]
<1>1. do # un /\ st[t] \in DOMAIN p[t]
  BY UndoneByIs DEF Advances
<1>2. /\ \A y : Done(p, st2, do, y) <=> Done(p, st, do, y) \/ (d = do /\ y = x)
      /\ \A y : Done(p, st2, un, y) <=> Done(p, st, un, y) \/ (d = un /\ y = x)
  <2>1. \A c, y : Is(p, t, st[t], c, y) <=> (d = c /\ y = x)
    BY DEF Is
  <2> QED
    BY <2>1, DoneNext
<1>3. d = do => x \in Oper /\ ~Done(p, st, do, x) /\ ~Done(p, st, un, x)
  BY <1>1, AboutTo DEF Is
<1>4. d = un => x \in Held(p, st, do)
  BY <1>1, AboutTo DEF Is
<1> HIDE DEF x, d, un
<1>5. /\ d = do => x \notin Held(p, st, do) /\ Held(p, st2, do) = Held(p, st, do) \cup {x}
      /\ d # do /\ d = UndoneBy[do] => Held(p, st2, do) = Held(p, st, do) \ {x}
      /\ d # do /\ d # UndoneBy[do] => Held(p, st2, do) = Held(p, st, do)
  <2>1. \A s, y : y \in Held(p, s, do) <=> y \in Oper /\ Done(p, s, do, y) /\ ~Done(p, s, un, y)
    BY DEF Held, un
  <2>2. un = UndoneBy[do]
    BY DEF un
  <2> QED
    BY <1>1, <1>2, <1>3, <2>1, <2>2
<1>6. d = un => x \in Held(p, st, do)
  BY <1>4
<1> QED
  BY <1>1, <1>5, <1>6 DEF x, d, un

(* One that is about to do it has a place left among those that do it.       *)
LEMMA PlaceLeft ==
    ASSUME NEW p, NEW st, AreSequences(p), TidyWithOpers(p), InPrograms(p, st),
           NEW t \in Client, st[t] \in DOMAIN p[t], NEW do \in DOMAIN UndoneBy,
           p[t][st[t]].do = do
    PROVE  /\ IsFiniteSet(Held(p, st, do))
           /\ Cardinality(Held(p, st, do)) \in Nat
           /\ Cardinality(Does(p, do)) \in Nat
           /\ Cardinality(Held(p, st, do)) < Cardinality(Does(p, do))
<1> DEFINE x == p[t][st[t]].oper
           H == Held(p, st, do)
           D == Does(p, do)
<1>1. Is(p, t, st[t], do, x)
  BY DEF Is
<1>2. x \in Oper /\ x \notin H
  BY <1>1, AboutTo DEF Held
<1>3. x \in D
  BY <1>1, <1>2 DEF Does
<1>4. \A u \in Client : Passed(st, u) \subseteq DOMAIN p[u]
  BY DEF Passed, AreSequences, InPrograms
<1>5. H \subseteq D
  BY <1>4 DEF Held, Done, Does
<1>6. IsFiniteSet(Oper)
  <2>1. IsFiniteSet({"A"} \cup {"A2"}) /\ IsFiniteSet({"B"} \cup {"C"}) /\ IsFiniteSet({"D"} \cup {"E"})
    BY FS_Singleton, FS_AddElement, Zenon
  <2>2. IsFiniteSet((({"A"} \cup {"A2"}) \cup ({"B"} \cup {"C"})) \cup ({"D"} \cup {"E"}))
    BY <2>1, FS_Union
  <2>3. Oper = (({"A"} \cup {"A2"}) \cup ({"B"} \cup {"C"})) \cup ({"D"} \cup {"E"})
    BY DEF Oper
  <2> QED
    BY <2>2, <2>3
<1>7. IsFiniteSet(D)
  BY <1>6, FS_Subset DEF Does
<1> HIDE DEF x, H, D
<1>8. IsFiniteSet(H) /\ Cardinality(H) <= Cardinality(D) /\ (Cardinality(H) = Cardinality(D) => H = D)
  BY <1>5, <1>7, FS_Subset
<1>9. Cardinality(H) \in Nat /\ Cardinality(D) \in Nat
  BY <1>7, <1>8, FS_CardinalityType
<1> QED
  BY <1>2, <1>3, <1>8, <1>9 DEF H, D

(* If each of S has an owner in T of its own, S is no larger than T.         *)
LEMMA NoMoreThan ==
    ASSUME NEW S, NEW T, IsFiniteSet(T), NEW h, NEW g,
           \A s \in S : \E x \in T : h[s] = g[x],
           \A q, r \in S : h[q] = h[r] => q = r
    PROVE  IsFiniteSet(S) /\ Cardinality(S) <= Cardinality(T)
<1> DEFINE f == [s \in S |-> CHOOSE x \in T : h[s] = g[x]]
<1>1. \A s \in S : f[s] \in T /\ h[s] = g[f[s]]
  OBVIOUS
<1>2. f \in [S -> T]
  BY <1>1
<1>3. \A q, r \in S : f[q] = f[r] => q = r
  BY <1>1
<1> HIDE DEF f
<1>4. f \in Injection(S, T)
  BY <1>2, <1>3 DEF Injection, IsInjective
<1> QED
  BY <1>4, FS_Injection

(* So an index of a table of n rows is left.                                 *)
LEMMA IndexLeft ==
    ASSUME NEW n \in Nat, NEW S, IsFiniteSet(S), Cardinality(S) < n
    PROVE  \E r \in 0 .. n - 1 : r \notin S
<1>1. IsFiniteSet(0 .. n - 1) /\ Cardinality(0 .. n - 1) = n
  BY FS_Interval
<1>2. ASSUME 0 .. n - 1 \subseteq S PROVE FALSE
  <2>1. Cardinality(0 .. n - 1) <= Cardinality(S)
    BY <1>2, FS_Subset
  <2>2. Cardinality(S) \in Nat
    BY FS_CardinalityType
  <2> QED
    BY <1>1, <2>1, <2>2
<1> QED
  BY <1>2

-----------------------------------------------------------------------------
(* The steps of a test.                                                      *)

(* The instruction a thread is at.                                           *)
LEMMA TheInstr ==
    \A t \in Client : /\ Program(t) = prog[t] /\ Instr(t) = prog[t][step[t]]
                      /\ IsOver(t) <=> IsPast(prog, step, t)
BY DEF Program, Instr, prog, IsOver, IsPast

ThreadInstrs == {"start", "join", "semPost", "semWait", "expect"}

(* A thread that runs no call goes on, if it may.                            *)
Instructs(t) ==
    /\ UNCHANGED <<vars, case, objs, operID>>
    /\ Instr(t).do \in ThreadInstrs
    /\ Advances(prog, step, step', t)
    /\ MayPass(prog, step, t)
    /\ failed' \subseteq failed \cup {"count"}

(* One that does, passes its instruction when the call returns.              *)
Calls_EVT(t) ==
    /\ Call(t)
    /\ UNCHANGED <<case, objs>>
    /\ Instr(t).do \notin ThreadInstrs
    /\ \/ pc'[t] = "idle" /\ Advances(prog, step, step', t) /\ MayPass(prog, step, t)
       \/ pc'[t] # "idle" /\ UNCHANGED step

(* And the EvtProcer moves no thread.                                        *)
ProcMoves ==
    /\ UNCHANGED <<case, objs, operID, step>>
    /\ \/ ProcCall \/ ProcCbReturn \/ ProcWait \/ ProcTake \/ ProcLock \/ ProcDone
       \/ ProcCancelledInWait \/ ProcSkip \/ ProcSpuriousWakeup
       \/ \E m \in Msg : PostCheck(EvtProcer, m)
       \/ PostNull(EvtProcer) \/ PostFull(EvtProcer) \/ PostEnqueue(EvtProcer)
       \/ PostSignal(EvtProcer)
    /\ \/ failed' \subseteq failed \cup {"event"}
       \/ pc[EvtProcer] = "post" /\ pc'[EvtProcer] # "signal"

(* A thread goes on by one instruction.                                      *)
LEMMA GoesOn ==
    ASSUME StepInv, NEW t \in Client, step[t] \in DOMAIN prog[t], GoOn(t)
    PROVE  Advances(prog, step, step', t)
<1>1. step \in [Client -> Nat]
  BY DEF StepInv, InPrograms
<1> QED
  BY <1>1 DEF Advances, GoOn

(* The thread that starts others finds none of them started.                 *)
LEMMA StartsAfresh ==
    ASSUME StepInv, ThreadsInv, NEW t \in Client, step[t] \in DOMAIN prog[t],
           NEW u \in Client, Starts(prog, t, step[t], u)
    PROVE  step[u] = 0
<1>1. LedByMain(prog) /\ AreSequences(prog) /\ InPrograms(prog, step) /\ InStep(prog, step)
  BY TestPrograms DEF ThreadsInv
<1>2. u # "main"
  BY <1>1 DEF LedByMain
<1>3. ASSUME step[u] # 0 PROVE FALSE
  <2>1. PICK s \in Client : \E i \in Passed(step, s) : Starts(prog, s, i, u)
    BY <1>1, <1>2, <1>3 DEF InStep
  <2>2. \A i \in Passed(step, s) : i \in DOMAIN prog[s] /\ i # step[s]
    BY <1>1 DEF Passed, AreSequences, InPrograms
  <2> QED
    BY <1>1, <2>1, <2>2 DEF LedByMain
<1> QED
  BY <1>3

(* A thread that runs no call.                                               *)
LEMMA InstructSteps ==
    ASSUME StepInv, ThreadsInv, NEW t \in Client, step[t] \in DOMAIN prog[t],
           Start(t) \/ Join(t) \/ SemPost(t) \/ SemWait(t) \/ Expect(t)
    PROVE  Instructs(t)
<1> USE TheInstr DEF At
<1>1. step \in [Client -> Nat]
  BY DEF StepInv, InPrograms
<1>2. Advances(prog, step, step', t)
  <2>1. CASE GoOn(t)
    BY <2>1, GoesOn
  <2>2. CASE Start(t)
    <3>1. step[t] # 0 /\ ~Starts(prog, t, step[t], t)
      BY StartsAfresh, TestPrograms DEF AreSequences
    <3>2. \A u \in Client \ {t} : Starts(prog, t, step[t], u) => step[u] = 0
      BY StartsAfresh
    <3> QED
      BY <1>1, <2>2, <3>1, <3>2 DEF Start, Advances, Starts
  <2> QED
    BY <2>1, <2>2 DEF Join, SemPost, SemWait, Expect
<1>3. MayPass(prog, step, t)
  <2>1. \A u \in Client : Joins(prog, t, step[t], u) => IsPast(prog, step, u)
    BY DEF Joins, Start, Join, SemPost, SemWait, Expect
  <2>2. Takes(prog, t, step[t]) => Given(prog, step, prog[t][step[t]].sem)
    BY DEF Takes, Start, Join, SemPost, SemWait, Expect, BagIn, BagToSet, ThreadsInv
  <2> QED
    BY <2>1, <2>2 DEF MayPass
<1>4. UNCHANGED <<vars, case, objs, operID>> /\ Instr(t).do \in ThreadInstrs
  BY DEF Start, Join, SemPost, SemWait, Expect, OtherTestVars, ThreadInstrs
<1>5. failed' \subseteq failed \cup {"count"}
  BY DEF Start, Join, SemPost, SemWait, Expect, OtherTestVars
<1> QED
  BY <1>2, <1>3, <1>4, <1>5 DEF Instructs

(* A thread in a call.                                                       *)
LEMMA CallStep ==
    ASSUME StepInv, NEW t \in Client, step[t] \in DOMAIN prog[t], Call(t)
    PROVE  Calls_EVT(t)
<1>1. Instr(t).do \in {"init", "reg", "pub", "sub", "enable", "post", "disable", "unpub",
                       "unsub", "unreg"}
  BY DEF Call, PLT_EVT, At
<1>2. Instr(t).do \notin ThreadInstrs
  BY <1>1 DEF ThreadInstrs
<1>3. MayPass(prog, step, t)
  BY <1>1, TheInstr DEF MayPass, Joins, Takes
<1>4. UNCHANGED <<case, objs>> /\ IF pc'[t] = "idle" THEN GoOn(t) ELSE UNCHANGED step
  BY DEF Call
<1> QED
  BY <1>2, <1>3, <1>4, GoesOn DEF Calls_EVT

(* So there are three kinds of steps.                                        *)
LEMMA TestSteps ==
    ASSUME TestInv, TestNext
    PROVE  \/ \E t \in Client : Instructs(t) \/ Calls_EVT(t)
           \/ ProcMoves
<1>1. StepInv /\ ThreadsInv
  BY DEF TestInv
<1>2. ASSUME NEW t \in Client, TestThread(t) PROVE Instructs(t) \/ Calls_EVT(t)
  <2>1. step[t] \in DOMAIN prog[t]
    BY <1>2, TheInstr DEF TestThread
  <2> QED
    BY <1>1, <1>2, <2>1, InstructSteps, CallStep DEF TestThread
<1>3. ASSUME Proc PROVE ProcMoves
  BY <1>3 DEF Proc, CallbackEnters, CallbackReplies, CallbackPosts, CallbackReturns,
     ProcMoves
<1>4. ASSUME ProcSkip \/ ProcSpuriousWakeup, UNCHANGED testVars PROVE ProcMoves
  BY <1>4 DEF ProcMoves
<1> QED
  BY <1>2, <1>3, <1>4 DEF TestNext

(* The test stays the same.                                                  *)
LEMMA SameTest ==
    ASSUME TestInv, TestNext
    PROVE  UNCHANGED <<case, objs>> /\ prog' = prog /\ events' = events
<1>1. UNCHANGED <<case, objs>>
  BY TestSteps DEF Instructs, Calls_EVT, ProcMoves
<1> QED
  BY <1>1 DEF prog, events

(* StepInv and the first part of ThreadsInv.                                 *)
LEMMA ThreadsNext ==
    ASSUME TestInv, TestNext
    PROVE  StepInv' /\ InStep(prog, step')
<1>1. /\ StepInv /\ InStep(prog, step) /\ UNCHANGED <<case, objs>> /\ prog' = prog
      /\ AreSequences(prog) /\ InPrograms(prog, step)
  BY SameTest, TestPrograms DEF TestInv, ThreadsInv
<1>2. InPrograms(prog, step') /\ InStep(prog, step')
  <2>1. ASSUME NEW t \in Client, Advances(prog, step, step', t), MayPass(prog, step, t)
        PROVE  InPrograms(prog, step') /\ InStep(prog, step')
    BY <1>1, <2>1, PassedNext, InStepNext
  <2>2. UNCHANGED step \/ \E t \in Client : Advances(prog, step, step', t) /\ MayPass(prog, step, t)
    BY TestSteps DEF Instructs, Calls_EVT, ProcMoves
  <2> QED
    BY <1>1, <2>1, <2>2
<1> QED
  BY <1>1, <1>2 DEF StepInv

(* The instruction that advances some thread, and none does otherwise.       *)
LEMMA OneAdvances ==
    ASSUME TestInv, TestNext
    PROVE  UNCHANGED step \/ \E t \in Client : Advances(prog, step, step', t)
BY TestSteps DEF Instructs, Calls_EVT, ProcMoves

(* A semaphore that can be taken was given by a thread or a callback.        *)
LEMMA SemNext ==
    ASSUME TestInv, TestNext, NEW s \in DOMAIN sem', IsHandover(s)
    PROVE  Given(prog, step', s)
<1>1. StepInv /\ ThreadsInv /\ AreSequences(prog) /\ InPrograms(prog, step)
  BY TestPrograms DEF TestInv
<1>2. CASE s \in DOMAIN sem
  <2>1. Given(prog, step, s)
    BY <1>1, <1>2 DEF ThreadsInv
  <2> QED
    BY <1>1, <2>1, OneAdvances, DoneNext
<1>3. CASE s \notin DOMAIN sem
  <2>1. ASSUME NEW t \in Client, SemPost(t) PROVE Given(prog, step', s)
    <3>1. s = Instr(t).sem /\ Gives(prog, t, step[t], s)
      BY <1>3, <2>1, TheInstr DEF SemPost, At, Gives, (+), SetToBag
    <3>2. step[t] \in DOMAIN prog[t] /\ GoOn(t)
      BY <2>1, TheInstr DEF SemPost, At
    <3>3. Advances(prog, step, step', t)
      BY <1>1, <3>2, GoesOn
    <3> QED
      BY <1>1, <3>1, <3>3, DoneNext
  <2>2. ASSUME NEW t \in Client, SemWait(t) PROVE FALSE
    BY <1>3, <2>2 DEF SemWait, (-), SetToBag
  <2>3. ASSUME CallbackReturns PROVE FALSE
    <3>1. sem' = sem \/ sem' = sem (+) SetToBag({<<"AllProced", TheSuber>>})
      BY <2>3 DEF CallbackReturns
    <3>2. sem' # sem /\ s = <<"AllProced", TheSuber>>
      BY <1>3, <3>1 DEF (+), SetToBag
    <3> QED
      BY <3>2 DEF IsHandover
  <2>4. sem' # sem
    BY <1>3
  <2>5. \/ \E t \in Client : SemPost(t) \/ SemWait(t)
        \/ CallbackReturns
    BY <2>4 DEF TestNext, TestThread, Call, Start, Join, Expect, OtherTestVars, Proc,
       CallbackEnters, CallbackReplies, CallbackPosts
  <2> QED
    BY <2>1, <2>2, <2>3, <2>5
<1> QED
  BY <1>2, <1>3

LEMMA ThreadsInvNext ==
    ASSUME TestInv, TestNext
    PROVE  ThreadsInv'
BY ThreadsNext, SemNext, SameTest DEF ThreadsInv

-----------------------------------------------------------------------------
(* The parts of TestInv: the manager's life.                                 *)

(* Who inits, enables and disables.                                          *)
LEMMA RunSteps ==
    ASSUME IInv, TestInv, TestNext
    PROVE  \/ \E t \in Client :
                 /\ Advances(prog, step, step', t)
                 /\ \/ Instr(t).do = "init" /\ haveTables' /\ UNCHANGED procQueue
                    \/ Instr(t).do = "enable" /\ enableEvtManger(t) /\ UNCHANGED haveTables
                    \/ Instr(t).do = "disable" /\ DisableJoin(t) /\ UNCHANGED haveTables
           \/ /\ UNCHANGED <<haveTables, procQueue>>
              /\ \/ UNCHANGED step
                 \/ \E t \in Client : /\ Advances(prog, step, step', t)
                                      /\ Instr(t).do \notin {"init", "enable", "disable"}
<1>1. ASSUME NEW t \in Client, Instructs(t)
      PROVE  UNCHANGED <<haveTables, procQueue>> /\ Advances(prog, step, step', t)
             /\ Instr(t).do \notin {"init", "enable", "disable"}
  BY <1>1 DEF Instructs, ThreadInstrs
<1>2. ASSUME ProcMoves PROVE UNCHANGED <<haveTables, procQueue, step>>
  BY <1>2 DEF ProcMoves, ProcCall, ProcCbReturn, ProcWait, ProcTake, ProcLock, ProcDone,
     ProcCancelledInWait, ProcSkip, ProcSpuriousWakeup, PostCheck, PostNull, PostFull,
     PostEnqueue, PostSignal
<1>3. ASSUME NEW t \in Client, Calls_EVT(t)
      PROVE  \/ Instr(t).do = "init" /\ initEvtManger(t) /\ haveTables'
             \/ Instr(t).do = "enable" /\ enableEvtManger(t)
             \/ Instr(t).do = "disable" /\ (DisableCancel(t) \/ DisableJoin(t))
             \/ /\ Instr(t).do \notin {"init", "enable", "disable"}
                /\ UNCHANGED <<haveTables, procQueue>>
  <2>1. PLT_EVT(t)
    BY <1>3 DEF Calls_EVT, Call
  <2> QED
    BY <2>1 DEF PLT_EVT, At, RegCheck, doRegOper, PubCheck, PubScan, PubStore, SubCheck,
       doSubEvts, PostCheck, PostNull, PostToFreed, PostFull, PostEnqueue, PostSignal,
       unpubEvts, UnsubCall, unsubEvts, FreeRow, unregOper
<1>4. ASSUME NEW t \in Client, pc' = [pc EXCEPT ![t] = "disable"] PROVE pc'[t] # "idle"
  BY <1>4, Types DEF PcType, Thread
<1>5. ASSUME NEW t \in Client, initEvtManger(t) \/ enableEvtManger(t) \/ DisableJoin(t)
      PROVE  pc'[t] = "idle"
  <2>1. t \in Thread /\ t # EvtProcer /\ pc \in [Thread -> ClientPc \cup ProcPc]
    BY Types, EvtMangerAssumption DEF Thread, PcType
  <2> QED
    BY <1>5, <2>1 DEF initEvtManger, enableEvtManger, DisableJoin, Goto, IsIdle
<1>6. ASSUME NEW t \in Client, DisableCancel(t)
      PROVE  UNCHANGED <<haveTables, procQueue>> /\ pc'[t] # "idle"
  BY <1>4, <1>6 DEF DisableCancel, Goto
<1>7. ASSUME NEW t \in Client, Calls_EVT(t), pc'[t] = "idle"
      PROVE  Advances(prog, step, step', t)
  BY <1>7 DEF Calls_EVT
<1>8. ASSUME NEW t \in Client, Calls_EVT(t), pc'[t] # "idle" PROVE UNCHANGED step
  BY <1>8 DEF Calls_EVT
<1>9. \A t \in Client :
         /\ initEvtManger(t) => UNCHANGED procQueue
         /\ enableEvtManger(t) => UNCHANGED haveTables
         /\ DisableJoin(t) => UNCHANGED haveTables
  BY DEF initEvtManger, enableEvtManger, DisableJoin
<1> QED
  BY <1>1, <1>2, <1>3, <1>5, <1>6, <1>7, <1>8, <1>9, TestSteps

(* main advances by its own instructions only, and not to where its tables   *)
(* or its queue are not what it expects.                                     *)
LEMMA MainAdvances ==
    ASSUME StepInv, NEW t \in Client, Advances(prog, step, step', t)
    PROVE  /\ step["main"] \in Nat /\ step'["main"] \in Nat /\ step[t] \in Nat /\ step[t] # 0
           /\ t = "main" => step'["main"] = step["main"] + 1
           /\ t # "main" => step'["main"] = step["main"]
           /\ Instr(t).do = "init" <=> t = "main" /\ step["main"] = 1
           /\ Instr(t).do = "enable" <=> t = "main" /\ step["main"] = EnabledAt(prog)
           /\ Instr(t).do = "disable" <=> t = "main" /\ step["main"] = DisabledAt(prog)
<1>1. /\ AreSequences(prog) /\ RunByMain(prog) /\ LedByMain(prog) /\ "main" \in Client
      /\ step \in [Client -> Nat] /\ step' \in [Client -> Nat] /\ step[t] \in DOMAIN prog[t]
      /\ Instr(t) = prog[t][step[t]]
  BY TestPrograms, TestAssumption, TheInstr DEF InPrograms, Advances
<1>2. step[t] # 0
  BY <1>1 DEF AreSequences
<1>3. t # "main" => step'["main"] = step["main"]
  <2>1. ~Starts(prog, t, step[t], "main")
    BY <1>1 DEF LedByMain
  <2> QED
    BY <1>1, <2>1 DEF Advances
<1>4. t = "main" => step'["main"] = step["main"] + 1
  BY DEF Advances
<1>5. /\ Instr(t).do = "init" <=> t = "main" /\ step["main"] = 1
      /\ Instr(t).do = "enable" <=> t = "main" /\ step["main"] = EnabledAt(prog)
      /\ Instr(t).do = "disable" <=> t = "main" /\ step["main"] = DisabledAt(prog)
  BY <1>1 DEF RunByMain
<1> QED
  BY <1>1, <1>2, <1>3, <1>4, <1>5

LEMMA RunsNext ==
    ASSUME IInv, TestInv, TestNext
    PROVE  RunsInv'
<1>1. /\ StepInv /\ RunsInv /\ AreSequences(prog) /\ RunByMain(prog) /\ prog' = prog
      /\ step["main"] \in Nat
  BY TestPrograms, TestAssumption, SameTest DEF TestInv, InPrograms
<1>2. /\ EnabledAt(prog) \in Nat /\ DisabledAt(prog) \in Nat
      /\ 1 < EnabledAt(prog) /\ EnabledAt(prog) < DisabledAt(prog)
  BY <1>1, MainsPlaces
<1>3. (haveTables <=> step["main"] > 1)'
  BY <1>1, <1>2, RunSteps, MainAdvances DEF RunsInv
<1>4. ASSUME NEW u \in Client, step'[u] # 0, u # "main" PROVE step'["main"] > 1
  <2>1. CASE UNCHANGED step
    BY <1>1, <1>4, <2>1 DEF RunsInv
  <2>2. ASSUME NEW t \in Client, Advances(prog, step, step', t) PROVE step'["main"] > 1
    <3>1. CASE step["main"] > 1
      BY <1>1, <2>2, <3>1, MainAdvances
    <3>2. CASE ~(step["main"] > 1)
      <4>1. t = "main"
        BY <1>1, <2>2, <3>2, MainAdvances DEF RunsInv
      <4>2. step["main"] = 1
        BY <1>1, <2>2, <3>2, <4>1, MainAdvances
      <4> QED
        BY <1>1, <2>2, <4>1, <4>2, MainAdvances
    <3> QED
      BY <3>1, <3>2
  <2> QED
    BY <2>1, <2>2, OneAdvances
<1>5. procQueue' # None <=> EnabledAt(prog) < step'["main"] /\ step'["main"] <= DisabledAt(prog)
  <2>1. ASSUME NEW t \in Client, enableEvtManger(t) PROVE procQueue' # None
    BY <2>1, EvtMangerAssumption DEF enableEvtManger
  <2>2. ASSUME NEW t \in Client, DisableJoin(t) PROVE procQueue' = None
    BY <2>2 DEF DisableJoin
  <2> QED
    BY <1>1, <1>2, <2>1, <2>2, RunSteps, MainAdvances DEF RunsInv
<1> QED
  BY <1>1, <1>3, <1>4, <1>5 DEF RunsInv

-----------------------------------------------------------------------------
(* The parts of TestInv: operators.                                          *)

(* Nobody else does what the thread that advances does not do.               *)
LEMMA HeldSame ==
    ASSUME StepInv, NEW do \in DOMAIN UndoneBy,
           \/ UNCHANGED step
           \/ \E t \in Client : /\ Advances(prog, step, step', t)
                                /\ Instr(t).do # do /\ Instr(t).do # UndoneBy[do]
    PROVE  Held(prog, step', do) = Held(prog, step, do)
<1>1. ASSUME NEW t \in Client, Advances(prog, step, step', t),
             Instr(t).do # do, Instr(t).do # UndoneBy[do]
      PROVE  Held(prog, step', do) = Held(prog, step, do)
  BY <1>1, TestPrograms, TheInstr, HeldNext
<1> QED
  BY <1>1

(* Who registers and unregisters.                                            *)
LEMMA OperSteps ==
    ASSUME IInv, TestInv, TestNext
    PROVE  \/ \E t \in Client :
                 /\ Advances(prog, step, step', t)
                 /\ \/ /\ Instr(t).do = "reg" /\ doRegOper(t)
                       /\ opers' # opers => operID' =
                             [operID EXCEPT ![Instr(t).oper] = CHOOSE o \in opers' : o \notin opers]
                    \/ Instr(t).do = "unreg" /\ unregOper(t, ID(t)) /\ UNCHANGED operID
           \/ /\ UNCHANGED <<opers, operID>>
              /\ \/ UNCHANGED step
                 \/ \E t \in Client : /\ Advances(prog, step, step', t)
                                      /\ Instr(t).do # "reg" /\ Instr(t).do # "unreg"
<1>1. ASSUME NEW t \in Client, Instructs(t)
      PROVE  /\ UNCHANGED <<opers, operID>> /\ Advances(prog, step, step', t)
             /\ Instr(t).do # "reg" /\ Instr(t).do # "unreg"
  BY <1>1 DEF Instructs, ThreadInstrs
<1>2. ASSUME ProcMoves PROVE UNCHANGED <<opers, operID, step>>
  BY <1>2 DEF ProcMoves, ProcCall, ProcCbReturn, ProcWait, ProcTake, ProcLock, ProcDone,
     ProcCancelledInWait, ProcSkip, ProcSpuriousWakeup, PostCheck, PostNull, PostFull,
     PostEnqueue, PostSignal
<1>3. ASSUME NEW t \in Client, Calls_EVT(t)
      PROVE  \/ Instr(t).do = "reg" /\ doRegOper(t)
             \/ Instr(t).do = "unreg" /\ unregOper(t, ID(t))
             \/ Instr(t).do = "reg" /\ RegCheck(t)
             \/ Instr(t).do # "reg" /\ Instr(t).do # "unreg" /\ UNCHANGED opers
  <2>1. PLT_EVT(t)
    BY <1>3 DEF Calls_EVT, Call
  <2> QED
    BY <2>1 DEF PLT_EVT, At, initEvtManger, enableEvtManger, DisableCancel, DisableJoin,
       PubCheck, PubScan, PubStore, SubCheck, doSubEvts, PostCheck, PostNull, PostToFreed,
       PostFull, PostEnqueue, PostSignal, unpubEvts, UnsubCall, unsubEvts, FreeRow
<1>4. ASSUME NEW t \in Client, doRegOper(t) \/ unregOper(t, ID(t)) PROVE pc'[t] = "idle"
  BY <1>4, Types DEF PcType, Thread, doRegOper, unregOper, Goto, IsIdle
<1>5. ASSUME NEW t \in Client, RegCheck(t) PROVE UNCHANGED opers /\ pc'[t] # "idle"
  BY <1>5, Types DEF PcType, Thread, RegCheck, Goto
<1>6. ASSUME NEW t \in Client, Calls_EVT(t), pc'[t] = "idle"
      PROVE  Advances(prog, step, step', t)
  BY <1>6 DEF Calls_EVT
<1>7. ASSUME NEW t \in Client, Calls_EVT(t), pc'[t] # "idle" PROVE UNCHANGED step
  BY <1>7 DEF Calls_EVT
<1>8. ASSUME NEW t \in Client, Calls_EVT(t), ~doRegOper(t) PROVE UNCHANGED operID
  <2>1. UNCHANGED opers \/ unregOper(t, ID(t))
    BY <1>3, <1>5, <1>8
  <2> QED
    BY <1>8, <2>1 DEF Calls_EVT, Call, unregOper, IsIdle
<1>9. ASSUME NEW t \in Client, Calls_EVT(t), UNCHANGED opers PROVE UNCHANGED operID
  BY <1>9 DEF Calls_EVT, Call
<1>10. ASSUME NEW t \in Client, Calls_EVT(t), doRegOper(t), opers' # opers
       PROVE  operID' = [operID EXCEPT ![Instr(t).oper] = CHOOSE o \in opers' : o \notin opers]
  BY <1>10 DEF Calls_EVT, Call, doRegOper
<1>11. ASSUME NEW t \in Client, Calls_EVT(t)
       PROVE  \/ /\ Advances(prog, step, step', t)
                 /\ \/ /\ Instr(t).do = "reg" /\ doRegOper(t)
                       /\ opers' # opers => operID' =
                             [operID EXCEPT ![Instr(t).oper] = CHOOSE o \in opers' : o \notin opers]
                    \/ Instr(t).do = "unreg" /\ unregOper(t, ID(t)) /\ UNCHANGED operID
              \/ /\ UNCHANGED <<opers, operID>>
                 /\ \/ UNCHANGED step
                    \/ /\ Advances(prog, step, step', t)
                       /\ Instr(t).do # "reg" /\ Instr(t).do # "unreg"
  <2>1. CASE Instr(t).do = "reg" /\ doRegOper(t)
    BY <1>4, <1>6, <1>10, <1>11, <2>1
  <2>2. CASE Instr(t).do = "unreg" /\ unregOper(t, ID(t))
    <3>1. ~doRegOper(t)
      BY <2>2 DEF unregOper, IsIdle, doRegOper
    <3> QED
      BY <1>4, <1>6, <1>8, <1>11, <2>2, <3>1
  <2>3. CASE RegCheck(t)
    BY <1>5, <1>7, <1>9, <1>11, <2>3
  <2>4. CASE Instr(t).do # "reg" /\ Instr(t).do # "unreg" /\ UNCHANGED opers
    BY <1>6, <1>7, <1>9, <1>11, <2>4
  <2> QED
    BY <1>3, <1>11, <2>1, <2>2, <2>3, <2>4
<1> QED
  BY <1>1, <1>2, <1>11, TestSteps

(* A thread other than main runs after the init.                             *)
LEMMA HasTables ==
    ASSUME TestInv, NEW t \in Client, step[t] \in DOMAIN prog[t], Instr(t).do # "init"
    PROVE  haveTables
<1>1. /\ AreSequences(prog) /\ RunByMain(prog) /\ InPrograms(prog, step) /\ RunsInv
      /\ Instr(t) = prog[t][step[t]]
  BY TestPrograms, TheInstr DEF TestInv
<1>2. step[t] \in Nat \ {0}
  BY <1>1 DEF AreSequences
<1>3. t = "main" => step["main"] # 1
  BY <1>1 DEF RunByMain
<1> QED
  BY <1>1, <1>2, <1>3 DEF RunsInv

(* A test registers no more operators than the table has room for.           *)
LEMMA RegFits ==
    ASSUME IInv, TestInv, NEW t \in Client, step[t] \in DOMAIN prog[t], Instr(t).do = "reg"
    PROVE  FreeOperIDs # {}
<1>1. /\ AreSequences(prog) /\ TidyWithOpers(prog) /\ FitsInTables(prog)
      /\ InPrograms(prog, step) /\ OperInv /\ Instr(t) = prog[t][step[t]]
  BY TestPrograms, TheInstr DEF TestInv
<1>2. haveTables
  BY HasTables
<1> DEFINE H == Here(prog, step)
<1>3. /\ IsFiniteSet(H) /\ Cardinality(H) \in Nat
      /\ Cardinality(H) < Cardinality(Does(prog, "reg")) /\ Cardinality(Does(prog, "reg")) \in Nat
  BY <1>1, PlaceLeft, UndoneByIs DEF Here
<1> DEFINE h == [o \in opers |-> o]
<1>4. /\ \A o \in opers : \E x \in H : h[o] = operID[x]
      /\ \A q, r \in opers : h[q] = h[r] => q = r
  BY <1>1 DEF OperInv
<1> HIDE DEF H, h
<1>5. IsFiniteSet(opers) /\ Cardinality(opers) <= Cardinality(H)
  BY <1>3, <1>4, NoMoreThan
<1>6. Cardinality(opers) < RegMax
  <2>1. Cardinality(opers) \in Nat
    BY <1>5, FS_CardinalityType
  <2> QED
    BY <1>1, <1>3, <1>5, <2>1, EvtMangerAssumption DEF FitsInTables
<1>7. \E o \in 0 .. RegMax - 1 : o \notin opers
  BY <1>5, <1>6, IndexLeft, EvtMangerAssumption
<1> QED
  BY <1>2, <1>7 DEF FreeOperIDs, OperID

LEMMA OperInvNext ==
    ASSUME IInv, TestInv, TestNext
    PROVE  OperInv'
<1>1. /\ StepInv /\ OperInv /\ AreSequences(prog) /\ TidyWithOpers(prog)
      /\ InPrograms(prog, step) /\ prog' = prog
      /\ opers \subseteq OperID /\ operID \in [Oper -> OperID \cup {None}]
  BY TestPrograms, SameTest, Types DEF TestInv, OperInv, PSType
<1> DEFINE H == Here(prog, step)
           H2 == Here(prog, step')
<1>2. /\ \A x \in H : operID[x] \in opers
      /\ \A x, y \in H : operID[x] = operID[y] => x = y
      /\ \A o \in opers : \E x \in H : operID[x] = o
      /\ H \subseteq Oper
  BY <1>1 DEF OperInv, Here, Held
<1>3. SUFFICES
        /\ operID' \in [Oper -> OperID \cup {None}]
        /\ \A x \in H2 : operID'[x] \in opers'
        /\ \A x, y \in H2 : operID'[x] = operID'[y] => x = y
        /\ \A o \in opers' : \E x \in H2 : operID'[x] = o
  BY <1>1 DEF OperInv
<1>4. UndoneBy["reg"] = "unreg" /\ "reg" \in DOMAIN UndoneBy
  BY UndoneByIs
<1>5. ASSUME NEW t \in Client, Advances(prog, step, step', t),
             Instr(t).do = "reg" \/ Instr(t).do = "unreg"
      PROVE  LET x == Instr(t).oper
             IN  /\ step[t] \in DOMAIN prog[t] /\ x \in Oper
                 /\ Instr(t).do = "reg" => x \notin H /\ H2 = H \cup {x}
                 /\ Instr(t).do = "unreg" => x \in H /\ H2 = H \ {x}
  <2>1. step[t] \in DOMAIN prog[t] /\ Instr(t) = prog[t][step[t]]
    BY <1>5, TheInstr DEF Advances
  <2>2. Is(prog, t, step[t], Instr(t).do, Instr(t).oper)
    BY <2>1 DEF Is
  <2>3. Instr(t).oper \in Oper
    BY <1>1, <1>5, <2>1, <2>2, OnePlace, UndoneByIs
  <2> QED
    BY <1>1, <1>4, <1>5, <2>1, <2>3, HeldNext DEF Here
<1> HIDE DEF H, H2
<1>6. ASSUME NEW t \in Client, Advances(prog, step, step', t), Instr(t).do = "reg", doRegOper(t),
             opers' # opers => operID' =
                [operID EXCEPT ![Instr(t).oper] = CHOOSE o \in opers' : o \notin opers]
      PROVE  /\ operID' \in [Oper -> OperID \cup {None}]
             /\ \A x \in H2 : operID'[x] \in opers'
             /\ \A x, y \in H2 : operID'[x] = operID'[y] => x = y
             /\ \A o \in opers' : \E x \in H2 : operID'[x] = o
  <2>1. FreeOperIDs # {}
    BY <1>5, <1>6, RegFits
  <2>2. PICK o \in OperID : o \notin opers /\ opers' = opers \cup {o}
    BY <1>6, <2>1 DEF doRegOper, IsFirst, FreeOperIDs
  <2>3. (CHOOSE q \in opers' : q \notin opers) = o
    BY <2>2
  <2>4. operID' = [operID EXCEPT ![Instr(t).oper] = o]
    BY <1>6, <2>2, <2>3
  <2>5. Instr(t).oper \notin H /\ Instr(t).oper \in Oper /\ H2 = H \cup {Instr(t).oper}
    BY <1>5, <1>6
  <2>6. operID'[Instr(t).oper] = o /\ \A y \in H : operID'[y] = operID[y]
    BY <1>1, <1>2, <2>4, <2>5
  <2>7. operID' \in [Oper -> OperID \cup {None}]
    BY <1>1, <2>4
  <2> QED
    BY <1>2, <2>2, <2>5, <2>6, <2>7
<1>7. ASSUME NEW t \in Client, Advances(prog, step, step', t), Instr(t).do = "unreg",
             unregOper(t, ID(t)), UNCHANGED operID
      PROVE  /\ operID' \in [Oper -> OperID \cup {None}]
             /\ \A x \in H2 : operID'[x] \in opers'
             /\ \A x, y \in H2 : operID'[x] = operID'[y] => x = y
             /\ \A o \in opers' : \E x \in H2 : operID'[x] = o
  <2>1. opers' = opers \ {operID[Instr(t).oper]}
    BY <1>7 DEF unregOper, ID
  <2>2. Instr(t).oper \in H /\ H2 = H \ {Instr(t).oper}
    BY <1>5, <1>7
  <2> QED
    BY <1>1, <1>2, <1>7, <2>1, <2>2
<1>8. ASSUME UNCHANGED <<opers, operID>>,
             \/ UNCHANGED step
             \/ \E t \in Client : /\ Advances(prog, step, step', t)
                                  /\ Instr(t).do # "reg" /\ Instr(t).do # "unreg"
      PROVE  /\ operID' \in [Oper -> OperID \cup {None}]
             /\ \A x \in H2 : operID'[x] \in opers'
             /\ \A x, y \in H2 : operID'[x] = operID'[y] => x = y
             /\ \A o \in opers' : \E x \in H2 : operID'[x] = o
  <2>1. H2 = H
    BY <1>1, <1>4, <1>8, HeldSame DEF H, H2, Here
  <2> QED
    BY <1>1, <1>2, <1>8, <2>1
<1> QED
  BY <1>6, <1>7, <1>8, OperSteps

(* A registered operator keeps its ID.                                       *)
LEMMA KeepsID ==
    ASSUME IInv, TestInv, TestNext, NEW x \in Here(prog, step)
    PROVE  operID'[x] = operID[x]
<1>1. /\ StepInv /\ AreSequences(prog) /\ TidyWithOpers(prog) /\ InPrograms(prog, step)
      /\ UndoneBy["reg"] = "unreg" /\ "reg" \in DOMAIN UndoneBy
      /\ operID \in [Oper -> OperID \cup {None}] /\ x \in Oper
  BY TestPrograms, UndoneByIs DEF TestInv, OperInv, Here, Held
<1>2. ASSUME NEW t \in Client, Advances(prog, step, step', t), Instr(t).do = "reg"
      PROVE  Instr(t).oper # x
  <2>1. step[t] \in DOMAIN prog[t] /\ Instr(t) = prog[t][step[t]]
    BY <1>2, TheInstr DEF Advances
  <2>2. Is(prog, t, step[t], "reg", Instr(t).oper)
    BY <1>2, <2>1 DEF Is
  <2>3. ~Done(prog, step, "reg", Instr(t).oper)
    BY <1>1, <2>1, <2>2, AboutTo
  <2>4. Done(prog, step, "reg", x)
    BY DEF Here, Held
  <2> QED
    BY <2>3, <2>4
<1>3. ASSUME NEW t \in Client, Advances(prog, step, step', t), Instr(t).do = "reg", doRegOper(t)
      PROVE  opers' # opers
  <2>1. FreeOperIDs # {}
    BY <1>3, RegFits DEF Advances
  <2> QED
    BY <1>3, <2>1 DEF doRegOper, IsFirst, FreeOperIDs
<1>4. CASE UNCHANGED operID
  BY <1>4
<1>5. ASSUME NEW t \in Client, Advances(prog, step, step', t), Instr(t).do = "reg", doRegOper(t),
             operID' = [operID EXCEPT ![Instr(t).oper] = CHOOSE o \in opers' : o \notin opers]
      PROVE  operID'[x] = operID[x]
  <2>1. Instr(t).oper # x
    BY <1>2, <1>5
  <2> QED
    BY <1>1, <1>5, <2>1
<1> QED
  BY <1>3, <1>4, <1>5, OperSteps

-----------------------------------------------------------------------------
(* The parts of TestInv: the PubTable.                                       *)

(* A thread is about to store the row it has found, or has just found it.    *)
LEMMA StoresSince ==
    ASSUME IInv, Next, NEW u \in Client, pc'[u] = "pubStore"
    PROVE  PubScan(u) \/ (pc[u] = "pubStore" /\ pubRow'[u] = pubRow[u])
<1>1. PcType /\ PlaceInv /\ CallType /\ EvtProcer \notin Client
  BY Types, EvtMangerAssumption DEF IInv
<1> USE <1>1 DEF PcType, PlaceInv, CallType, Thread, ClientPc, ProcPc, Goto
<1>2. ASSUME NEW c \in Client,
             \/ initEvtManger(c) \/ enableEvtManger(c) \/ DisableCancel(c) \/ DisableJoin(c)
      PROVE  pc[u] = "pubStore" /\ pubRow'[u] = pubRow[u]
  BY <1>2 DEF initEvtManger, enableEvtManger, DisableCancel, DisableJoin, IsIdle
<1>3. ASSUME NEW c \in Client, NEW o \in OperID,
             \/ RegCheck(c) \/ doRegOper(c) \/ PubStore(c)
             \/ unregOper(c, o) \/ PubCheck(c, o) \/ unpubEvts(c, o)
      PROVE  pc[u] = "pubStore" /\ pubRow'[u] = pubRow[u]
  BY <1>3 DEF RegCheck, doRegOper, PubStore, PubReturn, unregOper, PubCheck,
     unpubEvts, IsIdle
<1>4. ASSUME NEW c \in Client, PubScan(c)
      PROVE  c = u \/ (pc[u] = "pubStore" /\ pubRow'[u] = pubRow[u])
  BY <1>4 DEF PubScan, PubReturn
<1>5. ASSUME NEW c \in Client, NEW o \in OperID,
             doSubEvts(c) \/ unsubEvts(c) \/ SubCheck(c, o) \/ UnsubCall(c, o)
      PROVE  pc[u] = "pubStore" /\ pubRow'[u] = pubRow[u]
  BY <1>5 DEF doSubEvts, unsubEvts, FreeRow, SubReturn, SubCheck, UnsubCall, IsIdle
<1>6. ASSUME NEW t \in Thread, postEvtSRT(t)
      PROVE  pc[u] = "pubStore" /\ pubRow'[u] = pubRow[u]
  BY <1>6 DEF postEvtSRT, PostCheck, PostNull, PostToFreed, PostFull, PostEnqueue,
     PostSignal, PostReturn, AtQueue, ReturnTo, Crash
<1>7. ASSUME EvtProcer_Thread
      PROVE  pc[u] = "pubStore" /\ pubRow'[u] = pubRow[u]
  BY <1>7 DEF EvtProcer_Thread, ProcWait, ProcSpuriousWakeup, ProcTake, ProcLock, ProcCall,
     ProcSkip, ProcCbReturn, ProcDone, ProcCancelledInWait, ProcCancelledInCb
<1>8. 0 \in OperID
  BY EvtMangerAssumption DEF OperID
<1> QED
  BY <1>2, <1>3, <1>4, <1>5, <1>6, <1>7, <1>8 DEF Next

(* Who stores and frees rows of it.                                          *)
LEMMA PubTableSteps ==
    ASSUME IInv, TestInv, TestNext
    PROVE  \/ \E t \in Client :
                 /\ Advances(prog, step, step', t)
                 /\ \/ Instr(t).do = "pub" /\ PubStore(t)
                    \/ Instr(t).do = "unpub" /\ unpubEvts(t, ID(t))
                    \/ /\ Instr(t).do = "unpub" /\ UNCHANGED pubTable
                       /\ \A r \in PubRow \ {PubMax} : pubTable[r] # ID(t)
           \/ /\ UNCHANGED pubTable
              /\ \/ UNCHANGED step
                 \/ \E t \in Client :
                       /\ Advances(prog, step, step', t)
                       /\ \/ Instr(t).do # "pub" /\ Instr(t).do # "unpub"
                          \/ Instr(t).do = "pub" /\ FreePubRows = {}
<1>1. ASSUME NEW t \in Client, Instructs(t)
      PROVE  /\ UNCHANGED pubTable /\ Advances(prog, step, step', t)
             /\ Instr(t).do # "pub" /\ Instr(t).do # "unpub"
  BY <1>1 DEF Instructs, ThreadInstrs
<1>2. ASSUME ProcMoves PROVE UNCHANGED <<pubTable, step>>
  BY <1>2 DEF ProcMoves, ProcCall, ProcCbReturn, ProcWait, ProcTake, ProcLock, ProcDone,
     ProcCancelledInWait, ProcSkip, ProcSpuriousWakeup, PostCheck, PostNull, PostFull,
     PostEnqueue, PostSignal
<1>3. ASSUME NEW t \in Client, Calls_EVT(t)
      PROVE  \/ Instr(t).do = "pub" /\ (PubStore(t) \/ PubCheck(t, ID(t)) \/ PubScan(t))
             \/ /\ Instr(t).do = "unpub"
                /\ \/ unpubEvts(t, ID(t))
                   \/ UNCHANGED vars /\ \A r \in PubRow \ {PubMax} : pubTable[r] # ID(t)
             \/ Instr(t).do # "pub" /\ Instr(t).do # "unpub" /\ UNCHANGED pubTable
  <2>1. PLT_EVT(t)
    BY <1>3 DEF Calls_EVT, Call
  <2> QED
    BY <2>1 DEF PLT_EVT, At, initEvtManger, enableEvtManger, DisableCancel, DisableJoin,
       RegCheck, doRegOper, unregOper, SubCheck, doSubEvts, PostCheck, PostNull, PostToFreed,
       PostFull, PostEnqueue, PostSignal, UnsubCall, unsubEvts, FreeRow
<1>4. ASSUME NEW t \in Client, PubStore(t) \/ unpubEvts(t, ID(t)) PROVE pc'[t] = "idle"
  BY <1>4, Types DEF PcType, Thread, PubStore, PubReturn, unpubEvts, Goto, IsIdle
<1>5. ASSUME NEW t \in Client, PubCheck(t, ID(t)) \/ (PubScan(t) /\ FreePubRows # {})
      PROVE  UNCHANGED pubTable /\ pc'[t] # "idle"
  BY <1>5, Types DEF PcType, Thread, PubCheck, PubScan, Goto
<1>6. ASSUME NEW t \in Client, PubScan(t), FreePubRows = {}
      PROVE  UNCHANGED pubTable /\ pc'[t] = "idle"
  BY <1>6, Types DEF PcType, Thread, PubScan, PubReturn, Goto
<1>7. ASSUME NEW t \in Client, Calls_EVT(t), UNCHANGED vars, Instr(t).do = "unpub"
      PROVE  pc'[t] = "idle"
  BY <1>7 DEF TestInv, CallInv
<1>8. ASSUME NEW t \in Client, Calls_EVT(t), pc'[t] = "idle"
      PROVE  Advances(prog, step, step', t)
  BY <1>8 DEF Calls_EVT
<1>9. ASSUME NEW t \in Client, Calls_EVT(t), pc'[t] # "idle" PROVE UNCHANGED step
  BY <1>9 DEF Calls_EVT
<1>10. ASSUME NEW t \in Client, Calls_EVT(t)
       PROVE  \/ /\ Advances(prog, step, step', t)
                 /\ \/ Instr(t).do = "pub" /\ PubStore(t)
                    \/ Instr(t).do = "unpub" /\ unpubEvts(t, ID(t))
                    \/ /\ Instr(t).do = "unpub" /\ UNCHANGED pubTable
                       /\ \A r \in PubRow \ {PubMax} : pubTable[r] # ID(t)
              \/ /\ UNCHANGED pubTable
                 /\ \/ UNCHANGED step
                    \/ /\ Advances(prog, step, step', t)
                       /\ \/ Instr(t).do # "pub" /\ Instr(t).do # "unpub"
                          \/ Instr(t).do = "pub" /\ FreePubRows = {}
  <2>1. CASE Instr(t).do = "pub" /\ PubStore(t)
    BY <1>4, <1>8, <1>10, <2>1
  <2>2. CASE Instr(t).do = "pub" /\ (PubCheck(t, ID(t)) \/ PubScan(t))
    BY <1>5, <1>6, <1>8, <1>9, <1>10, <2>2
  <2>3. CASE Instr(t).do = "unpub" /\ unpubEvts(t, ID(t))
    BY <1>4, <1>8, <1>10, <2>3
  <2>4. CASE /\ Instr(t).do = "unpub" /\ UNCHANGED vars
             /\ \A r \in PubRow \ {PubMax} : pubTable[r] # ID(t)
    BY <1>7, <1>8, <1>10, <2>4
  <2>5. CASE Instr(t).do # "pub" /\ Instr(t).do # "unpub" /\ UNCHANGED pubTable
    BY <1>8, <1>9, <1>10, <2>5
  <2> QED
    BY <1>3, <1>10, <2>1, <2>2, <2>3, <2>4, <2>5
<1> QED
  BY <1>1, <1>2, <1>10, TestSteps

(* A test publishes no more than the table has room for.                     *)
LEMMA PubFits ==
    ASSUME IInv, TestInv, NEW t \in Client, step[t] \in DOMAIN prog[t], Instr(t).do = "pub"
    PROVE  \E r \in FreePubRows : r \in PubRow /\ r < PubMax
<1>1. /\ AreSequences(prog) /\ TidyWithOpers(prog) /\ FitsInTables(prog)
      /\ InPrograms(prog, step) /\ PubInv /\ Instr(t) = prog[t][step[t]]
  BY TestPrograms, TheInstr DEF TestInv
<1> DEFINE P == Pubers(prog, step)
           S == {r \in PubRow : pubTable[r] # None}
<1>2. /\ IsFiniteSet(P) /\ Cardinality(P) \in Nat
      /\ Cardinality(P) < Cardinality(Does(prog, "pub")) /\ Cardinality(Does(prog, "pub")) \in Nat
  BY <1>1, PlaceLeft, UndoneByIs DEF Pubers
<1>3. /\ \A r \in S : \E x \in P : pubTable[r] = operID[x]
      /\ \A q, r \in S : pubTable[q] = pubTable[r] => q = r
  BY <1>1 DEF PubInv
<1> HIDE DEF P, S
<1>4. IsFiniteSet(S) /\ Cardinality(S) <= Cardinality(P)
  BY <1>2, <1>3, NoMoreThan
<1>5. Cardinality(S) < PubMax
  <2>1. Cardinality(S) \in Nat
    BY <1>4, FS_CardinalityType
  <2> QED
    BY <1>1, <1>2, <1>4, <2>1, EvtMangerAssumption DEF FitsInTables
<1>6. PICK r \in 0 .. PubMax - 1 : r \notin S
  BY <1>4, <1>5, IndexLeft, EvtMangerAssumption
<1>7. r \in PubRow /\ r < PubMax
  BY EvtMangerAssumption DEF PubRow
<1> QED
  BY <1>6, <1>7 DEF FreePubRows, S

LEMMA PubInvNext ==
    ASSUME IInv, TestInv, TestNext
    PROVE  PubInv'
<1>1. /\ StepInv /\ PubInv /\ OperInv /\ CallInv /\ FrameInv
      /\ AreSequences(prog) /\ TidyWithOpers(prog) /\ InPrograms(prog, step) /\ prog' = prog
      /\ opers \subseteq OperID /\ operID \in [Oper -> OperID \cup {None}]
      /\ pubTable \in [PubRow -> OperID \cup {None}]
      /\ None \notin OperID
  BY TestPrograms, SameTest, Types, EvtMangerAssumption
     DEF TestInv, OperInv, PSType, IInv, OperID
<1> DEFINE H  == Here(prog, step)
           P  == Pubers(prog, step)
           P2 == Pubers(prog, step')
<1>2. /\ \A x \in H : operID[x] \in opers
      /\ \A x, y \in H : operID[x] = operID[y] => x = y
      /\ \A x \in H : operID'[x] = operID[x]
  BY <1>1, KeepsID DEF OperInv
<1>3. /\ UndoneBy["pub"] = "unpub" /\ "pub" \in DOMAIN UndoneBy
      /\ "pub" \in OperCalls \ {"reg"} /\ "unpub" \in OperCalls \ {"reg"}
  BY UndoneByIs
<1>4. P \subseteq H
  BY <1>1, <1>3, HeldHere DEF Pubers
<1>5. ASSUME NEW t \in Client, Advances(prog, step, step', t),
             Instr(t).do = "pub" \/ Instr(t).do = "unpub"
      PROVE  LET x == Instr(t).oper
             IN  /\ step[t] \in DOMAIN prog[t] /\ x \in H
                 /\ Instr(t).do = "pub" => x \notin P /\ P2 = P \cup {x}
                 /\ Instr(t).do = "unpub" => x \in P /\ P2 = P \ {x}
  <2>1. step[t] \in DOMAIN prog[t] /\ Instr(t) = prog[t][step[t]]
    BY <1>5, TheInstr DEF Advances
  <2>2. Is(prog, t, step[t], Instr(t).do, Instr(t).oper)
    BY <2>1 DEF Is
  <2>3. Instr(t).oper \in H
    BY <1>1, <1>3, <1>5, <2>1, <2>2, WithOperHere
  <2> QED
    BY <1>1, <1>3, <1>5, <2>1, <2>3, HeldNext DEF Pubers
<1>6. /\ \A r \in PubRow : pubTable[r] # None =>
            r # PubMax /\ \E x \in P : pubTable[r] = operID[x]
      /\ \A q, r \in PubRow : pubTable[q] # None /\ pubTable[q] = pubTable[r] => q = r
  BY <1>1 DEF PubInv
<1>7. ASSUME NEW u \in Client, pc'[u] = "pubStore" PROVE pubRow'[u] # PubMax
  <2>1. [Next]_vars
    BY TestRunsManger
  <2>2. CASE UNCHANGED vars
    BY <1>1, <1>7, <2>2 DEF PubInv
  <2>3. CASE Next
    <3>1. CASE PubScan(u)
      <4>1. step[u] \in DOMAIN prog[u] /\ Instr(u).do = "pub"
        BY <1>1, <3>1 DEF CallInv, PubScan
      <4>2. PICK q \in FreePubRows : q \in PubRow /\ q < PubMax
        BY <4>1, PubFits
      <4>3. PICK r \in PubRow : IsFirst(r, FreePubRows) /\ pubRow' = [pubRow EXCEPT ![u] = r]
        BY <3>1, <4>2 DEF PubScan
      <4>4. r <= q
        BY <4>2, <4>3 DEF IsFirst
      <4>5. pubRow'[u] = r
        BY <4>3, Types DEF CallType
      <4> QED
        BY <4>2, <4>3, <4>4, <4>5, EvtMangerAssumption DEF PubRow
    <3> QED
      BY <1>1, <1>7, <2>3, <3>1, StoresSince DEF PubInv
  <2> QED
    BY <2>1, <2>2, <2>3
<1>8. SUFFICES
        /\ \A r \in PubRow : pubTable'[r] # None =>
              r # PubMax /\ \E x \in P2 : pubTable'[r] = operID'[x]
        /\ \A q, r \in PubRow : pubTable'[q] # None /\ pubTable'[q] = pubTable'[r] => q = r
  BY <1>1, <1>7 DEF PubInv
<1> HIDE DEF H, P, P2
<1>9. ASSUME NEW t \in Client, Advances(prog, step, step', t), Instr(t).do = "pub", PubStore(t)
      PROVE  /\ \A r \in PubRow : pubTable'[r] # None =>
                   r # PubMax /\ \E x \in P2 : pubTable'[r] = operID'[x]
             /\ \A q, r \in PubRow : pubTable'[q] # None /\ pubTable'[q] = pubTable'[r] => q = r
  <2>1. oper[t] = operID[Instr(t).oper] /\ pubRow[t] # PubMax /\ pubRow[t] \in PubRow
    BY <1>1, <1>9 DEF CallInv, PubStore, ID, PubInv, FrameInv
  <2>2. pubTable' = [pubTable EXCEPT ![pubRow[t]] = operID[Instr(t).oper]]
    BY <1>9, <2>1 DEF PubStore
  <2>3. Instr(t).oper \in H /\ Instr(t).oper \notin P /\ P2 = P \cup {Instr(t).oper}
    BY <1>5, <1>9
  <2>4. \A x \in P2 : operID'[x] = operID[x]
    BY <1>2, <1>4, <2>3
  <2>5. \A r \in PubRow : pubTable[r] # operID[Instr(t).oper]
    BY <1>1, <1>2, <1>4, <1>6, <2>3
  <2>6. \A r \in PubRow : pubTable'[r] = IF r = pubRow[t] THEN operID[Instr(t).oper] ELSE pubTable[r]
    BY <1>1, <2>2
  <2> QED
    BY <1>6, <2>1, <2>3, <2>4, <2>5, <2>6
<1>10. ASSUME NEW t \in Client, Advances(prog, step, step', t), Instr(t).do = "unpub",
              unpubEvts(t, ID(t))
       PROVE  /\ \A r \in PubRow : pubTable'[r] # None =>
                    r # PubMax /\ \E x \in P2 : pubTable'[r] = operID'[x]
              /\ \A q, r \in PubRow : pubTable'[q] # None /\ pubTable'[q] = pubTable'[r] => q = r
  <2>1. Instr(t).oper \in H /\ Instr(t).oper \in P /\ P2 = P \ {Instr(t).oper}
    BY <1>5, <1>10
  <2>2. PICK q \in PubRow : /\ pubTable[q] = operID[Instr(t).oper]
                            /\ pubTable' = [pubTable EXCEPT ![q] = None]
    BY <1>10 DEF unpubEvts, IsFirst, ID
  <2>3. \A x \in P2 : operID'[x] = operID[x]
    BY <1>2, <1>4, <2>1
  <2>4. \A r \in PubRow : pubTable'[r] = IF r = q THEN None ELSE pubTable[r]
    BY <1>1, <2>2
  <2>5. pubTable[q] # None
    BY <1>1, <1>2, <2>1, <2>2
  <2>6. ASSUME NEW r \in PubRow, pubTable'[r] # None
        PROVE  r # PubMax /\ \E x \in P2 : pubTable'[r] = operID'[x]
    <3>1. r # q /\ pubTable'[r] = pubTable[r] /\ pubTable[r] # pubTable[q]
      BY <1>6, <2>4, <2>5, <2>6
    <3>2. PICK x \in P : pubTable[r] = operID[x]
      BY <1>6, <2>6, <3>1
    <3> QED
      BY <1>6, <2>1, <2>2, <2>3, <2>6, <3>1, <3>2
  <2> QED
    BY <1>6, <2>4, <2>6
<1>11. ASSUME NEW t \in Client, Advances(prog, step, step', t), Instr(t).do = "unpub",
              UNCHANGED pubTable, \A r \in PubRow \ {PubMax} : pubTable[r] # ID(t)
       PROVE  /\ \A r \in PubRow : pubTable'[r] # None =>
                    r # PubMax /\ \E x \in P2 : pubTable'[r] = operID'[x]
              /\ \A q, r \in PubRow : pubTable'[q] # None /\ pubTable'[q] = pubTable'[r] => q = r
  <2>1. P2 = P \ {Instr(t).oper}
    BY <1>5, <1>11
  <2>2. \A x \in P2 : operID'[x] = operID[x]
    BY <1>2, <1>4, <2>1
  <2> QED
    BY <1>6, <1>11, <2>1, <2>2 DEF ID
<1>12. ASSUME UNCHANGED pubTable, P2 = P
       PROVE  /\ \A r \in PubRow : pubTable'[r] # None =>
                    r # PubMax /\ \E x \in P2 : pubTable'[r] = operID'[x]
              /\ \A q, r \in PubRow : pubTable'[q] # None /\ pubTable'[q] = pubTable'[r] => q = r
  BY <1>2, <1>4, <1>6, <1>12
<1>13. ASSUME \/ UNCHANGED step
              \/ \E t \in Client : /\ Advances(prog, step, step', t)
                                   /\ Instr(t).do # "pub" /\ Instr(t).do # "unpub"
       PROVE  P2 = P
  BY <1>1, <1>3, <1>13, HeldSame DEF P, P2, Pubers
<1>14. ASSUME NEW t \in Client, Advances(prog, step, step', t), Instr(t).do = "pub"
       PROVE  FreePubRows # {}
  BY <1>5, <1>14, PubFits
<1> QED
  BY <1>9, <1>10, <1>11, <1>12, <1>13, <1>14, PubTableSteps

-----------------------------------------------------------------------------
(* The parts of TestInv: the SubTable.                                       *)

(* Who takes and frees rows of it.                                           *)
LEMMA SubTableSteps ==
    ASSUME IInv, TestInv, TestNext
    PROVE  \/ \E t \in Client :
                 /\ Advances(prog, step, step', t)
                 /\ \/ Instr(t).do = "sub" /\ doSubEvts(t)
                    \/ Instr(t).do = "unsub" /\ unsubEvts(t)
           \/ /\ UNCHANGED subTable
              /\ \/ UNCHANGED step
                 \/ \E t \in Client : /\ Advances(prog, step, step', t)
                                      /\ Instr(t).do # "sub" /\ Instr(t).do # "unsub"
<1>1. ASSUME NEW t \in Client, Instructs(t)
      PROVE  /\ UNCHANGED subTable /\ Advances(prog, step, step', t)
             /\ Instr(t).do # "sub" /\ Instr(t).do # "unsub"
  BY <1>1 DEF Instructs, ThreadInstrs
<1>2. ASSUME ProcMoves PROVE UNCHANGED <<subTable, step>>
  BY <1>2 DEF ProcMoves, ProcCall, ProcCbReturn, ProcWait, ProcTake, ProcLock, ProcDone,
     ProcCancelledInWait, ProcSkip, ProcSpuriousWakeup, PostCheck, PostNull, PostFull,
     PostEnqueue, PostSignal
<1>3. ASSUME NEW t \in Client, Calls_EVT(t)
      PROVE  \/ Instr(t).do = "sub" /\ (doSubEvts(t) \/ SubCheck(t, ID(t)))
             \/ Instr(t).do = "unsub" /\ (unsubEvts(t) \/ UnsubCall(t, ID(t)))
             \/ Instr(t).do # "sub" /\ Instr(t).do # "unsub" /\ UNCHANGED subTable
  <2>1. PLT_EVT(t)
    BY <1>3 DEF Calls_EVT, Call
  <2> QED
    BY <2>1 DEF PLT_EVT, At, initEvtManger, enableEvtManger, DisableCancel, DisableJoin,
       RegCheck, doRegOper, unregOper, PubCheck, PubScan, PubStore, unpubEvts, PostCheck,
       PostNull, PostToFreed, PostFull, PostEnqueue, PostSignal
<1>4. ASSUME NEW t \in Client, doSubEvts(t) \/ unsubEvts(t) PROVE pc'[t] = "idle"
  BY <1>4, Types DEF PcType, Thread, doSubEvts, unsubEvts, FreeRow, SubReturn, Goto
<1>5. ASSUME NEW t \in Client, SubCheck(t, ID(t)) \/ UnsubCall(t, ID(t))
      PROVE  UNCHANGED subTable /\ pc'[t] # "idle"
  BY <1>5, Types DEF PcType, Thread, SubCheck, UnsubCall, Goto
<1>6. ASSUME NEW t \in Client, Calls_EVT(t), pc'[t] = "idle"
      PROVE  Advances(prog, step, step', t)
  BY <1>6 DEF Calls_EVT
<1>7. ASSUME NEW t \in Client, Calls_EVT(t), pc'[t] # "idle" PROVE UNCHANGED step
  BY <1>7 DEF Calls_EVT
<1> QED
  BY <1>1, <1>2, <1>3, <1>4, <1>5, <1>6, <1>7, TestSteps

(* A test subscribes no more than the table has room for.                    *)
LEMMA SubFits ==
    ASSUME IInv, TestInv, NEW t \in Client, step[t] \in DOMAIN prog[t], Instr(t).do = "sub"
    PROVE  FreeSubRows # {}
<1>1. /\ AreSequences(prog) /\ TidyWithOpers(prog) /\ FitsInTables(prog)
      /\ InPrograms(prog, step) /\ SubInv /\ Instr(t) = prog[t][step[t]]
  BY TestPrograms, TheInstr DEF TestInv
<1> DEFINE P == Subers(prog, step)
           S == {r \in SubRow : subTable[r] # None}
           h == [r \in S |-> subTable[r].suber]
<1>2. /\ IsFiniteSet(P) /\ Cardinality(P) \in Nat
      /\ Cardinality(P) < Cardinality(Does(prog, "sub")) /\ Cardinality(Does(prog, "sub")) \in Nat
  BY <1>1, PlaceLeft, UndoneByIs DEF Subers
<1>3. /\ \A r \in S : \E x \in P : h[r] = operID[x]
      /\ \A q, r \in S : h[q] = h[r] => q = r
  BY <1>1 DEF SubInv
<1> HIDE DEF P, S, h
<1>4. IsFiniteSet(S) /\ Cardinality(S) <= Cardinality(P)
  BY <1>2, <1>3, NoMoreThan
<1>5. Cardinality(S) < SubMax
  <2>1. Cardinality(S) \in Nat
    BY <1>4, FS_CardinalityType
  <2> QED
    BY <1>1, <1>2, <1>4, <2>1, EvtMangerAssumption DEF FitsInTables
<1>6. PICK r \in 0 .. SubMax - 1 : r \notin S
  BY <1>4, <1>5, IndexLeft, EvtMangerAssumption
<1> QED
  BY <1>6 DEF FreeSubRows, SubRow, S

LEMMA SubInvNext ==
    ASSUME IInv, TestInv, TestNext
    PROVE  SubInv'
<1>1. /\ StepInv /\ SubInv /\ OperInv /\ CallInv
      /\ AreSequences(prog) /\ TidyWithOpers(prog) /\ InPrograms(prog, step) /\ prog' = prog
      /\ subTable \in [SubRow -> Subscription \cup {None}]
      /\ None \notin Subscription
  BY TestPrograms, SameTest, Types, EvtMangerAssumption DEF TestInv, PSType
<1> DEFINE H  == Here(prog, step)
           P  == Subers(prog, step)
           P2 == Subers(prog, step')
<1>2. /\ \A x, y \in H : operID[x] = operID[y] => x = y
      /\ \A x \in H : operID'[x] = operID[x]
  BY <1>1, KeepsID DEF OperInv
<1>3. /\ UndoneBy["sub"] = "unsub" /\ "sub" \in DOMAIN UndoneBy
      /\ "sub" \in OperCalls \ {"reg"} /\ "unsub" \in OperCalls \ {"reg"}
  BY UndoneByIs
<1>4. P \subseteq H
  BY <1>1, <1>3, HeldHere DEF Subers
<1>5. ASSUME NEW t \in Client, Advances(prog, step, step', t),
             Instr(t).do = "sub" \/ Instr(t).do = "unsub"
      PROVE  LET x == Instr(t).oper
             IN  /\ step[t] \in DOMAIN prog[t] /\ x \in H
                 /\ Instr(t).do = "sub" => x \notin P /\ P2 = P \cup {x}
                 /\ Instr(t).do = "unsub" => x \in P /\ P2 = P \ {x}
  <2>1. step[t] \in DOMAIN prog[t] /\ Instr(t) = prog[t][step[t]]
    BY <1>5, TheInstr DEF Advances
  <2>2. Is(prog, t, step[t], Instr(t).do, Instr(t).oper)
    BY <2>1 DEF Is
  <2>3. Instr(t).oper \in H
    BY <1>1, <1>3, <1>5, <2>1, <2>2, WithOperHere
  <2>4. LET x == prog[t][step[t]].oper
        IN  CASE prog[t][step[t]].do = "sub" ->
                   x \notin Held(prog, step, "sub")
                   /\ Held(prog, step', "sub") = Held(prog, step, "sub") \cup {x}
              [] prog[t][step[t]].do = UndoneBy["sub"] ->
                   x \in Held(prog, step, "sub")
                   /\ Held(prog, step', "sub") = Held(prog, step, "sub") \ {x}
              [] OTHER -> Held(prog, step', "sub") = Held(prog, step, "sub")
    BY <1>1, <1>3, <1>5, HeldNext
  <2> QED
    BY <1>3, <1>5, <2>1, <2>3, <2>4 DEF Subers
<1>6. /\ \A r \in SubRow : subTable[r] # None => \E x \in P : subTable[r].suber = operID[x]
      /\ \A q, r \in SubRow :
            subTable[q] # None /\ subTable[r] # None /\ subTable[q].suber = subTable[r].suber
               => q = r
  BY <1>1 DEF SubInv
<1>7. SUFFICES
        /\ \A r \in SubRow : subTable'[r] # None => \E x \in P2 : subTable'[r].suber = operID'[x]
        /\ \A q, r \in SubRow :
              subTable'[q] # None /\ subTable'[r] # None /\ subTable'[q].suber = subTable'[r].suber
                 => q = r
  BY <1>1 DEF SubInv
<1> HIDE DEF H, P, P2
<1>8. ASSUME NEW t \in Client, Advances(prog, step, step', t), Instr(t).do = "sub", doSubEvts(t)
      PROVE
        /\ \A r \in SubRow : subTable'[r] # None => \E x \in P2 : subTable'[r].suber = operID'[x]
        /\ \A q, r \in SubRow :
              subTable'[q] # None /\ subTable'[r] # None /\ subTable'[q].suber = subTable'[r].suber
                 => q = r
  <2>1. oper[t] = operID[Instr(t).oper]
    BY <1>1, <1>8 DEF CallInv, doSubEvts, ID
  <2>2. FreeSubRows # {}
    BY <1>5, <1>8, SubFits
  <2>3. PICK n \in SubRow, ids \in SubArgs :
           subTable' = [subTable EXCEPT ![n] = [suber |-> oper[t], ids |-> ids]]
    BY <1>8, <2>2 DEF doSubEvts
  <2>4. Instr(t).oper \in H /\ Instr(t).oper \notin P /\ P2 = P \cup {Instr(t).oper}
    BY <1>5, <1>8
  <2>5. \A x \in P2 : operID'[x] = operID[x]
    BY <1>2, <1>4, <2>4
  <2>6. \A r \in SubRow : subTable[r] # None => subTable[r].suber # operID[Instr(t).oper]
    BY <1>2, <1>4, <1>6, <2>4
  <2>7. /\ \A r \in SubRow \ {n} : subTable'[r] = subTable[r]
        /\ subTable'[n].suber = operID[Instr(t).oper]
    BY <1>1, <2>1, <2>3
  <2> QED
    BY <1>6, <2>4, <2>5, <2>6, <2>7
<1>9. ASSUME NEW t \in Client, Advances(prog, step, step', t), Instr(t).do = "unsub", unsubEvts(t)
      PROVE
        /\ \A r \in SubRow : subTable'[r] # None => \E x \in P2 : subTable'[r].suber = operID'[x]
        /\ \A q, r \in SubRow :
              subTable'[q] # None /\ subTable'[r] # None /\ subTable'[q].suber = subTable'[r].suber
                 => q = r
  <2>1. oper[t] = operID[Instr(t).oper]
    BY <1>1, <1>9 DEF CallInv, unsubEvts, ID
  <2>2. Instr(t).oper \in P /\ P2 = P \ {Instr(t).oper}
    BY <1>5, <1>9
  <2>3. \A x \in P2 : operID'[x] = operID[x]
    BY <1>2, <1>4, <2>2
  <2>4. \A r \in SubRow : subTable'[r] # None =>
           subTable'[r] = subTable[r] /\ subTable[r].suber # operID[Instr(t).oper]
    <3>1. CASE RowsOf(oper[t]) = {}
      BY <1>9, <2>1, <3>1 DEF unsubEvts, FreeRow, RowsOf
    <3>2. CASE RowsOf(oper[t]) # {}
      <4>1. PICK n \in SubRow : n \in RowsOf(oper[t]) /\ subTable' = [subTable EXCEPT ![n] = None]
        BY <1>9, <3>2 DEF unsubEvts, FreeRow, IsFirst
      <4>2. subTable[n] # None /\ subTable[n].suber = operID[Instr(t).oper]
        BY <2>1, <4>1 DEF RowsOf
      <4>3. \A r \in SubRow : subTable'[r] = IF r = n THEN None ELSE subTable[r]
        BY <1>1, <4>1
      <4> QED
        BY <1>6, <4>2, <4>3
    <3> QED
      BY <3>1, <3>2
  <2> QED
    BY <1>6, <2>2, <2>3, <2>4
<1>10. ASSUME UNCHANGED subTable, P2 = P
       PROVE
        /\ \A r \in SubRow : subTable'[r] # None => \E x \in P2 : subTable'[r].suber = operID'[x]
        /\ \A q, r \in SubRow :
              subTable'[q] # None /\ subTable'[r] # None /\ subTable'[q].suber = subTable'[r].suber
                 => q = r
  BY <1>2, <1>4, <1>6, <1>10
<1>11. ASSUME \/ UNCHANGED step
              \/ \E t \in Client : /\ Advances(prog, step, step', t)
                                   /\ Instr(t).do # "sub" /\ Instr(t).do # "unsub"
       PROVE  P2 = P
  BY <1>1, <1>3, <1>11, HeldSame DEF P, P2, Subers
<1> QED
  BY <1>8, <1>9, <1>10, <1>11, SubTableSteps

-----------------------------------------------------------------------------
(* The parts of TestInv: calls.                                              *)

(* While a thread posts, main is between enable and disable.                 *)
LEMMA PostsBetween ==
    ASSUME NEW p, NEW st, AreSequences(p), RunByMain(p), PostsWhileRunning(p),
           InPrograms(p, st), InStep(p, st), NEW t \in Client, st[t] \in DOMAIN p[t],
           p[t][st[t]].do = "post"
    PROVE  EnabledAt(p) < st["main"] /\ st["main"] <= DisabledAt(p)
<1>1. IsEnabled(p, t, st[t]) /\ IsNotDisabled(p, t, st[t])
  BY DEF PostsWhileRunning
<1>2. st[t] # 0
  BY DEF AreSequences
<1> QED
  BY <1>1, <1>2, Enabled, NotDisabled

(* So no post finds the queue missing, or freed.                             *)
LEMMA FindsQueue ==
    ASSUME IInv, TestInv, NEW t \in Thread, pc[t] \in {"post", "signal"}
    PROVE  pQueue[t] = procQueue /\ procQueue # None
<1>1. pQueue[t] = procQueue
  BY DEF TestInv, CallInv
<1>2. CASE t \in Client
  <2>1. step[t] \in DOMAIN prog[t] /\ prog[t][step[t]].do = "post"
    BY <1>2, TheInstr DEF TestInv, CallInv
  <2>2. EnabledAt(prog) < step["main"] /\ step["main"] <= DisabledAt(prog)
    BY <1>2, <2>1, PostsBetween, TestPrograms DEF TestInv, ThreadsInv
  <2> QED
    BY <1>1, <2>2 DEF TestInv, RunsInv
<1>3. CASE t = EvtProcer
  BY <1>1, <1>3 DEF IInv, QueueOutlivesProcer, IsActive
<1> QED
  BY <1>2, <1>3 DEF Thread

LEMMA NoBadPost ==
    ASSUME IInv, TestInv, NEW t \in Thread
    PROVE  ~PostNull(t) /\ ~PostToFreed(t)
BY FindsQueue DEF PostNull, PostToFreed

(* Where a thread is, and with which operator, only its own calls change.    *)
LEMMA OwnCalls ==
    ASSUME IInv, TestInv, TestNext, NEW u \in Client
    PROVE  \/ Calls_EVT(u)
           \/ /\ pc'[u] = pc[u] /\ oper'[u] = oper[u]
              /\ step'[u] = step[u] \/ pc[u] = "idle"
<1>1. /\ pc \in [Thread -> ClientPc \cup ProcPc] /\ oper \in [Client -> OperID \cup {None}]
      /\ u \in Thread /\ EvtProcer \in Thread /\ u # EvtProcer /\ CallInv /\ StepInv
      /\ AreSequences(prog)
  BY Types, EvtMangerAssumption, TestPrograms DEF PcType, CallType, Thread, TestInv
<1>2. ASSUME pc[u] # "idle" PROVE step[u] # 0 /\ Instr(u).do \notin ThreadInstrs
  BY <1>1, <1>2 DEF CallInv, ThreadInstrs, AreSequences
<1>3. ASSUME NEW t \in Client, Advances(prog, step, step', t), t # u
      PROVE  step'[u] = step[u] \/ pc[u] = "idle"
  BY <1>2, <1>3 DEF Advances
<1>4. ASSUME NEW t \in Client, Instructs(t)
      PROVE  /\ pc'[u] = pc[u] /\ oper'[u] = oper[u]
             /\ step'[u] = step[u] \/ pc[u] = "idle"
  BY <1>2, <1>3, <1>4 DEF Instructs
<1>5. ASSUME NEW t \in Client, Calls_EVT(t), t # u
      PROVE  /\ pc'[u] = pc[u] /\ oper'[u] = oper[u]
             /\ step'[u] = step[u] \/ pc[u] = "idle"
  <2>1. PLT_EVT(t) /\ ~PostNull(t) /\ ~PostToFreed(t) /\ t \in Thread
    BY <1>5, NoBadPost DEF Calls_EVT, Call, Thread
  <2>2. step'[u] = step[u] \/ pc[u] = "idle"
    BY <1>3, <1>5 DEF Calls_EVT
  <2>3. ASSUME \/ initEvtManger(t) \/ enableEvtManger(t) \/ DisableCancel(t) \/ DisableJoin(t)
               \/ RegCheck(t) \/ doRegOper(t) \/ unregOper(t, ID(t))
        PROVE  pc'[u] = pc[u] /\ oper'[u] = oper[u]
    BY <1>1, <1>5, <2>1, <2>3 DEF initEvtManger, enableEvtManger, DisableCancel, DisableJoin,
       RegCheck, doRegOper, unregOper, Goto
  <2>4. ASSUME \/ PubCheck(t, ID(t)) \/ PubScan(t) \/ PubStore(t) \/ unpubEvts(t, ID(t))
               \/ SubCheck(t, ID(t)) \/ doSubEvts(t) \/ UnsubCall(t, ID(t)) \/ unsubEvts(t)
        PROVE  pc'[u] = pc[u] /\ oper'[u] = oper[u]
    BY <1>1, <1>5, <2>1, <2>4 DEF PubCheck, PubScan, PubStore, PubReturn, unpubEvts, SubCheck,
       doSubEvts, SubReturn, UnsubCall, unsubEvts, FreeRow, Goto
  <2>5. ASSUME \/ \E m \in Msg : PostCheck(t, m)
               \/ PostFull(t) \/ PostEnqueue(t) \/ PostSignal(t)
        PROVE  pc'[u] = pc[u] /\ oper'[u] = oper[u]
    BY <1>1, <1>5, <2>1, <2>5 DEF PostCheck, PostFull, PostEnqueue, PostSignal, PostReturn, Goto
  <2> QED
    BY <2>1, <2>2, <2>3, <2>4, <2>5 DEF PLT_EVT
<1>6. ASSUME ProcMoves
      PROVE  /\ pc'[u] = pc[u] /\ oper'[u] = oper[u]
             /\ step'[u] = step[u] \/ pc[u] = "idle"
  BY <1>1, <1>6, NoBadPost DEF ProcMoves, ProcCall, ProcCbReturn, ProcWait, ProcTake, ProcLock,
     ProcDone, ProcCancelledInWait, ProcSkip, ProcSpuriousWakeup, PostCheck, PostFull,
     PostEnqueue, PostSignal, PostReturn, Goto
<1> QED
  BY <1>4, <1>5, <1>6, TestSteps

(* A thread posts since it has called postEvtSRT.                            *)
InPost(u) ==
    /\ pc[u] \in {"post", "signal"} /\ (pc'[u] = "post" => pc[u] = "post")
    /\ pQueue'[u] = pQueue[u] /\ evt'[u] = evt[u]

LEMMA PostsSince ==
    ASSUME IInv, TestInv, [Next]_vars, NEW u \in Thread,
           pc'[u] \in {"post", "signal"}
    PROVE  \/ \E m \in Msg : PostCheck(u, m)
           \/ InPost(u)
<1>1. /\ PcType /\ PlaceInv /\ CallType /\ EvtProcer \notin Client /\ EvtProcer \in Thread
      /\ Client \subseteq Thread
  BY Types, EvtMangerAssumption DEF IInv, Thread
<1> USE <1>1 DEF PcType, PlaceInv, CallType, ClientPc, ProcPc, Goto, InPost
<1>2. ASSUME NEW c \in Client,
             \/ initEvtManger(c) \/ enableEvtManger(c) \/ DisableCancel(c) \/ DisableJoin(c)
             \/ RegCheck(c) \/ doRegOper(c)
      PROVE  InPost(u)
  BY <1>2 DEF initEvtManger, enableEvtManger, DisableCancel, DisableJoin, RegCheck, doRegOper
<1>3. ASSUME NEW c \in Client, NEW o \in OperID,
             \/ PubScan(c) \/ PubStore(c) \/ unregOper(c, o) \/ PubCheck(c, o) \/ unpubEvts(c, o)
      PROVE  InPost(u)
  BY <1>3 DEF PubScan, PubStore, PubReturn, unregOper, PubCheck, unpubEvts
<1>4. ASSUME NEW c \in Client, NEW o \in OperID,
             doSubEvts(c) \/ unsubEvts(c) \/ SubCheck(c, o) \/ UnsubCall(c, o)
      PROVE  InPost(u)
  BY <1>4 DEF doSubEvts, unsubEvts, FreeRow, SubReturn, SubCheck, UnsubCall
<1>5. ASSUME NEW t \in Thread, postEvtSRT(t)
      PROVE  \/ \E m \in Msg : PostCheck(u, m)
             \/ InPost(u)
  <2>1. PostFull(t) \/ PostEnqueue(t) \/ PostSignal(t) \/ \E m \in Msg : PostCheck(t, m)
    BY <1>5, NoBadPost DEF postEvtSRT
  <2>2. ASSUME NEW m \in Msg, PostCheck(t, m)
        PROVE  \/ PostCheck(u, m)
               \/ InPost(u)
    <3>1. CASE t = u
      BY <2>2, <3>1
    <3>2. CASE t # u
      <4>1. /\ pc' = [pc EXCEPT ![t] = "post"] /\ evt' = [evt EXCEPT ![t] = m]
            /\ pQueue' = [pQueue EXCEPT ![t] = procQueue]
        BY <2>2 DEF PostCheck
      <4> QED
        BY <3>2, <4>1
    <3> QED
      BY <3>1, <3>2
  <2>3. CASE PostFull(t)
    BY <2>3 DEF PostFull, PostReturn, ReturnTo
  <2>4. CASE PostEnqueue(t)
    BY <2>4 DEF PostEnqueue, AtQueue
  <2>5. CASE PostSignal(t)
    BY <2>5 DEF PostSignal, PostReturn, ReturnTo
  <2> QED
    BY <2>1, <2>2, <2>3, <2>4, <2>5
<1>6. ASSUME EvtProcer_Thread
      PROVE  InPost(u)
  BY <1>6 DEF EvtProcer_Thread, ProcWait, ProcSpuriousWakeup, ProcTake, ProcLock, ProcCall,
     ProcSkip, ProcCbReturn, ProcDone, ProcCancelledInWait, ProcCancelledInCb
<1>7. 0 \in OperID
  BY EvtMangerAssumption DEF OperID
<1> QED
  BY <1>2, <1>3, <1>4, <1>5, <1>6, <1>7 DEF Next

(* A call goes through its steps, and ends with its instruction.             *)
LEMMA CallMoves ==
    ASSUME IInv, TestInv, NEW u \in Client, Calls_EVT(u), pc'[u] # "idle"
    PROVE  /\ step' = step /\ step[u] \in DOMAIN prog[u]
           /\ \/ pc'[u] = "reg" /\ Instr(u).do = "reg"
              \/ pc'[u] \in {"pub", "pubStore"} /\ Instr(u).do = "pub" /\ oper'[u] = ID(u)
              \/ pc'[u] \in {"sub", "unsub"} /\ Instr(u).do = pc'[u] /\ oper'[u] = ID(u)
              \/ pc'[u] = "disable" /\ Instr(u).do = "disable"
              \/ pc'[u] \in {"post", "signal"} /\ Instr(u).do = "post"
<1>1. /\ pc \in [Thread -> ClientPc \cup ProcPc] /\ oper \in [Client -> OperID \cup {None}]
      /\ u \in Thread /\ u # EvtProcer
      /\ PLT_EVT(u) /\ step' = step /\ step[u] \in DOMAIN prog[u]
      /\ ~PostNull(u) /\ ~PostToFreed(u) /\ ~PostFull(u)
  <2>1. /\ pc \in [Thread -> ClientPc \cup ProcPc] /\ u \in Thread /\ u # EvtProcer
        /\ oper \in [Client -> OperID \cup {None}]
    BY Types, EvtMangerAssumption DEF PcType, CallType, Thread
  <2>2. ~PostFull(u)
    BY <2>1 DEF PostFull, ReturnTo, Goto
  <2> QED
    BY <2>1, <2>2, NoBadPost, TheInstr DEF Calls_EVT, Call, PLT_EVT, At
<1>2. pc[u] = "pub" \/ pc[u] = "pubStore" => oper[u] = ID(u)
  BY DEF TestInv, CallInv
<1>3. CASE initEvtManger(u) \/ enableEvtManger(u) \/ DisableJoin(u) \/ doRegOper(u)
           \/ unregOper(u, ID(u)) \/ PubStore(u) \/ unpubEvts(u, ID(u)) \/ doSubEvts(u)
           \/ unsubEvts(u) \/ PostSignal(u) \/ (UNCHANGED vars /\ At(u, "unpub"))
  <2>1. ~(UNCHANGED vars /\ At(u, "unpub"))
    BY DEF At, TestInv, CallInv
  <2>2. ~(initEvtManger(u) \/ enableEvtManger(u) \/ DisableJoin(u) \/ doRegOper(u)
          \/ unregOper(u, ID(u)))
    BY <1>1 DEF initEvtManger, enableEvtManger, DisableJoin, doRegOper, unregOper, IsIdle, Goto
  <2>3. ~(PubStore(u) \/ unpubEvts(u, ID(u)) \/ doSubEvts(u) \/ unsubEvts(u) \/ PostSignal(u))
    BY <1>1 DEF PubStore, PubReturn, unpubEvts, doSubEvts, unsubEvts, FreeRow, SubReturn,
       PostSignal, ReturnTo, IsIdle, Goto
  <2> QED
    BY <1>3, <2>1, <2>2, <2>3
<1>4. CASE At(u, "reg") /\ RegCheck(u)
  BY <1>1, <1>4 DEF At, RegCheck, Goto
<1>5. CASE At(u, "disable") /\ DisableCancel(u)
  BY <1>1, <1>5 DEF At, DisableCancel, Goto
<1>6. CASE At(u, "pub") /\ (PubCheck(u, ID(u)) \/ PubScan(u))
  BY <1>1, <1>2, <1>6 DEF At, PubCheck, PubScan, PubReturn, Goto
<1>7. CASE (At(u, "sub") /\ SubCheck(u, ID(u))) \/ (At(u, "unsub") /\ UnsubCall(u, ID(u)))
  BY <1>1, <1>7 DEF At, SubCheck, UnsubCall, Goto
<1>8. CASE At(u, "post") /\ (PostEnqueue(u) \/ \E m \in Msg : PostCheck(u, m))
  BY <1>1, <1>8 DEF At, PostCheck, PostEnqueue, Goto
<1>9. \/ At(u, "init") /\ initEvtManger(u)
      \/ At(u, "reg") /\ (RegCheck(u) \/ doRegOper(u))
      \/ At(u, "pub") /\ (PubCheck(u, ID(u)) \/ PubScan(u) \/ PubStore(u))
      \/ At(u, "sub") /\ (SubCheck(u, ID(u)) \/ doSubEvts(u))
      \/ At(u, "enable") /\ enableEvtManger(u)
      \/ At(u, "post") /\ (PostEnqueue(u) \/ PostSignal(u) \/ \E m \in Msg : PostCheck(u, m))
      \/ At(u, "disable") /\ (DisableCancel(u) \/ DisableJoin(u))
      \/ At(u, "unpub") /\ (unpubEvts(u, ID(u)) \/ UNCHANGED vars)
      \/ At(u, "unsub") /\ (UnsubCall(u, ID(u)) \/ unsubEvts(u))
      \/ At(u, "unreg") /\ unregOper(u, ID(u))
  <2>1. ASSUME NEW m \in Msg, PostCheck(u, m) PROVE \E n \in Msg : PostCheck(u, n)
    BY <2>1
  <2> QED
    BY <1>1, <2>1, Zenon DEF PLT_EVT
<1> QED
  BY <1>3, <1>4, <1>5, <1>6, <1>7, <1>8, <1>9, Zenon

(* A thread in a call keeps the ID of its operator.                          *)
LEMMA CallKeepsID ==
    ASSUME IInv, TestInv, TestNext, NEW u \in Client, step[u] \in DOMAIN prog[u],
           Instr(u).do \in {"pub", "sub", "unsub"}
    PROVE  operID'[Instr(u).oper] = ID(u)
<1>1. /\ AreSequences(prog) /\ TidyWithOpers(prog) /\ InPrograms(prog, step)
      /\ Instr(u) = prog[u][step[u]]
  BY TestPrograms, TheInstr DEF TestInv
<1>2. Is(prog, u, step[u], Instr(u).do, Instr(u).oper)
  BY <1>1 DEF Is
<1>3. Instr(u).do \in OperCalls \ {"reg"}
  BY DEF OperCalls
<1>4. Instr(u).oper \in Here(prog, step)
  BY <1>1, <1>2, <1>3, WithOperHere
<1> QED
  BY <1>4, KeepsID DEF ID

(* The queue of a post stays: main does not disable before the post is over. *)
LEMMA QueueStays ==
    ASSUME IInv, TestInv, TestNext, NEW u \in Thread, pc[u] \in {"post", "signal"},
           pc'[u] \in {"post", "signal"}, u \in Client => step'[u] = step[u]
    PROVE  procQueue' = procQueue
<1>1. procQueue # None
  BY FindsQueue
<1>2. ASSUME NEW t \in Client, enableEvtManger(t) PROVE FALSE
  BY <1>1, <1>2 DEF enableEvtManger
<1>3. ASSUME NEW t \in Client, Advances(prog, step, step', t), Instr(t).do = "disable",
             DisableJoin(t)
      PROVE  FALSE
  <2>1. u \in Client
    BY <1>3 DEF DisableJoin, HasEnded, Thread
  <2>2. /\ StepInv /\ StepInv' /\ InStep(prog, step') /\ prog' = prog
        /\ InPrograms(prog, step')
    BY ThreadsNext, SameTest DEF TestInv, StepInv
  <2>3. step'[u] \in DOMAIN prog[u] /\ prog[u][step'[u]].do = "post"
    BY <2>1, TheInstr DEF TestInv, CallInv
  <2>4. step'["main"] <= DisabledAt(prog)
    BY <2>1, <2>2, <2>3, PostsBetween, TestPrograms
  <2>5. step["main"] = DisabledAt(prog) /\ step'["main"] = step["main"] + 1
        /\ step["main"] \in Nat
    BY <1>3, <2>2, MainAdvances
  <2> QED
    BY <2>4, <2>5
<1> QED
  BY <1>2, <1>3, RunSteps

LEMMA CallInvNext ==
    ASSUME IInv, TestInv, TestNext
    PROVE  CallInv'
<1>1. /\ CallInv /\ UNCHANGED <<case, objs>> /\ prog' = prog
      /\ pc \in [Thread -> ClientPc \cup ProcPc] /\ pQueue \in [Thread -> Address \cup {None}]
      /\ EvtProcer \in Thread /\ Client \subseteq Thread /\ EvtProcer \notin Client
  BY SameTest, Types, EvtMangerAssumption DEF TestInv, PcType, CallType, Thread
<1>2. \A u \in Client : /\ Instr(u) = prog[u][step[u]] /\ Instr(u)' = prog[u][step'[u]]
                        /\ ID(u) = operID[Instr(u).oper]
                        /\ ID(u)' = operID'[prog[u][step'[u]].oper]
  BY <1>1 DEF Instr, Program, prog, ID
<1>3. ASSUME NEW u \in Client, pc'[u] # "idle"
      PROVE  /\ step'[u] \in DOMAIN prog'[u]
             /\ \/ pc'[u] = "reg" /\ Instr(u)'.do = "reg"
                \/ pc'[u] \in {"pub", "pubStore"} /\ Instr(u)'.do = "pub" /\ oper'[u] = ID(u)'
                \/ pc'[u] \in {"sub", "unsub"} /\ Instr(u)'.do = pc'[u] /\ oper'[u] = ID(u)'
                \/ pc'[u] = "disable" /\ Instr(u)'.do = "disable"
                \/ pc'[u] \in {"post", "signal"} /\ Instr(u)'.do = "post"
  <2>1. /\ step'[u] = step[u] /\ step[u] \in DOMAIN prog[u]
        /\ \/ pc'[u] = "reg" /\ Instr(u).do = "reg"
           \/ pc'[u] \in {"pub", "pubStore"} /\ Instr(u).do = "pub" /\ oper'[u] = ID(u)
           \/ pc'[u] \in {"sub", "unsub"} /\ Instr(u).do = pc'[u] /\ oper'[u] = ID(u)
           \/ pc'[u] = "disable" /\ Instr(u).do = "disable"
           \/ pc'[u] \in {"post", "signal"} /\ Instr(u).do = "post"
    <3>1. CASE Calls_EVT(u)
      BY <1>3, <3>1, CallMoves
    <3>2. CASE pc'[u] = pc[u] /\ oper'[u] = oper[u] /\ (step'[u] = step[u] \/ pc[u] = "idle")
      BY <1>1, <1>3, <3>2 DEF CallInv
    <3> QED
      BY <3>1, <3>2, OwnCalls
  <2>2. Instr(u)' = Instr(u)
    BY <1>2, <2>1
  <2>3. Instr(u).do \in {"pub", "sub", "unsub"} => ID(u)' = ID(u)
    BY <1>2, <2>1, CallKeepsID
  <2> QED
    BY <1>1, <2>1, <2>2, <2>3
<1>4. pc'[EvtProcer] # "dead"
  <2>1. pc[EvtProcer] # "dead" /\ \A t \in Thread : ~PostNull(t) /\ ~PostToFreed(t)
    BY <1>1, NoBadPost DEF CallInv
  <2>2. CASE UNCHANGED pc
    BY <2>1, <2>2
  <2>3. CASE Next
    <3>1. ASSUME NEW t \in Client,
                 \/ initEvtManger(t) \/ enableEvtManger(t) \/ DisableCancel(t) \/ DisableJoin(t)
                 \/ RegCheck(t) \/ doRegOper(t)
          PROVE  pc'[EvtProcer] # "dead"
      BY <1>1, <2>1, <3>1 DEF initEvtManger, enableEvtManger, DisableCancel, DisableJoin,
         RegCheck, doRegOper, Goto
    <3>2. ASSUME NEW t \in Client, NEW o \in OperID,
                 \/ PubScan(t) \/ PubStore(t) \/ doSubEvts(t) \/ unsubEvts(t)
                 \/ unregOper(t, o) \/ PubCheck(t, o) \/ unpubEvts(t, o) \/ SubCheck(t, o)
                 \/ UnsubCall(t, o)
          PROVE  pc'[EvtProcer] # "dead"
      BY <1>1, <2>1, <3>2 DEF PubScan, PubStore, PubReturn, doSubEvts, unsubEvts, FreeRow,
         SubReturn, unregOper, PubCheck, unpubEvts, SubCheck, UnsubCall, Goto
    <3>3. ASSUME NEW t \in Thread, postEvtSRT(t) PROVE pc'[EvtProcer] # "dead"
      BY <1>1, <2>1, <3>3 DEF postEvtSRT, PostCheck, PostFull, PostEnqueue, PostSignal,
         PostReturn, ReturnTo, Goto
    <3>4. ASSUME EvtProcer_Thread PROVE pc'[EvtProcer] # "dead"
      BY <1>1, <2>1, <3>4 DEF EvtProcer_Thread, ProcWait, ProcSpuriousWakeup, ProcTake,
         ProcLock, ProcCall, ProcSkip, ProcCbReturn, ProcDone, ProcCancelledInWait,
         ProcCancelledInCb, Goto
    <3>5. 0 \in OperID
      BY EvtMangerAssumption DEF OperID
    <3> QED
      BY <2>3, <3>1, <3>2, <3>3, <3>4, <3>5 DEF Next
  <2> QED
    BY <2>2, <2>3, TestRunsManger
<1>5. ASSUME NEW u \in Thread, pc'[u] \in {"post", "signal"} PROVE pQueue'[u] = procQueue'
  <2>1. \/ \E m \in Msg : PostCheck(u, m)
        \/ pc[u] \in {"post", "signal"} /\ pQueue'[u] = pQueue[u]
    BY <1>5, PostsSince, TestRunsManger DEF InPost
  <2>2. CASE \E m \in Msg : PostCheck(u, m)
    BY <1>1, <2>2 DEF PostCheck
  <2>3. CASE pc[u] \in {"post", "signal"} /\ pQueue'[u] = pQueue[u]
    <3>1. ASSUME u \in Client PROVE step'[u] = step[u]
      <4>1. CASE Calls_EVT(u)
        BY <1>5, <4>1 DEF Calls_EVT
      <4> QED
        BY <2>3, <3>1, <4>1, OwnCalls
    <3> QED
      BY <1>1, <1>5, <2>3, <3>1, QueueStays DEF CallInv
  <2> QED
    BY <2>1, <2>2, <2>3
<1> QED
  BY <1>1, <1>3, <1>4, <1>5 DEF CallInv

-----------------------------------------------------------------------------
(* The parts of TestInv: events.                                             *)

(* Only a call takes an event from those to be posted, and only a post that  *)
(* goes through makes the queue longer.                                      *)
LEMMA EventSteps ==
    ASSUME IInv, [Next]_vars
    PROVE  \/ \E t \in Thread : \E m \in Msg : PostCheck(t, m)
           \/ \E t \in Thread : PostEnqueue(t)
           \/ unposted' = unposted /\ num' <= num
<1>1. num \in Nat /\ EvtProcer \in Thread
  BY Types DEF RingType, Thread
<1>2. CASE UNCHANGED vars
  BY <1>1, <1>2
<1>3. CASE Next
  <2>1. \/ \E t \in Thread : \E m \in Msg : PostCheck(t, m)
        \/ unposted' = unposted
    BY <1>3, CallSteps DEF PubScan, PubStore, PubReturn, doSubEvts, unsubEvts, FreeRow,
       PubCheck, SubCheck, UnsubCall, PostReturn
  <2>2. \/ \E t \in Thread : PostEnqueue(t)
        \/ num' <= num
    <3>1. ASSUME NEW c \in Client, enableEvtManger(c) \/ DisableJoin(c) PROVE num' <= num
      BY <1>1, <3>1 DEF enableEvtManger, DisableJoin, FreshQueue
    <3>2. ASSUME ProcTake PROVE num' <= num
      BY <1>1, <3>2 DEF ProcTake
    <3>3. ASSUME UNCHANGED ringVars PROVE num' <= num
      BY <1>1, <3>3
    <3> QED
      BY <1>3, <3>1, <3>2, <3>3, RingSteps
  <2> QED
    BY <2>1, <2>2
<1> QED
  BY <1>2, <1>3

LEMMA PosterInvNext ==
    ASSUME IInv, TestInv, TestNext
    PROVE  PosterInv'
<1>1. /\ PosterInv /\ events' = events /\ [Next]_vars
      /\ evt \in [Thread -> Msg \cup {None}] /\ pc \in [Thread -> ClientPc \cup ProcPc]
  BY SameTest, TestRunsManger, Types DEF TestInv, PcType, CallType
<1>2. SUFFICES
        /\ unposted' \subseteq events
        /\ \A u \in Thread : pc'[u] = "post" =>
              evt'[u] \in events \ unposted' /\ PostedBy[evt'[u]] = u
  BY <1>1 DEF PosterInv
<1>3. ASSUME NEW t \in Thread, NEW m \in Msg, PostCheck(t, m)
      PROVE  /\ unposted' \subseteq events
             /\ \A u \in Thread : pc'[u] = "post" =>
                   evt'[u] \in events \ unposted' /\ PostedBy[evt'[u]] = u
  <2>1. /\ m \in unposted /\ PostedBy[m] = t /\ unposted' = unposted \ {m}
        /\ evt' = [evt EXCEPT ![t] = m] /\ pc' = [pc EXCEPT ![t] = "post"]
    BY <1>3 DEF PostCheck, IsNextPost, Goto
  <2>2. \A u \in Thread : pc'[u] = "post" =>
           (u = t /\ evt'[u] = m) \/ (pc[u] = "post" /\ evt'[u] = evt[u])
    BY <1>1, <2>1
  <2> QED
    BY <1>1, <2>1, <2>2 DEF PosterInv
<1>4. ASSUME \A t \in Thread : \A m \in Msg : ~PostCheck(t, m)
      PROVE  /\ unposted' \subseteq events
             /\ \A u \in Thread : pc'[u] = "post" =>
                   evt'[u] \in events \ unposted' /\ PostedBy[evt'[u]] = u
  <2>1. unposted' = unposted
    BY <1>1, <1>4, EventSteps DEF PostEnqueue
  <2>2. \A u \in Thread : pc'[u] = "post" => pc[u] = "post" /\ evt'[u] = evt[u]
    BY <1>1, <1>4, PostsSince DEF InPost
  <2> QED
    BY <1>1, <2>1, <2>2 DEF PosterInv
<1> QED
  BY <1>3, <1>4

-----------------------------------------------------------------------------
(* TestInv is inductive.                                                     *)

LEMMA TestInvNext ==
    ASSUME IInv, TestInv, [TestNext]_<<vars, testVars>>
    PROVE  TestInv'
<1>1. CASE TestNext
  BY <1>1, ThreadsNext, ThreadsInvNext, CallInvNext, RunsNext, PosterInvNext, OperInvNext,
     PubInvNext, SubInvNext DEF TestInv
<1>2. CASE UNCHANGED <<vars, testVars>>
  <2>1. UNCHANGED <<case, objs, step, prog, events>>
    BY <1>2 DEF prog, events
  <2>2. \A t \in Client : Instr(t)' = Instr(t) /\ ID(t)' = ID(t)
    BY <1>2 DEF Instr, Program, ID
  <2>3. StepInv' /\ ThreadsInv' /\ RunsInv' /\ PosterInv'
    BY <1>2, <2>1, <2>2 DEF TestInv, StepInv, ThreadsInv, RunsInv, PosterInv
  <2>4. OperInv' /\ PubInv' /\ SubInv'
    BY <1>2, <2>1 DEF TestInv, OperInv, PubInv, SubInv
  <2>5. CallInv'
    BY <1>2, <2>1, <2>2 DEF TestInv, CallInv
  <2> QED
    BY <2>3, <2>4, <2>5 DEF TestInv
<1> QED
  BY <1>1, <1>2

LEMMA TestInvInit ==
    ASSUME TestInit
    PROVE  TestInv
<1>1. /\ Idle /\ case \in Cases /\ objs \in ObjsOf(case) /\ unposted = events
      /\ pubTable[PubMax] = None /\ sem = EmptyBag /\ failed = {}
      /\ step = [t \in Client |-> IF t = "main" THEN 1 ELSE 0]
      /\ operID = [x \in Oper |-> None]
  BY DEF TestInit, events
<1>2. /\ AreSequences(prog) /\ RunByMain(prog) /\ IsFiniteSet(Msg) /\ "main" \in Client
  BY <1>1, ProgramsAssumption, TestAssumption DEF prog
<1>3. /\ \A t \in Client : pc[t] = "idle"
      /\ pc[EvtProcer] = "none" /\ \A t \in Thread : pc[t] \notin {"post", "signal"}
      /\ ~haveTables /\ procQueue = None /\ num = 0 /\ opers = {}
      /\ \A r \in PubRow : pubTable[r] = None
      /\ \A r \in SubRow : subTable[r] = None
  BY <1>1, EvtMangerAssumption DEF Idle, EmptyRing, Thread
<1>4. \A t \in Client : step[t] \in {0, 1} /\ Passed(step, t) = {}
  BY <1>1 DEF Passed
<1>5. StepInv
  BY <1>1, <1>2, <1>4 DEF StepInv, InPrograms, AreSequences
<1>6. ThreadsInv
  <2>1. DOMAIN sem = {}
    BY <1>1 DEF EmptyBag, SetToBag
  <2>2. \A u \in Client \ {"main"} : step[u] = 0
    BY <1>1
  <2> QED
    BY <1>4, <2>1, <2>2 DEF ThreadsInv, InStep
<1>7. CallInv
  BY <1>3 DEF CallInv
<1>8. RunsInv
  <2>1. step["main"] = 1 /\ \A u \in Client : step[u] # 0 => u = "main"
    BY <1>1, <1>2
  <2>2. 1 < EnabledAt(prog) /\ EnabledAt(prog) \in Nat
    BY <1>2, MainsPlaces
  <2> QED
    BY <1>3, <2>1, <2>2 DEF RunsInv
<1>9. PosterInv
  BY <1>1, <1>3 DEF PosterInv
<1>10. OperInv
  <2>1. Here(prog, step) = {}
    BY <1>4 DEF Here, Held, Done
  <2> QED
    BY <1>1, <1>3, <2>1 DEF OperInv
<1>11. PubInv /\ SubInv
  BY <1>3 DEF PubInv, SubInv
<1> QED
  BY <1>1, <1>5, <1>6, <1>7, <1>8, <1>9, <1>10, <1>11 DEF TestInv

LEMMA TestInductive == TestSpec => [](IInv /\ TestInv)
<1>1. TestInit => IInv /\ TestInv
  BY TestStarts, TestInvInit
<1>2. IInv /\ TestInv /\ [TestNext]_<<vars, testVars>> => (IInv /\ TestInv)'
  BY TestRunsManger, NextIInv, TestInvNext
<1> QED
  BY <1>1, <1>2, PTL DEF TestSpec

(* When main is over, nothing is done that is not undone.                    *)
LEMMA AllUndone ==
    ASSUME TestInv, IsOver("main"), NEW do \in DOMAIN UndoneBy
    PROVE  Held(prog, step, do) = {}
<1>1. /\ AreSequences(prog) /\ LedByMain(prog) /\ TidyWithOpers(prog) /\ InPrograms(prog, step)
      /\ InStep(prog, step) /\ IsPast(prog, step, "main")
  BY TestPrograms, TestAssumption, TheInstr DEF TestInv, ThreadsInv
<1>2. ASSUME NEW x \in Held(prog, step, do) PROVE FALSE
  <2>1. Done(prog, step, do, x) /\ ~Done(prog, step, UndoneBy[do], x)
    BY DEF Held
  <2>2. PICK t \in Client : \E i \in Passed(step, t) : Is(prog, t, i, do, x)
    BY <2>1 DEF Done
  <2>3. PICK i \in Passed(step, t) : Is(prog, t, i, do, x)
    BY <2>2
  <2>4. i \in DOMAIN prog[t] /\ step[t] # 0
    BY <1>1 DEF Passed, AreSequences, InPrograms
  <2>5. IsPast(prog, step, t)
    BY <1>1, <2>4, AllOver
  <2>6. PICK j \in DOMAIN prog[t] : i < j /\ Is(prog, t, j, UndoneBy[do], x)
    BY <1>1, <2>3, <2>4, InPairs
  <2>7. j \in Passed(step, t)
    BY <1>1, <2>5 DEF Passed, IsPast, AreSequences
  <2> QED
    BY <2>1, <2>6, <2>7 DEF Done
<1> QED
  BY <1>2

(* A test that is over has unregistered its operators and freed its rows,    *)
(* those its threads took in a race, too, and disable has freed the queue.   *)
THEOREM NothingLeft == TestSpec => []NothingLeftBehind
<1>1. ASSUME IInv, TestInv PROVE NothingLeftBehind
  <2> SUFFICES ASSUME IsOver("main")
               PROVE  /\ opers = {} /\ procQueue = None
                      /\ \A r \in PubRow \ {PubMax} : pubTable[r] = None
                      /\ \A r \in SubRow : subTable[r] = None
    BY DEF NothingLeftBehind
  <2>1. Here(prog, step) = {} /\ Pubers(prog, step) = {} /\ Subers(prog, step) = {}
    BY <1>1, AllUndone, UndoneByIs DEF Here, Pubers, Subers
  <2>2. opers = {}
    BY <1>1, <2>1 DEF TestInv, OperInv
  <2>3. \A r \in PubRow : pubTable[r] = None
    BY <1>1, <2>1 DEF TestInv, PubInv
  <2>4. \A r \in SubRow : subTable[r] = None
    BY <1>1, <2>1 DEF TestInv, SubInv
  <2>5. procQueue = None
    <3>1. AreSequences(prog) /\ RunByMain(prog) /\ "main" \in Client
      BY <1>1, TestPrograms, TestAssumption DEF TestInv
    <3>2. step["main"] = Len(prog["main"]) + 1
      BY <3>1, TheInstr DEF IsPast
    <3>3. DisabledAt(prog) \in DOMAIN prog["main"] /\ DisabledAt(prog) \in Nat
      BY <3>1, MainsPlaces
    <3>4. ~(step["main"] <= DisabledAt(prog))
      BY <3>1, <3>2, <3>3 DEF AreSequences
    <3> QED
      BY <1>1, <3>4 DEF TestInv, RunsInv
  <2> QED
    BY <2>2, <2>3, <2>4, <2>5
<1> QED
  BY <1>1, TestInductive, PTL

=============================================================================
