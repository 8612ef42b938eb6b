---------------------------- MODULE TimerProofs ----------------------------
(***************************************************************************)
(* Proofs about IntervalTimer, for any number of calls and any order of    *)
(* the steps of the owner and of the threads, and about TimerWheel, which  *)
(* uses its timer in a way that keeps TimerInv, although it destroys it    *)
(* without a wait.  The last part is about a timer and a wheel side by     *)
(* side (MCTimers).                                                        *)
(***************************************************************************)
EXTENDS MCTimers, TLAPS

Sleepers == {"test", "sleep", "woken"}
Callers == {"callback", "calling"}
Leavers == {"leave", "quit"}

\* What is typed, without the range of counter, which CounterInv gives.
Typed ==
  /\ active \in BOOLEAN
  /\ counter \in Int
  /\ sets \in 0..MaxSets
  /\ kind \in [Thread -> Kinds \cup {"none"}]
  /\ at \in [Thread -> {"unborn", "test", "sleep", "woken", "callback", "calling", "leave",
                        "quit", "stop", "ended"}]
  /\ owner \in Kinds \cup {"ready", "dying", "waited", "gone"}
  /\ wanted \in BOOLEAN
  /\ doomed \subseteq Thread
  /\ owner \in Kinds => sets < MaxSets

\* The threads of the calls up to now, and the kind of those that end by themselves.
ThreadsInv ==
  \A t \in Thread :
    /\ at[t] = "unborn" <=> t > sets
    /\ at[t] # "unborn" => kind[t] \in Kinds
    /\ at[t] \in {"leave", "stop"} => kind[t] = "timeout"

\* The counter is that of the threads that have not left it: none, or the last one.
CounterInv ==
  /\ \A t \in Counted : t = sets
  /\ Counted = {} => counter = 0
  /\ Counted # {} => counter = 1

\* While a thread that was stopped asleep has not left the loop nobody sets the timer.
DoomedInv ==
  \A t \in doomed :
    /\ at[t] \notin Callers \cup {"unborn"}
    /\ at[t] \in Sleepers => ~active

TimerInv == Typed /\ ThreadsInv /\ CounterInv /\ DoomedInv /\ OnlyTimeoutStops

-----------------------------------------------------------------------------
\* The invariant holds for a timer that is not set.
LEMMA InitTimer == TimerInit => TimerInv
<1> SUFFICES ASSUME TimerInit PROVE TimerInv
  OBVIOUS
<1> USE DEF TimerInit
<1>1. Typed
  <2>1. counter \in Int /\ sets \in 0..MaxSets
    BY MaxSetsAssumption
  <2>2. active \in BOOLEAN /\ wanted \in BOOLEAN /\ doomed \subseteq Thread
    BY Zenon
  <2>3. kind \in [Thread -> Kinds \cup {"none"}]
    OBVIOUS
  <2>4. at \in [Thread -> {"unborn", "test", "sleep", "woken", "callback", "calling", "leave",
                           "quit", "stop", "ended"}]
    OBVIOUS
  <2>5. owner = "ready" /\ owner \notin Kinds
    BY KindsAssumption
  <2> QED
    BY <2>1, <2>2, <2>3, <2>4, <2>5 DEF Typed
<1>2. ThreadsInv
  BY DEF ThreadsInv, Thread
<1>3. Counted = {}
  BY DEF Counted
<1>4. CounterInv
  BY <1>3 DEF CounterInv
<1>5. DoomedInv /\ OnlyTimeoutStops
  BY DEF DoomedInv, OnlyTimeoutStops
<1> QED
  BY <1>1, <1>2, <1>4, <1>5 DEF TimerInv

\* A step of a thread in the loop, or past it, that stays in the counter.
LEMMA CountedMove ==
  ASSUME TimerInv, NEW t \in Thread, NEW next,
         at[t] \in Sleepers \cup Callers,
         next \in Sleepers \cup Callers \cup Leavers,
         Goto(t, next),
         next = "leave" => kind[t] = "timeout",
         next \in Callers => at[t] \in Callers \/ active,
         next \in Sleepers => at[t] \in Sleepers \/ t \notin doomed,
         UNCHANGED <<active, counter, sets, kind, owner, wanted, doomed>>
  PROVE  TimerInv'
<1> USE DEF TimerInv, Sleepers, Callers, Leavers, Goto
<1>1. Typed'
  BY DEF Typed
<1>2. ThreadsInv'
  BY DEF Typed, ThreadsInv
<1>3. Counted' = Counted
  BY DEF Counted, Typed
<1>4. CounterInv'
  BY <1>3 DEF CounterInv
<1>5. DoomedInv'
  BY DEF DoomedInv, Typed
<1>6. OnlyTimeoutStops'
  BY DEF OnlyTimeoutStops, Typed, Thread
<1> QED
  BY <1>1, <1>2, <1>4, <1>5, <1>6

\* A thread leaves the counter.
LEMMA LeaveCounter ==
  ASSUME TimerInv, NEW t \in Thread, NEW next \in {"stop", "ended"},
         at[t] \in Leavers,
         at[t] = "leave" <=> next = "stop",
         Goto(t, next),
         counter' = counter - 1,
         UNCHANGED <<active, sets, kind, owner, wanted, doomed>>
  PROVE  TimerInv'
<1> USE DEF TimerInv, Leavers, Goto
<1>1. Typed'
  BY DEF Typed
<1>2. ThreadsInv'
  BY DEF Typed, ThreadsInv
<1>3. Counted = {t} /\ Counted' = {}
  <2>1. t \in Counted
    BY DEF Counted
  <2>2. Counted = {t}
    BY <2>1 DEF CounterInv
  <2>3. \A u \in Thread : u # t => at'[u] = at[u]
    BY DEF Typed
  <2>4. at'[t] = next
    BY DEF Typed
  <2> QED
    BY <2>2, <2>3, <2>4 DEF Counted
<1>4. CounterInv'
  BY <1>3 DEF CounterInv
<1>5. DoomedInv'
  BY DEF DoomedInv, Typed, Sleepers, Callers
<1>6. OnlyTimeoutStops'
  BY DEF OnlyTimeoutStops, Typed, Thread
<1> QED
  BY <1>1, <1>2, <1>4, <1>5, <1>6

\* The owner stops the timer, by stop() or in the destructor.
LEMMA StopTimer ==
  ASSUME TimerInv, owner = "ready", active' = FALSE, wanted' = FALSE,
         doomed' = doomed \cup {t \in Thread : at[t] \in {"test", "sleep", "woken"}},
         owner' \in {"ready", "dying", "waited", "gone"},
         UNCHANGED <<counter, sets, kind, at>>
  PROVE  TimerInv'
BY KindsAssumption
   DEF TimerInv, Typed, ThreadsInv, CounterInv, Counted, DoomedInv, OnlyTimeoutStops, Sleepers, Callers

\* A call of the owner, its wait for the counter, or the destructor keeps the invariant.
LEMMA StepOwner == ASSUME TimerInv, Owner PROVE TimerInv'
<1>1. ASSUME NEW k \in Kinds, CallSet(k) PROVE TimerInv'
  BY <1>1, MaxSetsAssumption DEF CallSet, TimerInv, Typed, ThreadsInv, CounterInv, Counted, DoomedInv, OnlyTimeoutStops
<1>2. ASSUME NEW k \in Kinds, Start(k) PROVE TimerInv'
  <2> USE <1>2 DEF Start, StartAfter, Goto, TimerInv
  <2>1. owner = k /\ sets < MaxSets /\ sets \in 0..MaxSets
    BY DEF Typed
  <2>2. sets + 1 \in Thread /\ at[sets + 1] = "unborn"
    BY <2>1, MaxSetsAssumption DEF Thread, ThreadsInv
  <2>3. at'[sets + 1] = "test" /\ \A t \in Thread : t # sets + 1 => at'[t] = at[t]
    BY <2>2 DEF Typed
  <2>4. kind'[sets + 1] = k /\ \A t \in Thread : t # sets + 1 => kind'[t] = kind[t]
    BY <2>2 DEF Typed
  <2>5. Typed'
    <3>1. sets' \in 0..MaxSets /\ counter' \in Int
      BY <2>1, MaxSetsAssumption DEF Typed
    <3>2. at' \in [Thread -> {"unborn", "test", "sleep", "woken", "callback", "calling", "leave",
                        "quit", "stop", "ended"}]
      BY DEF Typed
    <3>3. kind' \in [Thread -> Kinds \cup {"none"}]
      BY DEF Typed
    <3>4. "ready" \notin Kinds
      BY KindsAssumption
    <3> QED
      BY <3>1, <3>2, <3>3, <3>4 DEF Typed
  <2>6. ThreadsInv'
    <3> SUFFICES ASSUME NEW t \in Thread
                 PROVE  /\ at'[t] = "unborn" <=> t > sets'
                        /\ at'[t] # "unborn" => kind'[t] \in Kinds
                        /\ at'[t] \in {"leave", "stop"} => kind'[t] = "timeout"
      BY DEF ThreadsInv
    <3>1. CASE t = sets + 1
      BY <3>1, <2>1, <2>3, <2>4
    <3>2. CASE t # sets + 1
      BY <3>2, <2>1, <2>3, <2>4 DEF ThreadsInv, Thread
    <3> QED
      BY <3>1, <3>2
  <2>7. Counted = {}
    BY DEF CounterInv
  <2>8. Counted' = {sets + 1}
    BY <2>2, <2>3, <2>7 DEF Counted
  <2>9. CounterInv'
    BY <2>7, <2>8 DEF CounterInv
  <2>10. DoomedInv'
    <3> SUFFICES ASSUME NEW t \in doomed
                 PROVE  at'[t] \notin Callers \cup {"unborn"} /\ at'[t] \notin Sleepers
      BY DEF DoomedInv
    <3>1. t \in Thread /\ t # sets + 1 /\ at[t] # "unborn"
      BY <2>2 DEF DoomedInv, Typed
    <3>2. t \notin Counted
      BY <2>7
    <3> QED
      BY <3>1, <3>2, <2>3 DEF Counted, Callers, Sleepers
  <2>11. OnlyTimeoutStops'
    BY DEF OnlyTimeoutStops
  <2> QED
    BY <2>5, <2>6, <2>9, <2>10, <2>11
<1>3. CASE Stop
  BY <1>3, StopTimer DEF Stop
<1>4. CASE Destroy
  BY <1>4, StopTimer DEF Destroy, DestroyIn
<1>5. CASE FinishDestroy
  BY <1>5, KindsAssumption DEF FinishDestroy, TimerInv, Typed, ThreadsInv, CounterInv, Counted, DoomedInv, OnlyTimeoutStops
<1> QED
  BY <1>1, <1>2, <1>3, <1>4, <1>5 DEF Owner

\* An access of a thread to one of the atomics keeps the invariant.
LEMMA StepThread == ASSUME TimerInv, NEW t \in Thread, TimerThread(t) PROVE TimerInv'
<1> USE DEF ThreadStep, Goto, Sleepers, Callers, Leavers
<1>1. CASE Test(t)
  <2>1. CASE active
    BY <1>1, <2>1, CountedMove DEF Test
  <2>2. CASE ~active
    BY <1>1, <2>2, CountedMove DEF Test
  <2> QED
    BY <2>1, <2>2
<1>2. CASE WakeUp(t)
  BY <1>2, CountedMove DEF WakeUp
<1>3. CASE TestAgain(t)
  <2>1. CASE active
    BY <1>3, <2>1, CountedMove DEF TestAgain
  <2>2. CASE ~active
    BY <1>3, <2>2, CountedMove DEF TestAgain
  <2> QED
    BY <2>1, <2>2
<1>4. CASE BeginCallback(t)
  BY <1>4, CountedMove DEF BeginCallback
<1>5. CASE EndCallback(t)
  <2>1. at[t] = "calling" /\ t \notin doomed /\ kind[t] \in Kinds
    BY <1>5 DEF EndCallback, TimerInv, ThreadsInv, DoomedInv
  <2>2. CASE kind[t] = "interval"
    BY <1>5, <2>1, <2>2, CountedMove DEF EndCallback
  <2>3. CASE kind[t] # "interval"
    BY <1>5, <2>1, <2>3, CountedMove, KindsAssumption DEF EndCallback
  <2> QED
    BY <2>2, <2>3
<1>6. CASE Leave(t)
  BY <1>6, LeaveCounter DEF Leave
<1>7. CASE StopSelf(t)
  <2> USE <1>7 DEF StopSelf, TimerInv
  <2>1. kind[t] = "timeout" /\ t \in 1..sets
    BY DEF ThreadsInv, Thread, Typed
  <2>2. at'[t] = "ended" /\ \A u \in Thread : u # t => at'[u] = at[u]
    BY DEF Typed
  <2>3. Typed'
    BY DEF Typed
  <2>4. ThreadsInv'
    BY <2>2 DEF ThreadsInv
  <2>5. Counted' = Counted
    BY <2>2 DEF Counted
  <2>6. CounterInv'
    BY <2>5 DEF CounterInv
  <2>7. DoomedInv'
    BY <2>2 DEF DoomedInv, Typed
  <2>8. OnlyTimeoutStops'
    BY <2>1, <2>2 DEF OnlyTimeoutStops
  <2> QED
    BY <2>3, <2>4, <2>6, <2>7, <2>8
<1>8. CASE Quit(t)
  BY <1>8, LeaveCounter DEF Quit
<1> QED
  BY <1>1, <1>2, <1>3, <1>4, <1>5, <1>6, <1>7, <1>8 DEF TimerThread

\* Every step of a timer keeps the invariant.
LEMMA StepTimer == TimerInv /\ [TimerNext]_timerVars => TimerInv'
<1> SUFFICES ASSUME TimerInv, [TimerNext]_timerVars PROVE TimerInv'
  OBVIOUS
<1>1. CASE Owner
  BY <1>1, StepOwner
<1>2. CASE \E t \in Thread : TimerThread(t)
  BY <1>2, StepThread
<1>3. CASE UNCHANGED timerVars
  BY <1>3 DEF timerVars, TimerInv, Typed, ThreadsInv, CounterInv, Counted, DoomedInv, OnlyTimeoutStops
<1> QED
  BY <1>1, <1>2, <1>3 DEF TimerNext

\* The invariant holds in every reachable state of a timer.
LEMMA TimerInvariant == TimerSpec => []TimerInv
BY InitTimer, StepTimer, PTL DEF TimerSpec

-----------------------------------------------------------------------------
\* At most one thread can call back, for any number of calls in any order: the counter
\* is left by every thread, once, and waitForPendingCallbacks waits for it (Timer.hpp:85-96).
THEOREM OneThreadArmed == TimerSpec => []OneArmed
<1>1. TimerInv => OneArmed
  BY DEF TimerInv, CounterInv, OneArmed, Armed, Counted
<1> QED
  BY <1>1, TimerInvariant, PTL

\* A thread stopped while it slept never calls back (Timer.hpp:46-49, 65-68).
THEOREM StoppedThreadsStaySilent == TimerSpec => []StoppedInTime
<1>1. TimerInv => StoppedInTime
  BY DEF TimerInv, DoomedInv, StoppedInTime, Callers
<1> QED
  BY <1>1, TimerInvariant, PTL

\* A timer that was set and not stopped is stopped only by a timeout that ends (Timer.hpp:52).
THEOREM OnlyTimeoutsStop == TimerSpec => []OnlyTimeoutStops
<1>1. TimerInv => OnlyTimeoutStops
  BY DEF TimerInv
<1> QED
  BY <1>1, TimerInvariant, PTL


\* The invariant gives the ranges: the counter is 0 or 1.
LEMMA TimerInvTypes == TimerInv => TypeOK
<1> SUFFICES ASSUME TimerInv PROVE TypeOK
  OBVIOUS
<1>1. CASE Counted = {}
  <2>1. counter = 0 /\ 0 \in 0..MaxSets
    BY <1>1, MaxSetsAssumption DEF TimerInv, CounterInv
  <2> QED
    BY <2>1 DEF TimerInv, Typed, TypeOK
<1>2. CASE Counted # {}
  <2>1. Thread # {}
    BY <1>2 DEF Counted
  <2>2. 1 \in 0..MaxSets
    BY <2>1, MaxSetsAssumption DEF Thread
  <2>3. counter = 1
    BY <1>2 DEF TimerInv, CounterInv
  <2> QED
    BY <2>2, <2>3 DEF TimerInv, Typed, TypeOK
<1> QED
  BY <1>1, <1>2

\* Every variable of a timer stays in its range.
THEOREM TimerTypes == TimerSpec => []TypeOK
BY TimerInvTypes, TimerInvariant, PTL

\* Once the destructor has stopped the timer nobody falls asleep again.
EndInv ==
  /\ owner \in {"dying", "waited"} => ~active
  /\ WaitOutlastsSleeps

\* When the last thread is awake all are: the others are not in the counter.
LEMMA StepEnd ==
  ASSUME TimerInv, EndInv, [TimerNext \/ DestroyIn("gone")]_timerVars
  PROVE  EndInv'
<1>1. CASE Owner \/ DestroyIn("gone")
  <2>1. CASE \E k \in Kinds : CallSet(k) \/ Start(k)
    BY <2>1, KindsAssumption DEF CallSet, Start, StartAfter, EndInv, WaitOutlastsSleeps
  <2>2. CASE Stop
    BY <2>2 DEF Stop, EndInv, WaitOutlastsSleeps
  <2>3. CASE Destroy \/ DestroyIn("gone")
    BY <2>3 DEF Destroy, DestroyIn, EndInv, WaitOutlastsSleeps
  <2>4. CASE FinishDestroy
    <3>1. \A t \in Thread : at[t] = "sleep" => t = sets
      BY DEF TimerInv, CounterInv, Counted
    <3>2. at[sets] # "sleep" /\ owner = "dying" /\ UNCHANGED <<active, at>>
      BY <2>4 DEF FinishDestroy
    <3> QED
      BY <3>1, <3>2 DEF EndInv, WaitOutlastsSleeps
  <2> QED
    BY <1>1, <2>1, <2>2, <2>3, <2>4 DEF Owner
<1>2. ASSUME NEW t \in Thread, TimerThread(t) PROVE EndInv'
  <2>1. UNCHANGED owner /\ (active' = active \/ active' = FALSE)
    BY <1>2 DEF TimerThread, Test, WakeUp, TestAgain, BeginCallback, EndCallback, Leave, StopSelf,
                Quit, ThreadStep
  <2>2. at'[t] = "sleep" => active
    BY <1>2 DEF TimerThread, Test, WakeUp, TestAgain, BeginCallback, EndCallback, Leave, StopSelf,
                Quit, ThreadStep, Goto, TimerInv, Typed
  <2>3. \A u \in Thread \ {t} : at'[u] = at[u]
    BY <1>2 DEF TimerThread, Test, WakeUp, TestAgain, BeginCallback, EndCallback, Leave, StopSelf,
                Quit, ThreadStep, Goto, TimerInv, Typed
  <2>4. active \in BOOLEAN
    BY DEF TimerInv, Typed
  <2> QED
    BY <2>1, <2>2, <2>3, <2>4 DEF EndInv, WaitOutlastsSleeps
<1>3. CASE UNCHANGED timerVars
  BY <1>3 DEF timerVars, EndInv, WaitOutlastsSleeps
<1> QED
  BY <1>1, <1>2, <1>3 DEF TimerNext

-----------------------------------------------------------------------------
(* The wheel.                                                                  *)

\* The mutex is free between the passes, and only a pass has callbacks to run.
PassInv ==
  /\ mutex = free => todo = {} /\ current = none
  /\ mutex \in Thread => at[mutex] = "calling"
  /\ mutex \in Thread \cup {free}

SubsInv ==
  /\ callbacks \subseteq 0..(nextId - 1)
  /\ nextId \in 0..MaxSubs

WheelInv == TimerInv /\ PassInv /\ SubsInv /\ UnsubscribedNeverRuns

-----------------------------------------------------------------------------
\* The invariant holds for a wheel that is not started.
LEMMA InitWheel == WheelInit => WheelInv
BY InitTimer, MaxSubsAssumption
   DEF WheelInit, WheelInv, PassInv, SubsInv, UnsubscribedNeverRuns, free, Thread

\* A step of the owner that leaves the callbacks, and the threads in a pass, alone.
LEMMA OwnerStep ==
  ASSUME WheelInv, TimerInv', UNCHANGED <<passVars, subVars>>,
         \A t \in Thread : at[t] = "calling" => at'[t] = "calling"
  PROVE  WheelInv'
BY DEF WheelInv, PassInv, SubsInv, UnsubscribedNeverRuns, passVars, subVars

\* The timer's invariant is kept where the wheel leaves the timer alone.
LEMMA UnchangedTimer == ASSUME TimerInv, UNCHANGED timerVars PROVE TimerInv'
BY DEF timerVars, TimerInv, Typed, ThreadsInv, CounterInv, Counted, DoomedInv, OnlyTimeoutStops

\* A call of the wheel's owner keeps the invariant.
LEMMA StepWheelOwner ==
  ASSUME WheelInv,
         \/ StartWheel \/ StopWheel \/ Subscribe \/ DestroyWheel
         \/ \E id \in Ids : Unsubscribe(id)
  PROVE  WheelInv'
<1>1. CASE StartWheel
  <2>1. TimerInv'
    BY <1>1, StepOwner, IntervalAssumption DEF StartWheel, Owner, WheelInv
  <2>2. CASE CallSet("interval")
    BY <1>1, <2>1, <2>2, OwnerStep DEF StartWheel, CallSet
  <2>3. CASE Start("interval")
    <3> USE <2>3 DEF Start, StartAfter, Goto
    <3>1. sets + 1 \in Thread /\ at[sets + 1] = "unborn"
      <4>1. sets < MaxSets /\ sets \in 0..MaxSets
        BY IntervalAssumption DEF WheelInv, TimerInv, Typed
      <4> QED
        BY <4>1, MaxSetsAssumption DEF WheelInv, TimerInv, ThreadsInv, Thread
    <3>2. \A t \in Thread : at[t] = "calling" => at'[t] = "calling"
      BY <3>1 DEF WheelInv, TimerInv, Typed
    <3> QED
      BY <1>1, <2>1, <3>2, OwnerStep DEF StartWheel
  <2> QED
    BY <1>1, <2>2, <2>3 DEF StartWheel
<1>2. CASE StopWheel
  BY <1>2, StopTimer, OwnerStep DEF StopWheel, Stop, WheelInv
<1>3. CASE Subscribe
  <2>1. TimerInv'
    BY <1>3, UnchangedTimer DEF Subscribe, WheelInv
  <2>2. SubsInv'
    BY <1>3, MaxSubsAssumption DEF Subscribe, WheelInv, SubsInv
  <2> QED
    BY <1>3, <2>1, <2>2
    DEF Subscribe, WheelInv, PassInv, UnsubscribedNeverRuns, passVars, timerVars
<1>4. CASE DestroyWheel
  BY <1>4, StopTimer, OwnerStep DEF DestroyWheel, DestroyIn, WheelInv
<1>5. CASE \E id \in Ids : Unsubscribe(id)
  <2>1. PICK id \in Ids : Unsubscribe(id)
    BY <1>5
  <2>2. TimerInv'
    BY <2>1, UnchangedTimer DEF Unsubscribe, Erase, WheelInv
  <2>3. todo = {} /\ current = none
    BY <2>1 DEF Unsubscribe, WheelInv, PassInv
  <2> QED
    BY <2>1, <2>2, <2>3
    DEF Unsubscribe, Erase, WheelInv, PassInv, SubsInv, UnsubscribedNeverRuns, passVars, timerVars
<1> QED
  BY <1>1, <1>2, <1>3, <1>4, <1>5

\* A step of a thread of the wheel's timer, in a pass or between two, keeps the invariant.
LEMMA StepWheelThread == ASSUME WheelInv, NEW t \in Thread, WheelThread(t) PROVE WheelInv'
<1> USE DEF WheelInv
<1>1. CASE BetweenPasses(t)
  <2>1. TimerThread(t)
    BY <1>1 DEF BetweenPasses, TimerThread
  <2>2. TimerInv'
    BY <2>1, StepThread
  <2>3. \A u \in Thread : at[u] = "calling" => at'[u] = "calling"
    BY <1>1 DEF BetweenPasses, Test, WakeUp, TestAgain, BeginCallback, Quit, ThreadStep, Goto,
                TimerInv, Typed
  <2> QED
    BY <1>1, <2>2, <2>3, OwnerStep DEF BetweenPasses
<1>2. CASE LockMutex(t)
  <2>1. TimerInv'
    BY <1>2, UnchangedTimer DEF LockMutex
  <2> QED
    BY <1>2, <2>1
    DEF LockMutex, PassInv, SubsInv, UnsubscribedNeverRuns, subVars, timerVars, free, Thread
<1>3. CASE BeginRun(t)
  <2>1. TimerInv'
    BY <1>3, UnchangedTimer DEF BeginRun
  <2>2. t # free
    BY DEF free, Thread
  <2> QED
    BY <1>3, <2>1, <2>2
    DEF BeginRun, PassInv, SubsInv, UnsubscribedNeverRuns, subVars, timerVars
<1>4. CASE EndRun(t)
  <2>1. TimerInv'
    BY <1>4, UnchangedTimer DEF EndRun
  <2>2. t # free
    BY DEF free, Thread
  <2> QED
    BY <1>4, <2>1, <2>2
    DEF EndRun, PassInv, SubsInv, UnsubscribedNeverRuns, subVars, timerVars
<1>5. CASE EndPass(t)
  <2>1. TimerThread(t)
    BY <1>5 DEF EndPass, TimerThread
  <2>2. TimerInv'
    BY <2>1, StepThread
  <2>3. free \notin Thread
    BY DEF free, Thread
  <2> QED
    BY <1>5, <2>2, <2>3 DEF EndPass, PassInv, SubsInv, UnsubscribedNeverRuns, subVars
<1> QED
  BY <1>1, <1>2, <1>3, <1>4, <1>5 DEF WheelThread

\* Every step of the wheel keeps the invariant.
LEMMA StepWheel == WheelInv /\ [WheelNext]_wheelVars => WheelInv'
<1> SUFFICES ASSUME WheelInv, [WheelNext]_wheelVars PROVE WheelInv'
  OBVIOUS
<1>1. CASE StartWheel \/ StopWheel \/ Subscribe \/ DestroyWheel
           \/ \E id \in Ids : Unsubscribe(id)
  BY <1>1, StepWheelOwner
<1>2. CASE \E t \in Thread : WheelThread(t)
  BY <1>2, StepWheelThread
<1>3. CASE UNCHANGED wheelVars
  <2>1. TimerInv'
    BY <1>3, UnchangedTimer DEF wheelVars, WheelInv
  <2> QED
    BY <1>3, <2>1, OwnerStep DEF wheelVars, timerVars
<1> QED
  BY <1>1, <1>2, <1>3 DEF WheelNext

\* The invariant holds in every reachable state of the wheel.
LEMMA WheelInvariant == WheelSpec => []WheelInv
BY InitWheel, StepWheel, PTL DEF WheelSpec

-----------------------------------------------------------------------------
\* No callback runs, or is still to run in the pass, that has been unsubscribed: the
\* mutex keeps unsubscribe() out of the passes (TimerWheel.hpp:79, 103).
THEOREM UnsubscribedStaysSilent == WheelSpec => []UnsubscribedNeverRuns
<1>1. WheelInv => UnsubscribedNeverRuns
  BY DEF WheelInv
<1> QED
  BY <1>1, WheelInvariant, PTL

\* Two passes never overlap, however often the wheel is stopped and started again
\* (TimerWheel.hpp:74-90, Timer.hpp:85-96).
THEOREM PassesExclude == WheelSpec => []OnePass
<1>1. WheelInv => OnePass
  BY DEF WheelInv, TimerInv, CounterInv, Counted, OnePass
<1> QED
  BY <1>1, WheelInvariant, PTL


-----------------------------------------------------------------------------
(* A timer used on its own, and one in a wheel.                                *)

\* On its own a timer has no passes.
UseInv == use \in {"plain", "wheel"} /\ (use = "plain" => mutex = free)

\* Who owns the timer stays the same, and both keep its invariant.
LEMMA UseInvariant == MCSpec => [](WheelInv /\ UseInv)
<1>1. MCInit => WheelInv /\ UseInv
  BY InitWheel DEF MCInit, WheelInit, UseInv
<1>2. WheelInv /\ UseInv /\ [MCNext]_mcVars => (WheelInv /\ UseInv)'
  <2> SUFFICES ASSUME WheelInv, UseInv, [MCNext]_mcVars PROVE (WheelInv /\ UseInv)'
    OBVIOUS
  <2>1. CASE Plain(TimerNext)
    <3>1. TimerInv'
      BY <2>1, StepTimer DEF Plain, WheelInv
    <3>2. mutex = free /\ UNCHANGED <<passVars, subVars, use>>
      BY <2>1 DEF Plain, UseInv
    <3>3. UseInv' /\ PassInv' /\ SubsInv' /\ UnsubscribedNeverRuns'
      BY <3>2 DEF UseInv, WheelInv, PassInv, SubsInv, UnsubscribedNeverRuns, passVars, subVars,
                  free, Thread
    <3> QED
      BY <3>1, <3>3 DEF WheelInv
  <2>2. CASE Wheel(WheelNext)
    BY <2>2, StepWheel DEF Wheel, UseInv
  <2>3. CASE UNCHANGED mcVars
    BY <2>3, StepWheel DEF mcVars, wheelVars, passVars, UseInv
  <2> QED
    BY <2>1, <2>2, <2>3 DEF MCNext
<1> QED
  BY <1>1, <1>2, PTL DEF MCSpec

\* The ids of the callbacks that are subscribed, or have yet to run, are among those the
\* wheel has given out, and its mutex is held by a thread of the timer or by nobody
\* (TimerWheel.hpp:74-104).
THEOREM TimersTyped == MCSpec => []MCTypeOK
<1>1. WheelInv /\ UseInv => MCTypeOK
  <2> SUFFICES ASSUME WheelInv, UseInv PROVE MCTypeOK
    OBVIOUS
  <2>1. TypeOK
    BY TimerInvTypes DEF WheelInv
  <2>2. callbacks \subseteq Ids
    BY MaxSubsAssumption DEF WheelInv, SubsInv, Ids
  <2>3. WheelTypeOK
    BY <2>2 DEF WheelInv, PassInv, SubsInv, UnsubscribedNeverRuns, WheelTypeOK
  <2> QED
    BY <2>1, <2>3 DEF MCTypeOK, UseInv
<1> QED
  BY <1>1, UseInvariant, PTL

\* What a step of the wheel does to its timer.
LEMMA WheelTimer == [WheelNext]_wheelVars => [TimerNext \/ DestroyIn("gone")]_timerVars
<1> SUFFICES ASSUME [WheelNext]_wheelVars PROVE [TimerNext \/ DestroyIn("gone")]_timerVars
  OBVIOUS
<1>1. CASE StartWheel \/ StopWheel
  BY <1>1, IntervalAssumption, Zenon DEF StartWheel, StopWheel, TimerNext, Owner
<1>2. CASE DestroyWheel
  BY <1>2, Zenon DEF DestroyWheel
<1>3. ASSUME NEW t \in Thread, WheelThread(t)
      PROVE  TimerThread(t) \/ UNCHANGED timerVars
  BY <1>3, Zenon DEF WheelThread, BetweenPasses, LockMutex, BeginRun, EndRun, EndPass, TimerThread
<1>4. CASE Subscribe \/ (\E id \in Ids : Unsubscribe(id)) \/ UNCHANGED wheelVars
  BY <1>4, Zenon DEF Subscribe, Unsubscribe, Erase, wheelVars
<1> QED
  BY <1>1, <1>2, <1>3, <1>4, Zenon DEF WheelNext, TimerNext

\* When the destructor of an active timer has waited nobody is asleep, for any number of
\* calls, stops and threads that are late: the wait is made for the last call, and its
\* start has waited for the threads of those before (Timer.hpp:27-33, 85-96).
THEOREM WaitsOutlastSleeps == MCSpec => []WaitOutlastsSleeps
<1>1. MCInit => EndInv
  BY DEF MCInit, WheelInit, TimerInit, EndInv, WaitOutlastsSleeps
<1>2. WheelInv /\ EndInv /\ [MCNext]_mcVars => EndInv'
  <2> SUFFICES ASSUME WheelInv, EndInv, [MCNext]_mcVars PROVE EndInv'
    OBVIOUS
  <2>1. [TimerNext]_timerVars \/ [WheelNext]_wheelVars
    BY DEF MCNext, Plain, Wheel, mcVars, wheelVars
  <2>2. [TimerNext \/ DestroyIn("gone")]_timerVars
    BY <2>1, WheelTimer
  <2> QED
    BY <2>2, StepEnd DEF WheelInv
<1>3. EndInv => WaitOutlastsSleeps
  BY DEF EndInv
<1> QED
  BY <1>1, <1>2, <1>3, UseInvariant, PTL DEF MCSpec

\* What holds of a timer on its own holds of the timer of a wheel.
THEOREM TimersKeepPromises ==
  MCSpec => [](OneArmed /\ StoppedInTime /\ OnlyTimeoutStops /\ UnsubscribedNeverRuns /\ OnePass)
<1>1. WheelInv => OneArmed /\ StoppedInTime /\ OnlyTimeoutStops /\ UnsubscribedNeverRuns /\ OnePass
  <2> SUFFICES ASSUME WheelInv
               PROVE  OneArmed /\ StoppedInTime /\ OnlyTimeoutStops /\ UnsubscribedNeverRuns /\ OnePass
    OBVIOUS
  <2>1. OneArmed /\ OnePass
    BY DEF WheelInv, TimerInv, CounterInv, OneArmed, OnePass, Armed, Counted
  <2>2. StoppedInTime
    BY DEF WheelInv, TimerInv, DoomedInv, StoppedInTime, Callers
  <2> QED
    BY <2>1, <2>2 DEF WheelInv, TimerInv
<1> QED
  BY <1>1, UseInvariant, PTL
=============================================================================
