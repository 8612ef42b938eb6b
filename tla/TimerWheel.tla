----------------------------- MODULE TimerWheel -----------------------------
(***************************************************************************)
(* slot::TimerWheel (node/src/slot/TimerWheel.hpp): the callbacks of a node*)
(* that one interval of common::utils::Timer runs in each slot.  The owner *)
(* starts and stops the wheel, subscribes and unsubscribes; the thread of  *)
(* the interval locks the mutex and runs the callbacks, in any order (they *)
(* are in an unordered_map).                                               *)
(*                                                                         *)
(* The owner's critical sections are one step each; the one of the thread  *)
(* is a step for the lock, two for each callback and one for the unlock.   *)
(***************************************************************************)
EXTENDS IntervalTimer

CONSTANT MaxSubs  \* bound: subscriptions

ASSUME MaxSubsAssumption == MaxSubs \in Nat

\* All the wheel asks of its timer is an interval.
ASSUME IntervalAssumption == "interval" \in Kinds

VARIABLES
  mutex,      \* TimerWheel::mutex: the thread in the pass over the callbacks, or free
  callbacks,  \* TimerWheel::callbacks: the ids subscribed
  nextId,     \* TimerWheel::counter
  todo,       \* the callbacks the pass has yet to run
  current     \* the callback that runs, or none

passVars == <<mutex, todo, current>>
subVars == <<callbacks, nextId>>
wheelVars == <<timerVars, passVars, subVars>>

Ids == 0..(MaxSubs - 1)
free == 0
none == MaxSubs

-----------------------------------------------------------------------------
WheelInit ==
  /\ TimerInit
  /\ mutex = free
  /\ callbacks = {}
  /\ nextId = 0
  /\ todo = {}
  /\ current = none

-----------------------------------------------------------------------------
(* The owner. *)

\* start() sleeps up to the next slot, without the mutex, and sets the interval.
StartWheel ==
  /\ CallSet("interval") \/ Start("interval")
  /\ UNCHANGED <<passVars, subVars>>

StopWheel ==
  /\ mutex = free
  /\ Stop
  /\ UNCHANGED <<passVars, subVars>>

Subscribe ==
  /\ owner = "ready"
  /\ mutex = free
  /\ nextId < MaxSubs
  /\ callbacks' = callbacks \cup {nextId}
  /\ nextId' = nextId + 1
  /\ UNCHANGED <<timerVars, passVars>>

Erase(id) ==
  /\ owner = "ready"
  /\ id < nextId
  /\ callbacks' = callbacks \ {id}
  /\ UNCHANGED <<timerVars, passVars, nextId>>

\* Deviation: unsubscribe() does not lock the mutex.
UnsubscribeAtOnce(id) == Erase(id)

Unsubscribe(id) == mutex = free /\ Erase(id)

\* ~TimerWheel calls stop(), so ~Timer finds the timer inactive and does not wait.
DestroyWheel ==
  /\ mutex = free
  /\ DestroyIn("gone")
  /\ UNCHANGED <<passVars, subVars>>

-----------------------------------------------------------------------------
(* The thread of the interval. *)

LockMutex(t) ==
  /\ at[t] = "calling"
  /\ mutex = free
  /\ mutex' = t
  /\ todo' = callbacks
  /\ UNCHANGED <<timerVars, subVars, current>>

BeginRun(t) ==
  /\ mutex = t
  /\ current = none
  /\ \E id \in todo :
       /\ current' = id
       /\ todo' = todo \ {id}
  /\ UNCHANGED <<timerVars, subVars, mutex>>

EndRun(t) ==
  /\ mutex = t
  /\ current # none
  /\ current' = none
  /\ UNCHANGED <<timerVars, subVars, mutex, todo>>

\* Deviation: the pass ends and leaves the mutex locked.
EndPassLocked(t) ==
  /\ mutex = t
  /\ todo = {} /\ current = none
  /\ EndCallback(t)
  /\ UNCHANGED <<passVars, subVars>>

EndPass(t) ==
  /\ mutex = t
  /\ todo = {} /\ current = none
  /\ mutex' = free
  /\ EndCallback(t)
  /\ UNCHANGED <<subVars, todo, current>>

BetweenPasses(t) ==
  /\ Test(t) \/ WakeUp(t) \/ TestAgain(t) \/ BeginCallback(t) \/ Quit(t)
  /\ UNCHANGED <<passVars, subVars>>

WheelThread(t) ==
  \/ BetweenPasses(t)
  \/ LockMutex(t)
  \/ BeginRun(t)
  \/ EndRun(t)
  \/ EndPass(t)

-----------------------------------------------------------------------------
WheelNext ==
  \/ StartWheel
  \/ StopWheel
  \/ Subscribe
  \/ \E id \in Ids : Unsubscribe(id)
  \/ DestroyWheel
  \/ \E t \in Thread : WheelThread(t)

WheelSpec == WheelInit /\ [][WheelNext]_wheelVars

\* The thread goes on, its callbacks return, and the mutex is granted to it although
\* the owner asks for it too: the owner only holds it for a moment.  A start() that
\* waits for the thread before goes on.
WheelFairness ==
  /\ \A t \in Thread : WF_wheelVars(WheelThread(t))
  /\ WF_wheelVars(Start("interval") /\ UNCHANGED <<passVars, subVars>>)

FairWheelSpec == WheelSpec /\ WheelFairness
=============================================================================
