--------------------------- MODULE IntervalTimer ---------------------------
(***************************************************************************)
(* common::utils::Timer (common/utils/Timer.hpp): one owner that sets the  *)
(* timer, stops it and destroys it, and the detached threads setTimeout and*)
(* setInterval leave behind, which share with the owner the atomics active *)
(* and counter and nothing else.                                           *)
(*                                                                         *)
(* A step of a thread is one access to an atomic, with what follows up to  *)
(* the next.  A thread is named by the number of the call that made it.    *)
(***************************************************************************)
EXTENDS Integers, FiniteSets

CONSTANTS
  MaxSets,  \* bound: calls of setTimeout and setInterval
  Kinds     \* the calls the owner makes: a subset of {"timeout", "interval"}

ASSUME MaxSetsAssumption == MaxSets \in Nat
ASSUME KindsAssumption == Kinds \subseteq {"timeout", "interval"}

VARIABLES
  active,   \* Timer::active
  counter,  \* Timer::counter
  sets,     \* how many calls have started a thread
  kind,     \* kind[t]: the call that started thread t
  at,       \* at[t]: what thread t does next
  owner,    \* what the owner does
  wanted,   \* history: the timer has been set and the owner has not stopped it
  doomed    \* history: the threads that had yet to test active when the timer was stopped

timerVars == <<active, counter, sets, kind, at, owner, wanted, doomed>>

Thread == 1..MaxSets

\* The threads that have not left the counter.
Counted == {t \in Thread : at[t] \in {"test", "sleep", "woken", "callback", "calling", "leave",
                              "quit"}}

\* The threads that may call back again.
Armed == {t \in Thread : at[t] \in {"test", "sleep", "woken", "callback", "calling"}}

-----------------------------------------------------------------------------
TimerInit ==
  /\ active = FALSE
  /\ counter = 0
  /\ sets = 0
  /\ kind = [t \in Thread |-> "none"]
  /\ at = [t \in Thread |-> "unborn"]
  /\ owner = "ready"
  /\ wanted = FALSE
  /\ doomed = {}

Goto(t, next) == at' = [at EXCEPT ![t] = next]

-----------------------------------------------------------------------------
(* The owner. *)

\* throwErrorIfTimerAlreadyStarted: the call throws when the timer is active,
\* which changes nothing.  Otherwise it waits for the thread before.
CallSet(k) ==
  /\ owner = "ready"
  /\ ~active
  /\ sets < MaxSets
  /\ owner' = k
  /\ UNCHANGED <<active, counter, sets, kind, at, wanted, doomed>>

\* waitForPendingCallbacks is over, updateTimerState, and the new thread.
StartAfter(k, noCallbacks) ==
  /\ owner = k
  /\ noCallbacks
  /\ active' = TRUE
  /\ counter' = counter + 1
  /\ sets' = sets + 1
  /\ kind' = [kind EXCEPT ![sets + 1] = k]
  /\ Goto(sets + 1, "test")
  /\ owner' = "ready"
  /\ wanted' = TRUE
  /\ UNCHANGED doomed

\* Deviation: the call does not wait for pending callbacks.
StartAtOnce(k) == StartAfter(k, TRUE)

Start(k) == StartAfter(k, counter = 0)

Stop ==
  /\ owner = "ready"
  /\ active' = FALSE
  /\ wanted' = FALSE
  /\ doomed' = doomed \cup {t \in Thread : at[t] \in {"test", "sleep", "woken"}}
  /\ UNCHANGED <<counter, sets, kind, at, owner>>

DestroyIn(state) ==
  /\ owner = "ready"
  /\ owner' = state
  /\ active' = FALSE
  /\ wanted' = FALSE
  /\ doomed' = doomed \cup {t \in Thread : at[t] \in {"test", "sleep", "woken"}}
  /\ UNCHANGED <<counter, sets, kind, at>>

\* ~Timer stops the timer and sleeps, but only when it is still active.
Destroy == DestroyIn(IF active THEN "dying" ELSE "gone")

\* The destructor sleeps a tenth longer than the thread of the last call, which set time,
\* and asks nobody: what the threads do when they are awake it need not outlast.
FinishDestroy ==
  /\ owner = "dying"
  /\ at[sets] # "sleep"
  /\ owner' = "waited"
  /\ UNCHANGED <<active, counter, sets, kind, at, wanted, doomed>>

Owner ==
  \/ \E k \in Kinds : CallSet(k) \/ Start(k)
  \/ Stop
  \/ Destroy
  \/ FinishDestroy

-----------------------------------------------------------------------------
(* A thread of the timer. *)

ThreadStep(t, from, next) ==
  /\ at[t] = from
  /\ Goto(t, next)
  /\ UNCHANGED <<sets, kind, owner, wanted, doomed>>

\* The test before the sleep.
Test(t) ==
  /\ ThreadStep(t, "test", IF active THEN "sleep" ELSE "quit")
  /\ UNCHANGED <<active, counter>>

WakeUp(t) ==
  /\ ThreadStep(t, "sleep", "woken")
  /\ UNCHANGED <<active, counter>>

\* Deviation: the interval is not tested again after the sleep.
NoTestAgain(t) ==
  /\ ThreadStep(t, "woken", "callback")
  /\ UNCHANGED <<active, counter>>

\* The test after the sleep.
TestAgain(t) ==
  /\ ThreadStep(t, "woken", IF active THEN "callback" ELSE "quit")
  /\ UNCHANGED <<active, counter>>

BeginCallback(t) ==
  /\ ThreadStep(t, "callback", "calling")
  /\ UNCHANGED <<active, counter>>

\* Deviation: the interval leaves its loop after the first callback.
EndAndLeave(t) ==
  /\ ThreadStep(t, "calling", "leave")
  /\ UNCHANGED <<active, counter>>

\* An interval goes on with its loop.
EndCallback(t) ==
  /\ ThreadStep(t, "calling", IF kind[t] = "interval" THEN "test" ELSE "leave")
  /\ UNCHANGED <<active, counter>>

\* A timeout leaves the counter and calls stop() after that.
Leave(t) ==
  /\ ThreadStep(t, "leave", "stop")
  /\ counter' = counter - 1
  /\ UNCHANGED active

\* Deviation: the thread leaves the counter with stop() once more.
StopAndLeave(t) ==
  /\ ThreadStep(t, "stop", "ended")
  /\ active' = FALSE
  /\ counter' = counter - 1

StopSelf(t) ==
  /\ ThreadStep(t, "stop", "ended")
  /\ active' = FALSE
  /\ UNCHANGED counter

\* Deviation: the thread ends without leaving the counter.
QuitCounted(t) ==
  /\ ThreadStep(t, "quit", "ended")
  /\ UNCHANGED <<active, counter>>

\* The thread has found the timer stopped.
Quit(t) ==
  /\ ThreadStep(t, "quit", "ended")
  /\ counter' = counter - 1
  /\ UNCHANGED active

TimerThread(t) ==
  \/ Test(t)
  \/ WakeUp(t)
  \/ TestAgain(t)
  \/ BeginCallback(t)
  \/ EndCallback(t)
  \/ Leave(t)
  \/ StopSelf(t)
  \/ Quit(t)

-----------------------------------------------------------------------------
TimerNext == Owner \/ \E t \in Thread : TimerThread(t)

TimerSpec == TimerInit /\ [][TimerNext]_timerVars

\* The threads run, a sleep ends, and a call or destructor that waits goes on.
TimerFairness ==
  /\ \A t \in Thread : WF_timerVars(TimerThread(t))
  /\ WF_timerVars(FinishDestroy \/ \E k \in Kinds : Start(k))

FairTimerSpec == TimerSpec /\ TimerFairness
=============================================================================
