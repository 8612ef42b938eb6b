-------------------------- MODULE TimerProperties --------------------------
(***************************************************************************)
(* The properties of IntervalTimer.                                        *)
(***************************************************************************)
EXTENDS IntervalTimer

\* The range of every variable.
TypeOK ==
  /\ active \in BOOLEAN
  /\ counter \in 0..MaxSets
  /\ sets \in 0..MaxSets
  /\ kind \in [Thread -> Kinds \cup {"none"}]
  /\ at \in [Thread -> {"unborn", "test", "sleep", "woken", "callback", "calling", "leave",
                        "quit", "stop", "ended"}]
  /\ owner \in Kinds \cup {"ready", "dying", "waited", "gone"}
  /\ wanted \in BOOLEAN
  /\ doomed \subseteq Thread

\* No two threads can call back, whatever the order of set, stop and the threads
\* of the calls before: waitForPendingCallbacks (Timer.hpp:85-90) keeps the next
\* thread back until the counter is left.
OneArmed == \A t, u \in Armed : t = u

\* A thread that is asleep when the timer is stopped never calls back, also when the
\* timer is set again before it wakes up (TestTimer.cpp:34-44, 68-78; Timer.hpp:46-50, 65-69).
StoppedInTime == \A t \in doomed : at[t] \notin {"callback", "calling"}

\* A call that has not thrown gets its thread started: it does not wait for a
\* thread that will never leave the counter.
SetReturns == (owner \in Kinds) ~> (owner = "ready")

\* A timer that has been set and not been stopped since stays active until its
\* timeout has called back (TestTimer.cpp:107-122).
SetTimerRuns ==
  wanted => \/ active
            \/ kind[sets] = "timeout" /\ at[sets] = "ended"

\* It can lose that only to the last step of an earlier timeout.
OnlyTimeoutStops ==
  wanted /\ ~active => \E t \in 1..sets : kind[t] = "timeout" /\ at[t] = "ended"

\* Nobody is asleep any more when the destructor of an active timer has slept 1.1 times the
\* delay of the last call (Timer.hpp:27-33; TestTimer.cpp:141-152): a thread of an earlier
\* call, whose delay may be longer, is not in the counter (Timer.hpp:85-90).
WaitOutlastsSleeps == owner = "waited" => \A t \in Thread : at[t] # "sleep"
=============================================================================
