-------------------------- MODULE WheelProperties --------------------------
(***************************************************************************)
(* The properties of TimerWheel.  Those of its timer hold in it too.       *)
(***************************************************************************)
EXTENDS TimerWheel, TimerProperties

\* The range of every variable of the wheel.
WheelTypeOK ==
  /\ mutex \in Thread \cup {free}
  /\ callbacks \subseteq 0..(nextId - 1)
  /\ nextId \in 0..MaxSubs
  /\ todo \subseteq Ids
  /\ current \in Ids \cup {none}

\* A callback runs, and the pass has it still to run, only while it is subscribed:
\* unsubscribe() returns after the pass that may run it, and what the callback
\* captured may be destroyed then (TimerWheel.hpp:79, 103; TestTimerWheel.cpp:50-68).
UnsubscribedNeverRuns ==
  /\ current \in callbacks \cup {none}
  /\ todo \subseteq callbacks

\* One pass at a time, also when the wheel is stopped and started again during a pass.
OnePass == \A t, u \in Thread : at[t] = "calling" /\ at[u] = "calling" => t = u

\* A subscriber of a wheel that has been started runs again and again until it
\* unsubscribes or the wheel is stopped (TestTimerWheel.cpp:36-48).
SubscriberRuns ==
  \A id \in Ids :
    (wanted /\ id \in callbacks) ~> (current = id \/ ~wanted \/ id \notin callbacks)
=============================================================================
