------------------------------ MODULE MCTimers ------------------------------
(***************************************************************************)
(* Small instances of the timer for TLC: one that is used on its own, as   *)
(* the client's (IntervalTimer), and one inside a wheel (TimerWheel).      *)
(***************************************************************************)
EXTENDS WheelProperties

VARIABLE use  \* who owns the timer: "plain" or "wheel"

mcVars == <<wheelVars, use>>

MCInit == WheelInit /\ use \in {"plain", "wheel"}

Plain(A) == use = "plain" /\ A /\ UNCHANGED <<passVars, subVars, use>>

Wheel(A) == use = "wheel" /\ A /\ UNCHANGED use

MCNext == Plain(TimerNext) \/ Wheel(WheelNext)

\* TimerFairness and WheelFairness.
MCFairness ==
  /\ \A t \in Thread : /\ WF_mcVars(Plain(TimerThread(t)))
                       /\ WF_mcVars(Wheel(WheelThread(t)))
  /\ WF_mcVars(Plain(FinishDestroy \/ \E k \in Kinds : Start(k)))
  /\ WF_mcVars(Wheel(Start("interval") /\ UNCHANGED <<passVars, subVars>>))

MCSpec == MCInit /\ [][MCNext]_mcVars /\ MCFairness

-----------------------------------------------------------------------------
\* The range of every variable.
MCTypeOK == TypeOK /\ WheelTypeOK /\ use \in {"plain", "wheel"}
=============================================================================
