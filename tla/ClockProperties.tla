-------------------------- MODULE ClockProperties --------------------------
(***************************************************************************)
(* The properties of SlotClock.                                            *)
(***************************************************************************)
EXTENDS SlotClock

\* The range of every variable.
TypeOK ==
  /\ now \in 0..(due + MaxLate)
  /\ wheel \in {"starting", "asleep", "pass"}
  /\ due \in Nat
  /\ ticks \in 0..LastTick
  /\ todo \subseteq Callback /\ (todo # {} => wheel = "pass")
  /\ initSlot \in [Tick -> Nat \cup {NoSlot}]
  /\ born \in [Tick -> 0..now]
  /\ pc \in [Tick -> {"none", "born", "running"}]
  /\ slotOf \in [Tick -> Nat \cup {NoSlot}]
  /\ saved \subseteq 0..GetSlot(now)

\* The passes that have initialised a slot.
Initialising == {t \in Tick : initSlot[t] # NoSlot}

\* How far into its slot pass t may still be at work: start() aligns the wheel to one unit
\* after the boundary, and each period adds its lateness to that of the ones before.
Drift(t) == 1 + (t + 1) * MaxLate

\* The passes that cannot have drifted out of their slot, nor their threads.
Timely == {t \in Tick : Drift(t) < SlotTime}
ThreadTimely == {t \in Tick : Drift(t) + MaxDelay < SlotTime}

\* A thread handles the slot its pass has initialised, although the block takes the
\* number of the slot from the clock again (Block.cpp:8, App.cpp:62), as long as the
\* drift and the delay of the thread stay within the slot.
OwnSlot == \A t \in Initialising \cap ThreadTimely : slotOf[t] \in {NoSlot, initSlot[t]}

\* As long as the drift stays within the slot, one pass initialises the slot after that of
\* the pass before, so that this node takes part in each (docs/notes.txt:17).  After that,
\* with a lateness of half a slot in a period at most, no slot has two passes and none is
\* left out but one at a time (Timer.hpp:61-72 sleeps again only after the callbacks).
EverySlotHandled ==
  \A t \in Initialising : t > 1 =>
    initSlot[t] - initSlot[t - 1] \in IF t \in Timely THEN {1} ELSE {1, 2}

\* The database is saved in each slot whose number says so (App.cpp:76-82).
SavedEveryMinute ==
  wheel = "asleep" =>
    \A t \in 1..ticks : t \in Timely /\ initSlot[t] % Minute = 0 => initSlot[t] \in saved

\* No two threads handle the same slot, in any pass and however the wheel has drifted, unless
\* the earlier one has started so late that the slot it was born in was over (Block.cpp:8,
\* Timer.hpp:61-72): two threads of one slot share its conditions and its contexts, which
\* the first to complete it clears, and the slot of the late one has no thread at all.
OneThreadPerSlot ==
  \A t, u \in Tick : t < u /\ slotOf[t] # NoSlot /\ slotOf[t] = slotOf[u] =>
    slotOf[t] > GetSlot(born[t])
=============================================================================
