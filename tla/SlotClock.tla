----------------------------- MODULE SlotClock -----------------------------
(***************************************************************************)
(* The slots of one node and its clock: TimerWheel::start waits for the    *)
(* next slot, and from then on the interval sleeps for one slot after each *)
(* pass over the three callbacks of App.cpp: initialise the slot, start a  *)
(* thread for it, save the database.  The two callbacks and the thread each*)
(* take the number of the slot from the clock for themselves (Time.cpp).   *)
(*                                                                         *)
(* Time is discrete.  The scheduler may delay the wheel in each period by  *)
(* MaxLate in all, and a new thread by MaxDelay.                           *)
(***************************************************************************)
EXTENDS Integers, FiniteSets

CONSTANTS
  SlotTime,  \* Time::SLOT, the units of time in a slot
  Minute,    \* the slots between two saves of the database
  MaxLate,   \* how late the wheel may be in a period
  MaxDelay,  \* how late the thread of a slot may start
  LastTick   \* bound: the number of passes

ASSUME ClockAssumption ==
  /\ SlotTime \in Nat \ {0} /\ Minute \in Nat \ {0}
  /\ MaxLate \in Nat /\ MaxDelay \in Nat /\ LastTick \in Nat

VARIABLES
  now,          \* the time
  wheel,        \* "starting", "asleep" or in a "pass"
  due,          \* when the wheel is to wake up
  ticks,        \* how many passes have begun
  todo,         \* the callbacks the pass has yet to run
  initSlot,     \* initSlot[t]: the slot the pass t has initialised, or NoSlot
  born,         \* born[t]: when pass t has started its thread
  pc,           \* the thread of pass t: "none" yet, "born" or "running"
  slotOf,       \* slotOf[t]: the slot the thread of pass t handles, or NoSlot
  saved         \* the slots in which the database has been saved

vars == <<now, wheel, due, ticks, todo, initSlot, born, pc, slotOf, saved>>

Tick == 1..LastTick
Callback == {"init", "spawn", "save"}
NoSlot == -1

GetSlot(time) == time \div SlotTime

\* Deviation: the time since the last slot.
TimeSinceSlot(time) == time % SlotTime

GetTimeToTheNearestSlot(time) == SlotTime - (time % SlotTime)

-----------------------------------------------------------------------------
Init ==
  /\ now \in 0..(SlotTime - 1)
  /\ wheel = "starting"
  /\ due = now + GetTimeToTheNearestSlot(now) + 1
  /\ ticks = 0
  /\ todo = {}
  /\ initSlot = [t \in Tick |-> NoSlot]
  /\ born = [t \in Tick |-> 0]
  /\ pc = [t \in Tick |-> "none"]
  /\ slotOf = [t \in Tick |-> NoSlot]
  /\ saved = {}

Advance ==
  /\ now < due + MaxLate
  /\ \A t \in Tick : pc[t] = "born" => now < born[t] + MaxDelay
  /\ now' = now + 1
  /\ UNCHANGED <<wheel, due, ticks, todo, initSlot, born, pc, slotOf, saved>>

-----------------------------------------------------------------------------
(* The wheel. *)

SleepUntil(time) ==
  /\ wheel' = "asleep"
  /\ due' = time
  /\ UNCHANGED <<now, ticks, todo, initSlot, born, pc, slotOf, saved>>

StartInterval == wheel = "starting" /\ now >= due /\ SleepUntil(now + SlotTime)

BeginPass ==
  /\ wheel = "asleep"
  /\ now >= due
  /\ ticks < LastTick
  /\ wheel' = "pass"
  /\ ticks' = ticks + 1
  /\ todo' = Callback
  /\ UNCHANGED <<now, due, initSlot, born, pc, slotOf, saved>>

Run(callback) ==
  /\ callback \in todo
  /\ todo' = todo \ {callback}
  /\ UNCHANGED <<now, wheel, due, ticks, slotOf>>

InitSlot ==
  /\ Run("init")
  /\ initSlot' = [initSlot EXCEPT ![ticks] = GetSlot(now)]
  /\ UNCHANGED <<born, pc, saved>>

SpawnThread ==
  /\ Run("spawn")
  /\ born' = [born EXCEPT ![ticks] = now]
  /\ pc' = [pc EXCEPT ![ticks] = "born"]
  /\ UNCHANGED <<initSlot, saved>>

SaveIn(slot, rest) ==
  /\ Run("save")
  /\ saved' = IF slot % Minute = rest THEN saved \cup {slot} ELSE saved
  /\ UNCHANGED <<initSlot, born, pc>>

\* Deviation: the database is saved when the number of the slot leaves a rest of 1.
SaveDbLater == SaveIn(GetSlot(now), 1)

SaveDb == SaveIn(GetSlot(now), 0)

\* Deviation: the pass ends with callbacks left to run.
EndPassEarly == wheel = "pass" /\ SleepUntil(now + SlotTime)

\* Deviation: the interval is one unit short.
EndPassShort == wheel = "pass" /\ todo = {} /\ SleepUntil(now + SlotTime - 1)

\* Deviation: the interval is one unit long.
EndPassLong == wheel = "pass" /\ todo = {} /\ SleepUntil(now + SlotTime + 1)

EndPass == wheel = "pass" /\ todo = {} /\ SleepUntil(now + SlotTime)

-----------------------------------------------------------------------------
(* The thread of a pass: what it does in its slot is SlotConsensus and SlotPipeline. *)

\* PendingBlockSaver::save: the constructor of the block asks the clock.
BeginThread(t) ==
  /\ pc[t] = "born"
  /\ pc' = [pc EXCEPT ![t] = "running"]
  /\ slotOf' = [slotOf EXCEPT ![t] = GetSlot(now)]
  /\ UNCHANGED <<now, wheel, due, ticks, todo, initSlot, born, saved>>

-----------------------------------------------------------------------------
Next ==
  \/ Advance
  \/ StartInterval \/ BeginPass \/ InitSlot \/ SpawnThread \/ SaveDb \/ EndPass
  \/ \E t \in Tick : BeginThread(t)

Spec == Init /\ [][Next]_vars
=============================================================================
