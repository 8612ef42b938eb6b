---------------------------- MODULE ClockProofs ----------------------------
(***************************************************************************)
(* Proofs about SlotClock: which slots a node takes part in, for any       *)
(* length of a slot and any lateness of the wheel and of the threads.  A   *)
(* pass begins after the boundary of its slot, and is over within its      *)
(* Drift; the number of the slot follows by division.                      *)
(***************************************************************************)
EXTENDS ClockProperties, TLAPS

\* When slot n begins.
Begin(n) == n * SlotTime

\* The passes that have run all their callbacks.
Over == IF wheel = "pass" THEN ticks - 1 ELSE ticks

\* The wheel sleeps up to the slot after the one of its last pass, with the lateness of all
\* passes; a pass finds its time between due and the end of its Drift.
DueInv ==
  /\ wheel = "starting" => ticks = 0 /\ due = Begin(1) + 1
  /\ wheel = "asleep" => due \in (Begin(ticks + 2) + 1)..(Begin(ticks + 2) + Drift(ticks))
  /\ wheel = "pass" => /\ ticks > 0 /\ now >= due
                       /\ due \in (Begin(ticks + 1) + 1)..(Begin(ticks + 1) + Drift(ticks - 1))

\* What the passes have done.
PassInv ==
  /\ \A t \in Tick : t <= Over => initSlot[t] # NoSlot
  /\ \A t \in Tick : t > ticks => initSlot[t] = NoSlot /\ pc[t] = "none"
  /\ wheel = "pass" => ("init" \in todo <=> initSlot[ticks] = NoSlot)
  /\ \A t \in Initialising : initSlot[t] > t
  /\ \A t \in Timely : initSlot[t] \in {NoSlot, t + 1}

\* The time at which pass t has initialised its slot.
InitBetween(t, first, last) == \E time \in first..last : initSlot[t] = GetSlot(time)

\* The last pass has initialised its slot within MaxLate of its end.
LastInv ==
  /\ Over > 0 => InitBetween(Over, due - SlotTime - MaxLate, due - SlotTime)
  /\ wheel = "pass" /\ "init" \notin todo => InitBetween(ticks, due, now)

\* What the threads have done.
ThreadInv ==
  \A t \in Tick :
    /\ pc[t] # "none" => born[t] \in (Begin(t + 1) + 1)..(Begin(t + 1) + Drift(t))
    /\ pc[t] = "born" => now <= born[t] + MaxDelay
    /\ t \in ThreadTimely => slotOf[t] \in {NoSlot, t + 1}
    /\ pc[t] = "running" => slotOf[t] # NoSlot

\* What has been saved.
SavedInv ==
  \A t \in Timely :
    t <= Over \/ (t = ticks /\ "save" \notin todo) =>
      ((t + 1) % Minute = 0 => t + 1 \in saved)

\* The threads are born a slot apart: the wheel sleeps a slot after each pass, and a thread
\* takes the slot it was born in or a later one.
BornInv ==
  /\ \A t \in Tick :
       pc[t] # "none" => (wheel = "pass" /\ t = ticks) \/ born[t] + SlotTime <= due
  /\ \A t, u \in Tick :
       t < u /\ pc[t] # "none" /\ pc[u] # "none" => born[t] + SlotTime <= born[u]
  /\ \A t \in Tick :
       slotOf[t] # NoSlot => pc[t] # "none" /\ GetSlot(born[t]) <= slotOf[t]
  /\ wheel = "pass" /\ "spawn" \in todo => pc[ticks] = "none"

ClockInv == TypeOK /\ DueInv /\ PassInv /\ LastInv /\ ThreadInv /\ SavedInv /\ BornInv


-----------------------------------------------------------------------------
(* Slots and times.                                                            *)

\* A slot after another.
LEMMA NextBegin ==
  ASSUME NEW n \in Int
  PROVE  Begin(n) \in Int /\ Begin(n + 1) = Begin(n) + SlotTime
BY ClockAssumption DEF Begin

\* The slot of a time is a number, and the time lies in it.
LEMMA SlotOfTime ==
  ASSUME NEW time \in Int
  PROVE  /\ GetSlot(time) \in Int
         /\ Begin(GetSlot(time)) <= time /\ time < Begin(GetSlot(time)) + SlotTime
BY ClockAssumption DEF Begin, GetSlot

\* A later slot begins later.
LEMMA BeginsApart ==
  ASSUME NEW m \in Int, NEW n \in Int, m < n
  PROVE  Begin(m) + SlotTime <= Begin(n)
<1>1. SlotTime \in Nat /\ SlotTime > 0
  BY ClockAssumption
<1>2. \A a, b \in Int : a >= 1 => a * SlotTime >= SlotTime
  BY <1>1
<1>3. (n - m) * SlotTime = n * SlotTime - m * SlotTime
  BY <1>1
<1> QED
  BY <1>1, <1>2, <1>3 DEF Begin

\* A time that lies in slot n has n for its slot.
LEMMA SlotIs ==
  ASSUME NEW time \in Int, NEW n \in Int, Begin(n) <= time, time < Begin(n) + SlotTime
  PROVE  GetSlot(time) = n
<1> DEFINE m == GetSlot(time)
<1>1. m \in Int /\ Begin(m) <= time /\ time < Begin(m) + SlotTime
  BY SlotOfTime
<1>2. Begin(m) \in Int /\ Begin(n) \in Int /\ SlotTime \in Int
  BY <1>1, NextBegin, ClockAssumption
<1> HIDE DEF m
<1>3. ~(m < n)
  <2> SUFFICES ASSUME m < n PROVE FALSE
    OBVIOUS
  <2>1. Begin(m) + SlotTime <= Begin(n)
    BY <1>1, BeginsApart
  <2> QED
    BY <1>1, <1>2, <2>1
<1>4. ~(n < m)
  <2> SUFFICES ASSUME n < m PROVE FALSE
    OBVIOUS
  <2>1. Begin(n) + SlotTime <= Begin(m)
    BY <1>1, BeginsApart
  <2> QED
    BY <1>1, <1>2, <2>1
<1> QED
  BY <1>1, <1>3, <1>4 DEF m

\* A later time is not in an earlier slot.
LEMMA SlotsGrow ==
  ASSUME NEW first \in Int, NEW last \in Int, first <= last
  PROVE  GetSlot(first) <= GetSlot(last)
<1> DEFINE m == GetSlot(first)
           n == GetSlot(last)
<1>1. /\ m \in Int /\ Begin(m) <= first
      /\ n \in Int /\ last < Begin(n) + SlotTime
  BY SlotOfTime
<1>2. Begin(m) \in Int /\ Begin(n) \in Int /\ SlotTime \in Int
  BY <1>1, NextBegin, ClockAssumption
<1> HIDE DEF m, n
<1>3. ~(n < m)
  <2> SUFFICES ASSUME n < m PROVE FALSE
    OBVIOUS
  <2>1. Begin(n) + SlotTime <= Begin(m)
    BY <1>1, BeginsApart
  <2> QED
    BY <1>1, <1>2, <2>1
<1> QED
  BY <1>1, <1>3 DEF m, n

\* Times a slot apart are in different slots.
LEMMA SlotsLater ==
  ASSUME NEW first \in Int, NEW last \in Int, first + SlotTime <= last
  PROVE  GetSlot(first) < GetSlot(last)
<1> DEFINE m == GetSlot(first)
           n == GetSlot(last)
<1>1. /\ m \in Int /\ Begin(m) <= first
      /\ n \in Int /\ last < Begin(n) + SlotTime
  BY SlotOfTime
<1>2. Begin(m) \in Int /\ Begin(n) \in Int /\ SlotTime \in Nat
  BY <1>1, NextBegin, ClockAssumption
<1> HIDE DEF m, n
<1>3. m # n
  BY <1>1, <1>2
<1>4. ~(n < m)
  <2> SUFFICES ASSUME n < m PROVE FALSE
    OBVIOUS
  <2>1. Begin(n) + SlotTime <= Begin(m)
    BY <1>1, BeginsApart
  <2> QED
    BY <1>1, <1>2, <2>1
<1> QED
  BY <1>1, <1>3, <1>4 DEF m, n

\* Times a slot apart, and two slots at most, are in slots one or two apart.
LEMMA SlotsApart ==
  ASSUME NEW first \in Int, NEW last \in Int, first + SlotTime <= last,
         last <= first + 2 * SlotTime
  PROVE  GetSlot(last) - GetSlot(first) \in {1, 2}
<1> DEFINE m == GetSlot(first)
           n == GetSlot(last)
<1>1. /\ m \in Int /\ Begin(m) <= first /\ first < Begin(m) + SlotTime
      /\ n \in Int /\ Begin(n) <= last /\ last < Begin(n) + SlotTime
  BY SlotOfTime
<1>2. Begin(m) \in Int /\ Begin(n) \in Int /\ SlotTime \in Int
  BY <1>1, NextBegin, ClockAssumption
<1> HIDE DEF m, n
<1>3. m < n
  <2> SUFFICES ASSUME ~(m < n) PROVE FALSE
    OBVIOUS
  <2>1. n = m \/ Begin(n) + SlotTime <= Begin(m)
    BY <1>1, BeginsApart
  <2> QED
    BY <1>1, <1>2, <2>1
<1>4. ~(m + 2 < n)
  <2> SUFFICES ASSUME m + 2 < n PROVE FALSE
    OBVIOUS
  <2>1. /\ Begin(m + 1) = Begin(m) + SlotTime
        /\ Begin((m + 1) + 1) = Begin(m + 1) + SlotTime
        /\ (m + 1) + 1 = m + 2
    BY <1>1, NextBegin
  <2>2. Begin(m + 2) + SlotTime <= Begin(n)
    BY <1>1, BeginsApart
  <2> QED
    BY <1>1, <1>2, <2>1, <2>2
<1> QED
  BY <1>1, <1>3, <1>4 DEF m, n


\* The lateness adds up.
LEMMA Drifts ==
  ASSUME NEW t \in Nat
  PROVE  /\ Drift(t) \in Nat /\ Drift(t + 1) = Drift(t) + MaxLate
         /\ t > 0 => Drift(t - 1) \in Nat /\ Drift(t) = Drift(t - 1) + MaxLate
BY ClockAssumption DEF Drift

-----------------------------------------------------------------------------
(* Init.                                                                       *)

\* The first slot of a wheel is the second.
LEMMA InitClock == Init => ClockInv
<1> SUFFICES ASSUME Init PROVE ClockInv
  OBVIOUS
<1>1. /\ SlotTime \in Nat /\ SlotTime > 0 /\ MaxLate \in Nat /\ LastTick \in Nat
      /\ now \in Nat /\ now < SlotTime
  BY ClockAssumption DEF Init
<1>2. GetSlot(now) = 0 /\ now % SlotTime = now
  BY <1>1 DEF GetSlot
<1>3. due = SlotTime + 1 /\ Begin(1) = SlotTime
  BY <1>1, <1>2 DEF Init, GetTimeToTheNearestSlot, Begin
<1>4. TypeOK
  <2>1. now \in 0..(due + MaxLate) /\ due \in Nat /\ ticks \in 0..LastTick /\ 0 \in 0..now
    BY <1>1, <1>3 DEF Init
  <2>2. saved \subseteq 0..GetSlot(now) /\ todo \subseteq Callback
    BY DEF Init
  <2>3. /\ initSlot \in [Tick -> Nat \cup {NoSlot}] /\ slotOf \in [Tick -> Nat \cup {NoSlot}]
        /\ pc \in [Tick -> {"none", "born", "running"}]
    BY DEF Init
  <2>4. born \in [Tick -> 0..now]
    BY <2>1 DEF Init
  <2> QED
    BY <2>1, <2>2, <2>3, <2>4 DEF Init, TypeOK
<1>5. DueInv
  BY <1>3 DEF Init, DueInv
<1>6. PassInv
  BY DEF Init, PassInv, Over, Tick, Initialising, Timely
<1>7. LastInv
  BY DEF Init, LastInv, Over
<1>8. ThreadInv /\ BornInv
  BY DEF Init, ThreadInv, BornInv, ThreadTimely
<1>9. SavedInv
  BY DEF Init, SavedInv, Over, Timely, Tick
<1> QED
  BY <1>4, <1>5, <1>6, <1>7, <1>8, <1>9 DEF ClockInv

-----------------------------------------------------------------------------
(* The passes.                                                                 *)

\* A pass works in its slot, or in a later one when it has drifted out of it.
LEMMA PassTime ==
  ASSUME ClockInv, wheel = "pass"
  PROVE  /\ ticks \in Tick
         /\ now \in (Begin(ticks + 1) + 1)..(Begin(ticks + 1) + Drift(ticks))
         /\ GetSlot(now) \in Nat /\ GetSlot(now) > ticks
         /\ ticks \in Timely => GetSlot(now) = ticks + 1
<1> USE DEF ClockInv
<1>1. /\ ticks \in Tick /\ ticks \in Nat /\ ticks > 0 /\ now \in Nat /\ due \in Nat
      /\ now >= due /\ now <= due + MaxLate /\ MaxLate \in Nat /\ SlotTime \in Nat
  BY ClockAssumption DEF TypeOK, DueInv, Tick
<1>2. /\ Begin(ticks + 1) \in Int /\ Drift(ticks - 1) \in Nat
      /\ Drift(ticks) \in Nat /\ Drift(ticks) = Drift(ticks - 1) + MaxLate
  BY <1>1, NextBegin, Drifts
<1>3. due \in (Begin(ticks + 1) + 1)..(Begin(ticks + 1) + Drift(ticks - 1))
  BY DEF DueInv
<1>4. now \in (Begin(ticks + 1) + 1)..(Begin(ticks + 1) + Drift(ticks))
  BY <1>1, <1>2, <1>3
<1>5. GetSlot(now) \in Int /\ GetSlot(now) >= ticks + 1
  <2>1. SlotTime > 0 /\ ticks + 1 \in Int
    BY <1>1, ClockAssumption
  <2>2. GetSlot(Begin(ticks + 1)) = ticks + 1
    BY <1>2, <2>1, ClockAssumption, SlotIs
  <2>3. GetSlot(Begin(ticks + 1)) <= GetSlot(now)
    BY <1>1, <1>2, <1>4, SlotsGrow
  <2>4. GetSlot(now) \in Int
    BY <1>1, SlotOfTime
  <2> QED
    BY <2>2, <2>3, <2>4
<1>6. ASSUME ticks \in Timely PROVE GetSlot(now) = ticks + 1
  <2>1. Drift(ticks) < SlotTime
    BY <1>6 DEF Timely
  <2>2. Begin(ticks + 1) <= now /\ now < Begin(ticks + 1) + SlotTime
    BY <1>1, <1>2, <1>4, <2>1
  <2> QED
    BY <1>1, <2>2, SlotIs
<1> QED
  BY <1>1, <1>4, <1>5, <1>6

\* A step that leaves the passes and the threads alone.
LEMMA PassKept ==
  ASSUME PassInv, UNCHANGED <<initSlot, pc>>, Over' = Over, ticks' = ticks,
         wheel' = "pass" => wheel = "pass" /\ ("init" \in todo' <=> "init" \in todo)
  PROVE  PassInv'
BY DEF PassInv, Initialising, Timely


\* Time passes.
LEMMA StepAdvance == ASSUME ClockInv, Advance PROVE ClockInv'
<1> USE DEF ClockInv
<1>1. /\ now \in Nat /\ due \in Nat /\ MaxLate \in Nat /\ now' = now + 1 /\ now < due + MaxLate
      /\ UNCHANGED <<wheel, due, ticks, todo, initSlot, born, pc, slotOf, saved>>
  BY ClockAssumption DEF Advance, TypeOK
<1>2. TypeOK'
  <2>1. now' \in 0..(due' + MaxLate)
    BY <1>1
  <2>2. GetSlot(now) \in Int /\ GetSlot(now') \in Int /\ GetSlot(now) <= GetSlot(now')
    BY <1>1, SlotsGrow, SlotOfTime
  <2>3. saved' \subseteq 0..GetSlot(now')
    BY <1>1, <2>2 DEF TypeOK
  <2>4. born' \in [Tick -> 0..now']
    BY <1>1 DEF TypeOK
  <2> QED
    BY <1>1, <2>1, <2>3, <2>4 DEF TypeOK, GetSlot
<1>3. DueInv'
  BY <1>1 DEF DueInv, Begin, Drift
<1>4. PassInv'
  BY <1>1, PassKept DEF Over
<1>5. LastInv'
  <2>1. Over' = Over
    BY <1>1 DEF Over
  <2>2. \A t, first : InitBetween(t, first, now) => InitBetween(t, first, now')
    <3>1. \A first : \A time \in first..now : time \in first..now'
      BY <1>1
    <3> QED
      BY <3>1 DEF InitBetween
  <2> QED
    BY <1>1, <2>1, <2>2 DEF LastInv, InitBetween, GetSlot
<1>6. ThreadInv'
  <2> SUFFICES ASSUME NEW t \in Tick, pc[t] = "born" PROVE now' <= born[t] + MaxDelay
    BY <1>1 DEF ThreadInv, Begin, Drift, ThreadTimely
  <2>1. now < born[t] + MaxDelay /\ born[t] \in Int /\ MaxDelay \in Nat
    BY ClockAssumption DEF Advance, TypeOK
  <2> QED
    BY <1>1, <2>1
<1>7. SavedInv'
  BY <1>1 DEF SavedInv, Over, Timely, Drift
<1>8. BornInv'
  BY <1>1 DEF BornInv, GetSlot
<1> QED
  BY <1>2, <1>3, <1>4, <1>5, <1>6, <1>7, <1>8


\* A step of the wheel between its passes leaves the work of the passes alone.
LEMMA WheelKept ==
  ASSUME ClockInv, UNCHANGED <<now, initSlot, born, pc, slotOf, saved>>
  PROVE  ThreadInv'
BY DEF ClockInv, ThreadInv, ThreadTimely, Begin, Drift

\* The wheel goes to sleep up to the slot after this one.
LEMMA SleepTypes ==
  ASSUME ClockInv, SleepUntil(now + SlotTime), todo = {}
  PROVE  TypeOK' /\ due' = now + SlotTime
<1>1. /\ now \in Nat /\ SlotTime \in Nat /\ MaxLate \in Nat /\ due' = now + SlotTime
      /\ UNCHANGED <<now, ticks, todo, initSlot, born, pc, slotOf, saved>>
      /\ wheel' = "asleep"
  BY ClockAssumption DEF SleepUntil, ClockInv, TypeOK
<1>2. now' \in 0..(due' + MaxLate) /\ due' \in Nat
  BY <1>1
<1> QED
  BY <1>1, <1>2 DEF ClockInv, TypeOK, GetSlot

\* The wheel has waited for a slot to begin.
LEMMA StepStartInterval == ASSUME ClockInv, StartInterval PROVE ClockInv'
<1> USE DEF ClockInv
<1>1. /\ wheel = "starting" /\ wheel' = "asleep" /\ ticks = 0 /\ ticks' = 0 /\ todo = {}
      /\ now >= due /\ now <= due + MaxLate /\ now \in Nat /\ due = Begin(1) + 1
      /\ UNCHANGED <<now, initSlot, born, pc, slotOf, saved>>
  BY DEF StartInterval, SleepUntil, TypeOK, DueInv
<1>2. TypeOK' /\ due' = now + SlotTime
  BY <1>1, SleepTypes DEF StartInterval
<1>3. DueInv'
  <2>1. /\ Begin(1) \in Int /\ Begin(1 + 1) = Begin(1) + SlotTime /\ 1 + 1 = 2 /\ 0 + 2 = 2
        /\ Drift(0) = 1 + MaxLate /\ SlotTime \in Nat /\ MaxLate \in Nat
    BY NextBegin, ClockAssumption DEF Drift
  <2>2. due' \in (Begin(2) + 1)..(Begin(2) + Drift(0))
    BY <1>1, <1>2, <2>1
  <2>3. due' \in (Begin(ticks' + 2) + 1)..(Begin(ticks' + 2) + Drift(ticks'))
    BY <1>1, <2>1, <2>2
  <2> QED
    BY <1>1, <2>3 DEF DueInv, Begin, Drift
<1>4. Over = 0 /\ Over' = 0
  BY <1>1 DEF Over
<1>5. PassInv'
  BY <1>1, <1>4, PassKept
<1>6. LastInv'
  BY <1>1, <1>4 DEF LastInv
<1>7. SavedInv'
  BY <1>1, <1>4 DEF SavedInv, Timely, Drift, Tick
<1>8. BornInv'
  <2>1. \A t \in Tick : pc[t] = "none"
    BY <1>1 DEF PassInv, Tick
  <2> QED
    BY <1>1, <2>1 DEF BornInv
<1> QED
  BY <1>1, <1>2, <1>3, <1>5, <1>6, <1>7, <1>8, WheelKept

\* The wheel wakes up, late by MaxLate at most.
LEMMA StepBeginPass == ASSUME ClockInv, BeginPass PROVE ClockInv'
<1> USE DEF ClockInv
<1> DEFINE k == ticks
<1>1. /\ wheel = "asleep" /\ wheel' = "pass" /\ ticks' = k + 1 /\ k < LastTick /\ todo' = Callback
      /\ now >= due /\ k \in Nat /\ LastTick \in Nat /\ now \in Nat
      /\ UNCHANGED <<now, due, initSlot, born, pc, slotOf, saved>>
  BY ClockAssumption DEF BeginPass, TypeOK
<1> HIDE DEF k
<1>2. TypeOK'
  <2>1. ticks' \in 0..LastTick /\ todo' \subseteq Callback
    BY <1>1
  <2> QED
    BY <1>1, <2>1 DEF TypeOK, GetSlot
<1>3. DueInv'
  <2>1. due \in (Begin(k + 2) + 1)..(Begin(k + 2) + Drift(k))
    BY <1>1 DEF DueInv, k
  <2>2. (k + 1) + 1 = k + 2 /\ (k + 1) - 1 = k
    BY <1>1
  <2>3. due' \in (Begin(ticks' + 1) + 1)..(Begin(ticks' + 1) + Drift(ticks' - 1))
    BY <1>1, <2>1, <2>2
  <2> QED
    BY <1>1, <2>3 DEF DueInv, Begin, Drift
<1>4. Over = k /\ Over' = k
  BY <1>1 DEF Over, k
<1>5. k + 1 \in Tick /\ initSlot[k + 1] = NoSlot
  BY <1>1 DEF PassInv, Tick, k
<1>6. PassInv'
  <2>1. \A t \in Tick : t > k + 1 => t > k
    BY <1>1 DEF Tick
  <2>2. "init" \in todo'
    BY <1>1 DEF Callback
  <2> QED
    BY <1>1, <1>4, <1>5, <2>1, <2>2 DEF PassInv, Initialising, Timely, Drift, k
<1>7. LastInv'
  BY <1>1, <1>4 DEF LastInv, InitBetween, GetSlot, Callback
<1>8. SavedInv'
  BY <1>1, <1>4 DEF SavedInv, Timely, Drift, Callback
<1>9. BornInv'
  <2>1. pc[k + 1] = "none"
    BY <1>1, <1>5 DEF PassInv, k
  <2> QED
    BY <1>1, <2>1 DEF BornInv, GetSlot
<1> QED
  BY <1>1, <1>2, <1>3, <1>6, <1>7, <1>8, <1>9, WheelKept

\* The wheel sleeps again only after the callbacks.
LEMMA StepEndPass == ASSUME ClockInv, EndPass PROVE ClockInv'
<1> USE DEF ClockInv
<1> DEFINE k == ticks
<1>1. /\ wheel = "pass" /\ wheel' = "asleep" /\ ticks' = k /\ todo = {} /\ todo' = {}
      /\ now >= due /\ now <= due + MaxLate /\ now \in Nat /\ due \in Nat
      /\ k \in Nat /\ k > 0 /\ k \in Tick /\ SlotTime \in Nat /\ MaxLate \in Nat
      /\ UNCHANGED <<now, initSlot, born, pc, slotOf, saved>>
  BY ClockAssumption DEF EndPass, SleepUntil, TypeOK, DueInv, Tick
<1>2. TypeOK' /\ due' = now + SlotTime
  BY <1>1, SleepTypes DEF EndPass
<1>3. DueInv'
  <2>1. now \in (Begin(k + 1) + 1)..(Begin(k + 1) + Drift(k))
    BY <1>1, PassTime DEF k
  <2>2. /\ Begin(k + 1) \in Int /\ Begin((k + 1) + 1) = Begin(k + 1) + SlotTime
        /\ (k + 1) + 1 = k + 2 /\ Drift(k) \in Nat
    BY <1>1, NextBegin, Drifts
  <2>3. due' \in (Begin(k + 2) + 1)..(Begin(k + 2) + Drift(k))
    BY <1>1, <1>2, <2>1, <2>2
  <2> QED
    BY <1>1, <2>3 DEF DueInv, Begin, Drift
<1>4. Over = k - 1 /\ Over' = k
  BY <1>1 DEF Over, k
<1>5. initSlot[k] # NoSlot
  BY <1>1 DEF PassInv, k
<1>6. \A t \in Tick : t <= k => t <= k - 1 \/ t = k
  BY <1>1 DEF Tick
<1>7. PassInv'
  BY <1>1, <1>4, <1>5, <1>6 DEF PassInv, Initialising, Timely, Drift, k
<1>8. LastInv'
  <2>1. InitBetween(k, due, now)
    BY <1>1 DEF LastInv, k
  <2>2. PICK time \in due..now : initSlot[k] = GetSlot(time)
    BY <2>1 DEF InitBetween
  <2>3. time \in (due' - SlotTime - MaxLate)..(due' - SlotTime)
    BY <1>1, <1>2
  <2> QED
    BY <1>1, <1>4, <2>2, <2>3 DEF LastInv, InitBetween, GetSlot
<1>9. SavedInv'
  <2>1. \A t \in Timely : t \in Tick
    BY DEF Timely
  <2> QED
    BY <1>1, <1>4, <1>6, <2>1 DEF SavedInv, Timely, Drift, k
<1>10. BornInv'
  <2>1. \A t \in Tick : pc[t] # "none" => born[t] + SlotTime <= due'
    <3> SUFFICES ASSUME NEW t \in Tick, pc[t] # "none" PROVE born[t] + SlotTime <= due'
      OBVIOUS
    <3>1. born[t] \in Nat /\ born[t] <= now
      BY <1>1 DEF TypeOK
    <3> QED
      BY <1>1, <1>2, <3>1
  <2> QED
    BY <1>1, <2>1 DEF BornInv, GetSlot
<1> QED
  BY <1>1, <1>2, <1>3, <1>7, <1>8, <1>9, <1>10, WheelKept


-----------------------------------------------------------------------------
(* The callbacks of a pass.                                                    *)

\* What all callbacks share.
LEMMA RunTypes ==
  ASSUME ClockInv, NEW callback \in Callback, Run(callback)
  PROVE  /\ wheel = "pass" /\ wheel' = "pass" /\ Over' = Over /\ Over = ticks - 1
         /\ ticks \in Tick /\ ticks \in Nat /\ ticks > 0
         /\ todo' \subseteq Callback /\ callback \in todo /\ todo' = todo \ {callback}
         /\ UNCHANGED <<now, wheel, due, ticks, slotOf>> /\ DueInv'
<1>1. callback \in todo /\ wheel = "pass" /\ UNCHANGED <<now, wheel, due, ticks, slotOf>>
      /\ todo' \subseteq Callback /\ todo' = todo \ {callback}
  BY DEF Run, ClockInv, TypeOK
<1>2. DueInv'
  BY <1>1 DEF ClockInv, DueInv, Begin, Drift
<1>3. ticks \in Tick
  BY <1>1, PassTime
<1> QED
  BY <1>1, <1>2, <1>3 DEF Over, Tick

\* The pass initialises the slot it is in.
LEMMA StepInitSlot == ASSUME ClockInv, InitSlot PROVE ClockInv'
<1> USE DEF ClockInv
<1> DEFINE k == ticks
           s == GetSlot(now)
<1>1. /\ wheel = "pass" /\ wheel' = "pass" /\ Over' = Over /\ Over = k - 1
      /\ k \in Tick /\ k \in Nat /\ k > 0
      /\ todo' \subseteq Callback /\ "init" \in todo /\ todo' = todo \ {"init"}
      /\ UNCHANGED <<now, wheel, due, ticks, slotOf>> /\ DueInv'
  BY RunTypes DEF InitSlot, Callback
<1>2. /\ initSlot' = [initSlot EXCEPT ![k] = s]
      /\ UNCHANGED <<born, pc, saved>>
  BY DEF InitSlot
<1>3. s \in Nat /\ s > k /\ (k \in Timely => s = k + 1)
  BY <1>1, PassTime
<1>4. now \in Nat /\ due \in Nat /\ now >= due
  BY <1>1 DEF TypeOK, DueInv
<1>5. initSlot[k] = NoSlot
  BY <1>1 DEF PassInv
<1> HIDE DEF s
<1>6. initSlot'[k] = s /\ \A t \in Tick \ {k} : initSlot'[t] = initSlot[t]
  BY <1>1, <1>2 DEF TypeOK
<1>7. s # NoSlot
  BY <1>3 DEF NoSlot
<1> HIDE DEF k
<1>8. TypeOK'
  <2>1. initSlot' \in [Tick -> Nat \cup {NoSlot}]
    BY <1>2, <1>3 DEF TypeOK
  <2> QED
    BY <1>1, <1>2, <2>1 DEF TypeOK, GetSlot
<1>9. PassInv'
  <2>1. \A t \in Tick : t <= Over => t # k /\ initSlot'[t] # NoSlot
    BY <1>1, <1>6 DEF PassInv, Tick
  <2>2. \A t \in Tick : t > k => t # k /\ initSlot'[t] = NoSlot /\ pc'[t] = "none"
    BY <1>1, <1>2, <1>6 DEF PassInv, Tick, k
  <2>3. \A t \in Tick : initSlot'[t] # NoSlot => initSlot'[t] > t
    BY <1>3, <1>6 DEF PassInv, Initialising
  <2>4. \A t \in Timely : initSlot'[t] \in {NoSlot, t + 1}
    BY <1>3, <1>6 DEF PassInv, Timely
  <2>5. "init" \notin todo' /\ initSlot'[k] # NoSlot
    BY <1>1, <1>6, <1>7
  <2> QED
    BY <1>1, <2>1, <2>2, <2>3, <2>4, <2>5 DEF PassInv, Initialising, Timely, Drift, k
<1>10. LastInv'
  <2>1. Over > 0 => Over # k /\ Over \in Tick
    BY <1>1, ClockAssumption DEF Tick
  <2>2. Over > 0 => initSlot'[Over] = initSlot[Over]
    BY <1>6, <2>1
  <2>3. now \in due..now
    BY <1>4
  <2> QED
    BY <1>1, <1>6, <2>2, <2>3 DEF LastInv, InitBetween, GetSlot, k, s
<1>11. ThreadInv'
  BY <1>1, <1>2, <1>6, <1>7 DEF ThreadInv, Begin, Drift, ThreadTimely
<1>12. SavedInv'
  BY <1>1, <1>2 DEF SavedInv, Timely, Drift, k
<1>13. BornInv'
  BY <1>1, <1>2 DEF BornInv, GetSlot
<1> QED
  BY <1>1, <1>8, <1>9, <1>10, <1>11, <1>12, <1>13

\* The pass starts its thread.
LEMMA StepSpawnThread == ASSUME ClockInv, SpawnThread PROVE ClockInv'
<1> USE DEF ClockInv
<1> DEFINE k == ticks
<1>0. "spawn" \in todo
  BY RunTypes DEF SpawnThread, Callback
<1>1. /\ wheel = "pass" /\ wheel' = "pass" /\ Over' = Over /\ Over = k - 1
      /\ k \in Tick /\ k \in Nat /\ k > 0
      /\ todo' \subseteq Callback /\ todo' = todo \ {"spawn"}
      /\ UNCHANGED <<now, wheel, due, ticks, slotOf>> /\ DueInv'
  BY RunTypes DEF SpawnThread, Callback
<1>2. /\ born' = [born EXCEPT ![k] = now] /\ pc' = [pc EXCEPT ![k] = "born"]
      /\ UNCHANGED <<initSlot, saved>>
  BY DEF SpawnThread
<1>3. /\ now \in Nat /\ MaxDelay \in Nat
      /\ now \in (Begin(k + 1) + 1)..(Begin(k + 1) + Drift(k))
  BY <1>1, PassTime, ClockAssumption DEF TypeOK
<1>4. /\ born'[k] = now /\ pc'[k] = "born"
      /\ \A t \in Tick \ {k} : born'[t] = born[t] /\ pc'[t] = pc[t]
  BY <1>1, <1>2 DEF TypeOK
<1> HIDE DEF k
<1>5. "init" \in todo' <=> "init" \in todo
  BY <1>1
<1>6. TypeOK'
  <2>1. now \in 0..now /\ born \in [Tick -> 0..now]
    BY <1>3 DEF TypeOK
  <2>2. born' \in [Tick -> 0..now]
    BY <1>2, <2>1
  <2>3. pc' \in [Tick -> {"none", "born", "running"}]
    BY <1>2 DEF TypeOK
  <2> QED
    BY <1>1, <1>2, <2>2, <2>3 DEF TypeOK, GetSlot
<1>7. PassInv'
  <2>1. \A t \in Tick : t > k => t # k /\ pc'[t] = "none"
    BY <1>1, <1>4 DEF PassInv, Tick, k
  <2> QED
    BY <1>1, <1>2, <1>5, <2>1 DEF PassInv, Initialising, Timely, Drift, k
<1>8. LastInv'
  BY <1>1, <1>2, <1>5 DEF LastInv, InitBetween, GetSlot
<1>9. ThreadInv'
  <2> SUFFICES ASSUME NEW t \in Tick
               PROVE  /\ pc'[t] # "none"
                           => born'[t] \in (Begin(t + 1) + 1)..(Begin(t + 1) + Drift(t))
                      /\ pc'[t] = "born" => now <= born'[t] + MaxDelay
                      /\ t \in ThreadTimely => slotOf[t] \in {NoSlot, t + 1}
                      /\ pc'[t] = "running" => slotOf[t] # NoSlot
    BY <1>1, <1>2 DEF ThreadInv, Begin, Drift, ThreadTimely
  <2>1. CASE t = k
    BY <1>3, <1>4, <2>1 DEF ThreadInv
  <2>2. CASE t # k
    BY <1>4, <2>2 DEF ThreadInv
  <2> QED
    BY <2>1, <2>2
<1>10. SavedInv'
  BY <1>1, <1>2 DEF SavedInv, Timely, Drift, k
<1>11. BornInv'
  <2>1. /\ now >= due /\ due \in Nat /\ SlotTime \in Nat /\ "spawn" \notin todo'
        /\ pc[k] = "none" /\ slotOf[k] = NoSlot
    BY <1>1, <1>0, ClockAssumption DEF TypeOK, DueInv, BornInv, k
  <2>2. \A t \in Tick : t > k => pc'[t] = "none"
    BY <1>1, <1>4 DEF PassInv, Tick, k
  <2>3. ASSUME NEW t \in Tick, t # k, pc'[t] # "none"
        PROVE  born[t] + SlotTime <= due
    BY <1>4, <2>3 DEF BornInv, k
  <2>4. ASSUME NEW t \in Tick, t # k, pc'[t] # "none"
        PROVE  born'[t] + SlotTime <= born'[k]
    <3>1. born[t] \in Nat /\ born'[t] = born[t]
      BY <1>4, <2>4 DEF TypeOK
    <3> QED
      BY <1>3, <1>4, <2>1, <2>3, <2>4, <3>1
  <2>5. ASSUME NEW t \in Tick, NEW u \in Tick, t < u, pc'[t] # "none", pc'[u] # "none"
        PROVE  born'[t] + SlotTime <= born'[u]
    <3>1. CASE u = k
      <4>1. t # k
        BY <2>5, <3>1 DEF Tick
      <4> QED
        BY <2>4, <2>5, <3>1, <4>1
    <3>2. CASE u # k
      <4>1. t # k
        BY <1>1, <2>2, <2>5, <3>2 DEF Tick
      <4> QED
        BY <1>4, <2>5, <3>2, <4>1 DEF BornInv
    <3> QED
      BY <3>1, <3>2
  <2>6. ASSUME NEW t \in Tick, slotOf[t] # NoSlot
        PROVE  pc'[t] # "none" /\ GetSlot(born'[t]) <= slotOf[t]
    BY <1>4, <2>1, <2>6 DEF BornInv
  <2> QED
    BY <1>1, <2>1, <2>3, <2>5, <2>6, <1>4 DEF BornInv, GetSlot, k
<1> QED
  BY <1>1, <1>6, <1>7, <1>8, <1>9, <1>10, <1>11

\* The pass saves the database when the number of its slot says so.
LEMMA StepSaveDb == ASSUME ClockInv, SaveDb PROVE ClockInv'
<1> USE DEF ClockInv
<1> DEFINE k == ticks
           s == GetSlot(now)
<1>1. /\ wheel = "pass" /\ wheel' = "pass" /\ Over' = Over /\ Over = k - 1
      /\ k \in Tick /\ k \in Nat /\ k > 0
      /\ todo' \subseteq Callback /\ todo' = todo \ {"save"}
      /\ UNCHANGED <<now, wheel, due, ticks, slotOf>> /\ DueInv'
  BY RunTypes DEF SaveDb, SaveIn, Callback
<1>2. /\ saved' = (IF s % Minute = 0 THEN saved \cup {s} ELSE saved)
      /\ UNCHANGED <<initSlot, born, pc>>
  BY DEF SaveDb, SaveIn
<1>3. s \in Nat /\ (k \in Timely => s = k + 1)
  BY <1>1, PassTime
<1>4. TypeOK'
  <2>1. saved \subseteq 0..s /\ s \in 0..s
    BY <1>3 DEF TypeOK
  <2>2. saved' \subseteq 0..s
    <3> HIDE DEF s
    <3> QED
      BY <1>2, <2>1
  <2> QED
    BY <1>1, <1>2, <2>2 DEF TypeOK, GetSlot
<1> HIDE DEF k, s
<1>5. "init" \in todo' <=> "init" \in todo
  BY <1>1
<1>6. PassInv'
  BY <1>1, <1>2, <1>5, PassKept
<1>7. LastInv'
  BY <1>1, <1>2, <1>5 DEF LastInv, InitBetween, GetSlot
<1>8. ThreadInv' /\ BornInv'
  BY <1>1, <1>2 DEF ThreadInv, BornInv, ThreadTimely, Begin, Drift, GetSlot
<1>9. SavedInv'
  <2> SUFFICES ASSUME NEW t \in Timely, t <= Over \/ t = k, (t + 1) % Minute = 0
               PROVE  t + 1 \in saved'
    BY <1>1 DEF SavedInv, Timely, Drift, k
  <2>1. CASE t = k
    BY <1>2, <1>3, <2>1
  <2>2. CASE t <= Over
    BY <1>2, <2>2 DEF SavedInv
  <2> QED
    BY <2>1, <2>2
<1> QED
  BY <1>1, <1>4, <1>6, <1>7, <1>8, <1>9


-----------------------------------------------------------------------------
(* The threads.                                                                *)

\* Time has begun with slot 0.
LEMMA SlotNatural == ASSUME TypeOK PROVE GetSlot(now) \in Nat /\ GetSlot(now) # NoSlot
<1>1. now \in Nat /\ 0 <= now /\ SlotTime \in Nat /\ SlotTime > 0
  BY ClockAssumption DEF TypeOK
<1>2. GetSlot(0) = 0 /\ GetSlot(now) \in Int /\ GetSlot(0) <= GetSlot(now)
  <2>1. Begin(0) = 0
    BY <1>1 DEF Begin
  <2> QED
    BY <1>1, <2>1, SlotIs, SlotOfTime, SlotsGrow
<1> QED
  BY <1>2 DEF NoSlot

\* What a thread changes is its own.
LEMMA ThreadKept ==
  ASSUME ClockInv, NEW t \in Tick, pc[t] # "none", pc'[t] # "none",
         \A u \in Tick \ {t} : pc'[u] = pc[u],
         UNCHANGED <<now, wheel, due, ticks, todo, initSlot, born, saved>>
  PROVE  DueInv' /\ PassInv' /\ LastInv' /\ SavedInv'
<1> USE DEF ClockInv
<1>1. DueInv'
  BY DEF DueInv, Begin, Drift
<1>2. PassInv'
  BY DEF PassInv, Over, Initialising, Timely, Drift
<1>3. LastInv'
  BY DEF LastInv, Over, InitBetween, GetSlot
<1>4. SavedInv'
  BY DEF SavedInv, Over, Timely, Drift
<1> QED
  BY <1>1, <1>2, <1>3, <1>4

\* A thread that starts in time takes the slot of its pass.
LEMMA StepBeginThread == ASSUME ClockInv, NEW t \in Tick, BeginThread(t) PROVE ClockInv'
<1> USE DEF ClockInv
<1> DEFINE s == GetSlot(now)
<1>1. /\ pc[t] = "born" /\ pc' = [pc EXCEPT ![t] = "running"]
      /\ slotOf' = [slotOf EXCEPT ![t] = s]
      /\ UNCHANGED <<now, wheel, due, ticks, todo, initSlot, born, saved>>
  BY DEF BeginThread
<1>2. /\ pc'[t] = "running" /\ slotOf'[t] = s
      /\ \A u \in Tick \ {t} : pc'[u] = pc[u] /\ slotOf'[u] = slotOf[u]
  BY <1>1 DEF TypeOK
<1>3. s \in Nat /\ s # NoSlot
  BY SlotNatural
<1>4. ASSUME t \in ThreadTimely PROVE s = t + 1
  <2>1. /\ born[t] \in Nat /\ born[t] <= now /\ now \in Nat /\ now <= born[t] + MaxDelay
        /\ MaxDelay \in Nat /\ SlotTime \in Nat /\ t \in Nat /\ t + 1 \in Int
    BY <1>1, ClockAssumption DEF TypeOK, ThreadInv, Tick
  <2>2. /\ Begin(t + 1) \in Int /\ Drift(t) \in Nat
        /\ born[t] \in (Begin(t + 1) + 1)..(Begin(t + 1) + Drift(t))
    BY <1>1, <2>1, NextBegin, Drifts DEF ThreadInv
  <2>3. Drift(t) + MaxDelay < SlotTime
    BY <1>4 DEF ThreadTimely
  <2>4. Begin(t + 1) <= now /\ now < Begin(t + 1) + SlotTime
    BY <2>1, <2>2, <2>3
  <2> QED
    BY <2>1, <2>4, SlotIs
<1> HIDE DEF s
<1>5. TypeOK'
  <2>1. slotOf' \in [Tick -> Nat \cup {NoSlot}]
    BY <1>1, <1>3 DEF TypeOK
  <2>2. pc' \in [Tick -> {"none", "born", "running"}]
    BY <1>1 DEF TypeOK
  <2> QED
    BY <1>1, <2>1, <2>2 DEF TypeOK, GetSlot
<1>6. ThreadInv'
  <2> SUFFICES ASSUME NEW u \in Tick
               PROVE  /\ pc'[u] # "none"
                           => born[u] \in (Begin(u + 1) + 1)..(Begin(u + 1) + Drift(u))
                      /\ pc'[u] = "born" => now <= born[u] + MaxDelay
                      /\ u \in ThreadTimely => slotOf'[u] \in {NoSlot, u + 1}
                      /\ pc'[u] = "running" => slotOf'[u] # NoSlot
    BY <1>1 DEF ThreadInv, Begin, Drift, ThreadTimely
  <2>1. CASE u = t
    BY <1>1, <1>2, <1>3, <1>4, <2>1 DEF ThreadInv
  <2>2. CASE u # t
    BY <1>2, <2>2 DEF ThreadInv
  <2> QED
    BY <2>1, <2>2
<1>7. BornInv'
  <2>1. pc[t] # "none" /\ \A u \in Tick : pc'[u] # "none" <=> pc[u] # "none"
    BY <1>1, <1>2
  <2>2. GetSlot(born[t]) <= s
    <3>1. born[t] \in Int /\ now \in Int /\ born[t] <= now
      BY DEF TypeOK
    <3> QED
      BY <3>1, SlotsGrow DEF s
  <2>3. ASSUME NEW u \in Tick, slotOf'[u] # NoSlot
        PROVE  GetSlot(born[u]) <= slotOf'[u] /\ pc'[u] # "none"
    BY <1>2, <2>1, <2>2, <2>3 DEF BornInv
  <2>4. wheel = "pass" /\ "spawn" \in todo => pc'[ticks] = "none"
    <3> SUFFICES ASSUME wheel = "pass", "spawn" \in todo PROVE pc'[ticks] = "none"
      OBVIOUS
    <3>1. ticks \in Tick /\ pc[ticks] = "none"
      BY PassTime DEF BornInv
    <3> QED
      BY <2>1, <3>1
  <2> QED
    BY <1>1, <2>1, <2>3, <2>4 DEF BornInv, GetSlot
<1> QED
  BY <1>1, <1>2, <1>5, <1>6, <1>7, ThreadKept

-----------------------------------------------------------------------------
(* The theorems.                                                               *)

\* Every step keeps the invariant.
LEMMA StepClock == ClockInv /\ [Next]_vars => ClockInv'
<1> SUFFICES ASSUME ClockInv, [Next]_vars PROVE ClockInv'
  OBVIOUS
<1>1. CASE UNCHANGED vars
  BY <1>1 DEF vars, ClockInv, TypeOK, DueInv, PassInv, LastInv, ThreadInv, SavedInv, Over, Timely,
              BornInv, ThreadTimely, Initialising, InitBetween, GetSlot, Begin, Drift
<1> QED
  BY <1>1, StepAdvance, StepStartInterval, StepBeginPass, StepInitSlot, StepSpawnThread,
     StepSaveDb, StepEndPass, StepBeginThread DEF Next

\* The inductive invariant.
LEMMA ClockInvariant == Spec => []ClockInv
BY InitClock, StepClock, PTL DEF Spec


\* A thread that cannot be out of its slot belongs to a pass that cannot.
LEMMA ThreadsTimely == ThreadTimely \subseteq Timely
<1> SUFFICES ASSUME NEW t \in ThreadTimely PROVE t \in Timely
  OBVIOUS
<1>1. t \in Tick /\ t \in Nat /\ Drift(t) + MaxDelay < SlotTime
  BY DEF ThreadTimely, Tick
<1>2. Drift(t) \in Nat /\ MaxDelay \in Nat /\ SlotTime \in Nat
  BY <1>1, Drifts, ClockAssumption
<1> QED
  BY <1>1, <1>2 DEF Timely

\* Two passes in a row initialise slots one or two apart, and one when the second has not
\* drifted out of its slot.
LEMMA StepHandled ==
  ASSUME 2 * MaxLate <= SlotTime, ClockInv, EverySlotHandled, [Next]_vars
  PROVE  EverySlotHandled'
<1> USE DEF ClockInv
<1>1. CASE InitSlot
  <2> DEFINE k == ticks
  <2>1. /\ wheel = "pass" /\ Over = k - 1 /\ k \in Tick /\ k \in Nat /\ k > 0
        /\ now' = now /\ "init" \in todo
    BY <1>1, RunTypes DEF InitSlot, Callback
  <2>2. initSlot' = [initSlot EXCEPT ![k] = GetSlot(now)]
    BY <1>1 DEF InitSlot
  <2>3. initSlot'[k] = GetSlot(now) /\ \A t \in Tick \ {k} : initSlot'[t] = initSlot[t]
    BY <2>1, <2>2 DEF TypeOK
  <2>4. \A t \in Tick : initSlot[t] # NoSlot => t < k
    BY <2>1 DEF PassInv, Tick
  <2>5. ASSUME k > 1
        PROVE  initSlot'[k] - initSlot'[k - 1] \in IF k \in Timely THEN {1} ELSE {1, 2}
    <3>1. k - 1 \in Tick /\ k - 1 # k /\ k - 1 > 0 /\ k \in Int /\ k - 1 \in Nat
      BY <2>1, <2>5, ClockAssumption DEF Tick
    <3>2. PICK time \in (due - SlotTime - MaxLate)..(due - SlotTime) :
            initSlot[k - 1] = GetSlot(time)
      BY <2>1, <3>1 DEF LastInv, InitBetween
    <3>3. /\ now \in Nat /\ due \in Nat /\ now >= due /\ now <= due + MaxLate
          /\ SlotTime \in Nat /\ MaxLate \in Nat /\ time \in Int
      BY <2>1, ClockAssumption DEF TypeOK, DueInv
    <3>4. time + SlotTime <= now /\ now <= time + 2 * SlotTime
      BY <2>5, <3>2, <3>3
    <3>5. initSlot'[k] - initSlot'[k - 1] \in {1, 2}
      BY <2>3, <3>1, <3>2, <3>3, <3>4, SlotsApart
    <3>6. ASSUME k \in Timely PROVE initSlot'[k] - initSlot'[k - 1] = 1
      <4>1. Drift(k - 1) \in Nat /\ Drift(k) = Drift(k - 1) + MaxLate /\ Drift(k) < SlotTime
        BY <2>1, <3>6, Drifts DEF Timely
      <4>2. k - 1 \in Timely
        BY <3>1, <3>3, <4>1 DEF Timely
      <4>3. initSlot[k - 1] # NoSlot
        BY <2>1, <3>1 DEF PassInv
      <4>4. initSlot[k - 1] = (k - 1) + 1
        BY <4>2, <4>3 DEF PassInv
      <4>5. GetSlot(now) = k + 1
        BY <2>1, <3>6, PassTime
      <4> QED
        BY <2>3, <3>1, <4>4, <4>5
    <3> QED
      BY <3>5, <3>6
  <2>6. ASSUME NEW t \in Initialising', t > 1
        PROVE  initSlot'[t] - initSlot'[t - 1] \in IF t \in Timely THEN {1} ELSE {1, 2}
    <3>1. CASE t = k
      BY <2>5, <2>6, <3>1
    <3>2. CASE t # k
      <4>1. t \in Tick /\ initSlot'[t] = initSlot[t] /\ t \in Initialising
        BY <2>3, <3>2 DEF Initialising
      <4>2. t < k /\ t \in Nat /\ t - 1 \in Tick /\ t - 1 # k
        BY <2>1, <2>4, <2>6, <4>1, ClockAssumption DEF Tick, Initialising
      <4> QED
        BY <2>3, <2>6, <4>1, <4>2 DEF EverySlotHandled
    <3> QED
      BY <3>1, <3>2
  <2> QED
    BY <2>6 DEF EverySlotHandled, Timely, Drift
<1>2. CASE ~InitSlot
  <2>1. UNCHANGED initSlot
    BY <1>2 DEF Next, Advance, StartInterval, SleepUntil, BeginPass, SpawnThread, SaveDb, SaveIn,
                EndPass, BeginThread, vars
  <2> QED
    BY <2>1 DEF EverySlotHandled, Initialising, Timely, Drift
<1> QED
  BY <1>1, <1>2

\* Every variable stays in its range: time never runs past the end of the wheel's sleep by
\* more than its lateness, and nothing is saved for a slot to come.
THEOREM ClockTypes == Spec => []TypeOK
<1>1. ClockInv => TypeOK
  BY DEF ClockInv
<1> QED
  BY <1>1, ClockInvariant, PTL

\* The thread of a slot handles the slot its pass has initialised, although both ask the
\* clock, for as many slots as the drift of the wheel and the delay of the thread stay within
\* a slot (App.cpp:61-75, Block.cpp:8).
THEOREM ThreadsOwnTheirSlots == Spec => []OwnSlot
<1>1. ClockInv => OwnSlot
  <2> SUFFICES ASSUME ClockInv, NEW t \in Initialising \cap ThreadTimely
               PROVE  slotOf[t] \in {NoSlot, initSlot[t]}
    BY DEF OwnSlot
  <2>1. t \in Timely /\ initSlot[t] # NoSlot
    BY ThreadsTimely DEF Initialising
  <2>2. initSlot[t] = t + 1
    BY <2>1 DEF ClockInv, PassInv
  <2>3. slotOf[t] \in {NoSlot, t + 1}
    BY DEF ClockInv, ThreadInv, ThreadTimely
  <2> QED
    BY <2>2, <2>3
<1> QED
  BY <1>1, ClockInvariant, PTL

\* The node initialises each slot, once, as long as the drift stays within the slot, and after
\* that never leaves out two slots in a row, whenever a period is late by half a slot at most:
\* the first callback of a pass can run that late, and so can the first of the pass after it
\* (Timer.hpp:61-72, TimerWheel.hpp:74-85).
THEOREM SlotsHandled ==
  ASSUME 2 * MaxLate <= SlotTime
  PROVE  Spec => []EverySlotHandled
<1>1. Init => EverySlotHandled
  BY DEF Init, EverySlotHandled, Initialising
<1>2. ClockInv /\ EverySlotHandled /\ [Next]_vars => EverySlotHandled'
  BY StepHandled
<1> QED
  BY <1>1, <1>2, ClockInvariant, PTL DEF Spec

\* The database is saved in each slot whose number says so, however late the callbacks run in
\* their pass (App.cpp:76-82).
THEOREM DatabaseSaved == Spec => []SavedEveryMinute
<1>1. ClockInv => SavedEveryMinute
  <2> SUFFICES ASSUME ClockInv, wheel = "asleep", NEW t \in 1..ticks, t \in Timely,
                      initSlot[t] % Minute = 0
               PROVE  initSlot[t] \in saved
    BY DEF SavedEveryMinute
  <2>1. t \in Tick /\ t <= ticks /\ Over = ticks
    BY DEF ClockInv, TypeOK, Timely, Over
  <2>2. initSlot[t] = t + 1
    BY <2>1 DEF ClockInv, PassInv
  <2> QED
    BY <2>1, <2>2 DEF ClockInv, SavedInv
<1> QED
  BY <1>1, ClockInvariant, PTL

\* No two threads handle one slot, in any pass and however late the wheel is, unless the
\* earlier one has started after its slot: the wheel sleeps a whole slot after it has run the
\* callbacks, so the threads are born a slot apart (Timer.hpp:61-72, Block.cpp:8).
THEOREM ThreadsApart == Spec => []OneThreadPerSlot
<1>1. ClockInv => OneThreadPerSlot
  <2> SUFFICES ASSUME ClockInv, NEW t \in Tick, NEW u \in Tick, t < u, slotOf[t] # NoSlot,
                      slotOf[t] = slotOf[u]
               PROVE  slotOf[t] > GetSlot(born[t])
    BY DEF OneThreadPerSlot
  <2>1. born[t] \in Int /\ born[u] \in Int /\ slotOf[t] \in Int
    BY DEF ClockInv, TypeOK
  <2>2. born[t] + SlotTime <= born[u] /\ GetSlot(born[u]) <= slotOf[t]
    BY DEF ClockInv, BornInv
  <2>3. GetSlot(born[t]) < GetSlot(born[u])
    BY <2>1, <2>2, SlotsLater
  <2>4. GetSlot(born[t]) \in Int /\ GetSlot(born[u]) \in Int
    BY <2>1, SlotOfTime
  <2> QED
    BY <2>1, <2>2, <2>3, <2>4
<1> QED
  BY <1>1, ClockInvariant, PTL
=============================================================================
