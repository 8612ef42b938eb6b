---------------------------- MODULE StartProofs ----------------------------
(***************************************************************************)
(* Proofs about NodeStart, for any number of peers, slots and restarts.    *)
(***************************************************************************)
EXTENDS StartProperties, TLAPS

\* main has a channel to each peer it has a connection to, and the wheel waits for all.
SetUpInv ==
  /\ main = "self" => connections = {}
  /\ remoteChannels = connections \cap Peers
  /\ WheelRuns => Peers \subseteq connections
  /\ live # {} => WheelRuns

\* The place of an operation in Ops.
Rank == [INSPECTION |-> 1, ELECTION |-> 2, BROADCAST |-> 3]

Published(m) == Rank[m.op] <= sent[m.peer][m.slot]

\* A message is published once, and handled once.
QueueInv ==
  /\ \A i \in 1..Len(queue) : Published(queue[i]) /\ queue[i] \notin handled
  /\ \A i, j \in 1..Len(queue) : queue[i] = queue[j] => i = j
  /\ \A m \in handled : Published(m)

\* The peers' messages follow this node's: no election value comes before this node
\* contributes, and no block before it has everybody's value.
OrderInv ==
  /\ \A s \in Slot : s > slot => stage[s] = 0
  /\ \A p \in Peers, s \in Slot :
       /\ told[p][s] <= stage[s]
       /\ sent[p][s] >= 2 => told[p][s] >= 1
       /\ sent[p][s] = 3 => p = Validator /\ told[p][s] = 3
  /\ \A s \in Slot : told[Validator][s] = 3 => \A p \in Peers : sent[p][s] >= 2
  /\ \A s \in Slot : stage[s] = 4 => sent[Validator][s] = 3

\* The block is the last message of its slot.
Block(s) == [op |-> "BROADCAST", peer |-> Validator, slot |-> s]

LastInv ==
  /\ \A i \in 1..Len(queue) : queue[i].op # "BROADCAST" =>
       /\ Block(queue[i].slot) \notin handled
       /\ \A j \in 1..Len(queue) : queue[j] = Block(queue[i].slot) => i < j
  /\ doing # "idle" /\ hand.op # "BROADCAST" => Block(hand.slot) \notin handled
  /\ \A s \in Slot : stage[s] = 4 =>
       /\ \A i \in 1..Len(queue) : queue[i].slot # s
       /\ doing # "idle" /\ hand.slot = s => hand.op = "BROADCAST"

\* A slot this process takes part in has its conditions until it is complete, and the
\* message in hand is one of a slot that has them, is complete or was begun before.
ConditionsInv ==
  /\ \A s \in Slot \ forgotten : stage[s] \in {1, 2, 3} => s \in conditions
  /\ doing # "idle" => \/ hand.slot \in conditions \cup forgotten
                       \/ stage[hand.slot] = 4

StartInv ==
  TypeOK /\ SetUpInv /\ QueueInv /\ OrderInv /\ LastInv /\ ConditionsInv /\ EndExplained

-----------------------------------------------------------------------------
\* The operations a peer publishes in a slot.
LEMMA OpsRange == Range(Ops) = {"INSPECTION", "ELECTION", "BROADCAST"}
BY DEF Range, Ops

\* The fields of a message.
LEMMA MessageFields ==
  \A m \in Message : /\ m.op \in {"INSPECTION", "ELECTION", "BROADCAST"}
                     /\ m.peer \in Peers /\ m.slot \in Slot
                     /\ m = [op |-> m.op, peer |-> m.peer, slot |-> m.slot]
BY OpsRange DEF Message

\* The invariant holds when the node is first started.
LEMMA InitStart == Init => StartInv
<1> SUFFICES ASSUME Init PROVE StartInv
  OBVIOUS
<1> USE DEF Init
<1>1. TypeOK
  <2>1. slot \in 0..Slots /\ kills \in 0..MaxKills
    BY StartAssumption DEF NoSlot
  <2>2. /\ stage \in [Slot -> 0..4] /\ sent \in [Peers -> [Slot -> 0..3]]
        /\ told \in [Peers -> [Slot -> 0..3]]
    OBVIOUS
  <2>3. queue \in Seq(Message)
    OBVIOUS
  <2>4. passed \in BOOLEAN
    BY Zenon
  <2> QED
    BY <2>1, <2>2, <2>3, <2>4 DEF TypeOK
<1>2. SetUpInv
  BY DEF SetUpInv, WheelRuns
<1>3. QueueInv
  BY DEF QueueInv
<1>4. OrderInv
  BY StartAssumption DEF OrderInv, Slot
<1>5. LastInv /\ ConditionsInv /\ EndExplained
  BY DEF LastInv, ConditionsInv, EndExplained
<1> QED
  BY <1>1, <1>2, <1>3, <1>4, <1>5 DEF StartInv

\* A step of main: it sets up the stores, starts the wheel and runs the loop.
LEMMA StepMain == ASSUME StartInv, fault = "none", Main PROVE StartInv'
<1> USE DEF StartInv, storageVars, slotVars, loopVars, peerVars, history
<1>1. UNCHANGED <<malformed, dead, handled, conditions, slot, passed, live, stage, told, sent, queue,
                  hand, doing, forgotten, kills>>
  BY DEF Main, SetUpLocal, SetUpRemote, StartWheel, RunLoop
<1>2. QueueInv' /\ OrderInv' /\ LastInv' /\ ConditionsInv'
  BY <1>1 DEF QueueInv, Published, OrderInv, LastInv, ConditionsInv
<1>3. fault' \in {"none", "outOfRange"}
  BY DEF Main, SetUpLocal, SetUpRemote, StartWheel, RunLoop, Connect
<1>4. TypeOK'
  <2>1. main' \in {"self", "remotes", "wheel", "loop"}
    BY DEF TypeOK, Main, SetUpLocal, SetUpRemote, StartWheel, RunLoop
  <2>2. connections' \subseteq (Peers \cup {Self}) \ malformed /\ connections \subseteq connections'
    BY DEF TypeOK, Main, SetUpLocal, SetUpRemote, StartWheel, RunLoop, Connect
  <2>3. remoteChannels' \subseteq Peers
    BY DEF TypeOK, Main, SetUpLocal, SetUpRemote, StartWheel, RunLoop
  <2> QED
    BY <1>1, <1>3, <2>1, <2>2, <2>3 DEF TypeOK
<1>5. SetUpInv'
  <2>1. CASE SetUpLocal
    BY <1>1, <2>1, StartAssumption DEF SetUpLocal, Connect, SetUpInv, WheelRuns
  <2>2. CASE \E p \in Peers : SetUpRemote(p)
    BY <1>1, <2>2 DEF SetUpRemote, Connect, SetUpInv, WheelRuns
  <2>3. CASE StartWheel \/ RunLoop
    BY <1>1, <2>3 DEF StartWheel, RunLoop, SetUpInv, WheelRuns
  <2> QED
    BY <2>1, <2>2, <2>3 DEF Main
<1>6. EndExplained'
  BY <1>3 DEF EndExplained, Main, SetUpLocal, SetUpRemote, StartWheel, RunLoop, Connect
<1> QED
  BY <1>2, <1>4, <1>5, <1>6

\* A connection fails.
LEMMA StepLose ==
  ASSUME StartInv, NEW node \in Peers \cup {Self}, LoseConnection(node) PROVE StartInv'
<1> USE DEF StartInv, LoseConnection, setUpVars, storageVars, slotVars, loopVars, peerVars, history
<1>1. TypeOK'
  BY DEF TypeOK
<1>2. SetUpInv' /\ QueueInv' /\ OrderInv' /\ LastInv'
  BY DEF SetUpInv, WheelRuns, QueueInv, Published, OrderInv, LastInv
<1>3. ConditionsInv' /\ EndExplained'
  BY DEF ConditionsInv, EndExplained
<1> QED
  BY <1>1, <1>2, <1>3

\* The queue's handler takes the next message.
LEMMA StepTake == ASSUME StartInv, fault = "none", Take PROVE StartInv'
<1> DEFINE m == Head(queue)
<1> USE DEF StartInv
<1>1. main = "loop" /\ queue # <<>> /\ queue \in Seq(Message) /\ doing = "idle"
  BY DEF Take, TakeWith, TypeOK
<1>2. /\ m \in Message /\ m = queue[1] /\ 1 \in 1..Len(queue)
      /\ Tail(queue) \in Seq(Message) /\ Len(Tail(queue)) = Len(queue) - 1
      /\ \A i \in 1..(Len(queue) - 1) : Tail(queue)[i] = queue[i + 1]
  BY <1>1
<1>3. /\ handled' = handled \cup {m} /\ hand' = m /\ doing' = "ask"
      /\ conditions' = conditions \cup Initialised(m)
      /\ queue' = Tail(queue)
      /\ UNCHANGED <<setUpVars, dead, slotVars, sent, fault, forgotten, kills>>
  BY DEF Take, TakeWith, history
<1> HIDE DEF m
<1>4. /\ m.op \in {"INSPECTION", "ELECTION", "BROADCAST"} /\ m.peer \in Peers /\ m.slot \in Slot
      /\ m = [op |-> m.op, peer |-> m.peer, slot |-> m.slot]
  BY <1>2, MessageFields
<1>5. Initialised(m) \subseteq Slot
  BY <1>4 DEF Initialised
<1>6. \A i \in 1..Len(queue') : i + 1 \in 1..Len(queue) /\ queue'[i] = queue[i + 1] /\ queue'[i] # m
  BY <1>1, <1>2, <1>3 DEF QueueInv
<1>7. TypeOK'
  BY <1>2, <1>3, <1>4, <1>5 DEF TypeOK, setUpVars, slotVars
<1>8. SetUpInv' /\ EndExplained'
  BY <1>3 DEF SetUpInv, WheelRuns, EndExplained, setUpVars, slotVars
<1>9. Published(m)
  BY <1>2 DEF QueueInv
<1>10. QueueInv'
  <2>1. (\A i \in 1..Len(queue) : Published(queue[i]) /\ queue[i] \notin handled)'
    BY <1>3, <1>6 DEF QueueInv, Published
  <2>2. \A i, j \in 1..Len(queue') : queue'[i] = queue'[j] => i = j
    <3> SUFFICES ASSUME NEW i \in 1..Len(queue'), NEW j \in 1..Len(queue'), queue'[i] = queue'[j]
                 PROVE  i = j
      OBVIOUS
    <3>1. i + 1 = j + 1
      BY <1>6 DEF QueueInv
    <3> QED
      BY <3>1
  <2>3. \A n \in handled' : Published(n)'
    BY <1>3, <1>9 DEF QueueInv, Published
  <2> QED
    BY <2>1, <2>2, <2>3 DEF QueueInv
<1>11. OrderInv'
  BY <1>3 DEF OrderInv, slotVars
<1>12. LastInv'
  <2>1. ASSUME NEW i \in 1..Len(queue'), queue'[i].op # "BROADCAST"
        PROVE  /\ Block(queue'[i].slot) \notin handled'
               /\ \A j \in 1..Len(queue') : queue'[j] = Block(queue'[i].slot) => i < j
    <3>1. i + 1 \in 1..Len(queue) /\ queue'[i] = queue[i + 1]
      BY <1>6
    <3>2. m # Block(queue'[i].slot)
      BY <1>2, <2>1, <3>1 DEF LastInv
    <3>3. \A j \in 1..Len(queue') : queue'[j] = Block(queue'[i].slot) => i + 1 < j + 1
      BY <1>6, <2>1, <3>1 DEF LastInv
    <3>4. Block(queue'[i].slot) \notin handled
      BY <2>1, <3>1 DEF LastInv
    <3> QED
      BY <1>3, <3>2, <3>3, <3>4
  <2>2. m.op # "BROADCAST" => Block(m.slot) \notin handled'
    BY <1>2, <1>3 DEF LastInv, Block
  <2>3. \A s \in Slot : stage[s] = 4 => m.slot # s /\ \A i \in 1..Len(queue') : queue'[i].slot # s
    BY <1>2, <1>6 DEF LastInv
  <2> QED
    BY <1>3, <2>1, <2>2, <2>3 DEF LastInv, slotVars
<1>13. ConditionsInv'
  <2>1. m.slot \in conditions' \cup forgotten
    <3>1. CASE m.op = "INSPECTION"
      BY <1>3, <3>1 DEF Initialised
    <3>2. CASE m.op # "INSPECTION"
      <4>1. sent[m.peer][m.slot] >= 2
        <5>1. Rank[m.op] \in {2, 3} /\ sent[m.peer][m.slot] \in 0..3
          BY <1>4, <3>2 DEF Rank, TypeOK
        <5> QED
          BY <1>9, <5>1 DEF Published
      <4>2. stage[m.slot] \in {1, 2, 3, 4}
        BY <1>4, <4>1 DEF OrderInv, TypeOK
      <4>3. stage[m.slot] # 4
        BY <1>2, <1>4 DEF LastInv
      <4> QED
        BY <1>3, <1>4, <4>2, <4>3 DEF ConditionsInv
    <3> QED
      BY <3>1, <3>2
  <2> QED
    BY <1>3, <2>1 DEF ConditionsInv, slotVars
<1> QED
  BY <1>7, <1>8, <1>10, <1>11, <1>12, <1>13

\* The handler asks, looks the conditions up and notifies.
LEMMA StepNotify == ASSUME StartInv, fault = "none", Ask \/ Notify PROVE StartInv'
<1> USE DEF StartInv
<1>1. UNCHANGED <<setUpVars, dead, storageVars, slotVars, peerVars, history>>
  BY DEF Ask, Notify
<1>2. /\ doing \in {"ask", "synchronize", "wake"} /\ hand \in Message
      /\ \/ doing' \in {"synchronize", "wake"} /\ hand' = hand
         \/ doing' = "idle" /\ hand' = NoMessage
         \/ doing' = doing /\ hand' = hand
  BY DEF Ask, Notify, TypeOK, loopVars
<1>3. \/ fault' = "none"
      \/ fault' = "null" /\ hand' = hand /\ hand.slot \notin conditions
  BY DEF Ask, Notify, loopVars
<1> USE <1>1 DEF setUpVars, storageVars, slotVars, peerVars, history
<1>4. TypeOK'
  BY <1>2, <1>3 DEF TypeOK
<1>5. SetUpInv' /\ QueueInv' /\ OrderInv'
  BY DEF SetUpInv, WheelRuns, QueueInv, Published, OrderInv
<1>6. LastInv' /\ ConditionsInv'
  BY <1>2 DEF LastInv, ConditionsInv
<1>7. EndExplained'
  <2>1. CASE fault' = "none"
    BY <2>1 DEF EndExplained
  <2>2. CASE fault' = "null" /\ hand' = hand /\ hand.slot \notin conditions
    <3>1. hand.slot \in forgotten \/ stage[hand.slot] = 4
      BY <1>2, <2>2 DEF ConditionsInv
    <3>2. stage[hand.slot] = 4 => hand.op = "BROADCAST"
      BY <1>2, MessageFields DEF LastInv
    <3> QED
      BY <2>2, <3>1, <3>2 DEF EndExplained
  <2> QED
    BY <1>3, <2>1, <2>2
<1> QED
  BY <1>4, <1>5, <1>6, <1>7

\* What this node tells its peers stays in its range, and only the given slot changes.
LEMMA Told ==
  ASSUME told \in [Peers -> [Slot -> 0..3]], NEW s \in Slot, NEW k \in 1..3, NEW to, Tell(s, k, to)
  PROVE  /\ told' \in [Peers -> [Slot -> 0..3]]
         /\ \A p \in Peers, t \in Slot : told'[p][t] = told[p][t] \/ (t = s /\ p \in to /\ told'[p][t] = k)
BY DEF Tell

\* The thread of a slot goes through its stages.
LEMMA StepSlotThread ==
  ASSUME StartInv, fault = "none", NEW s \in Slot, SlotThread(s) PROVE StartInv'
<1> USE DEF StartInv, setUpVars, storageVars, slotVars, loopVars, peerVars, history
<1>1. CASE Elect(s)
  <2> USE <1>1 DEF Elect
  <2>1. stage' = [stage EXCEPT ![s] = 2] /\ stage[s] = 1 /\ stage \in [Slot -> 0..4]
    BY DEF TypeOK
  <2>2. /\ told' \in [Peers -> [Slot -> 0..3]]
        /\ \A p \in Peers, t \in Slot : told'[p][t] = told[p][t] \/ (t = s /\ told'[p][t] = 2)
    BY Told DEF TypeOK
  <2>3. TypeOK'
    BY <2>1, <2>2 DEF TypeOK
  <2>4. SetUpInv' /\ QueueInv' /\ EndExplained'
    BY DEF SetUpInv, WheelRuns, QueueInv, Published, EndExplained
  <2>5. \A p \in Peers, t \in Slot : told[p][t] \in 0..3 /\ told'[p][t] \in 0..3
    BY <2>2 DEF TypeOK
  <2>6. \A p \in Peers : told[p][s] <= 1
    BY <2>1 DEF OrderInv
  <2>7. OrderInv'
    <3>1. \A t \in Slot : t # s => stage'[t] = stage[t] /\ \A p \in Peers : told'[p][t] = told[p][t]
      BY <2>1, <2>2
    <3>2. stage'[s] = 2 /\ \A p \in Peers : told'[p][s] <= 2 /\ told'[p][s] >= told[p][s]
      BY <2>1, <2>2, <2>5, <2>6
    <3> QED
      BY <2>1, <2>5, <2>6, <3>1, <3>2, StartAssumption DEF OrderInv
  <2>8. LastInv' /\ ConditionsInv'
    BY <2>1 DEF LastInv, ConditionsInv
  <2> QED
    BY <2>3, <2>4, <2>7, <2>8
<1>2. CASE Relay(s)
  <2> USE <1>2 DEF Relay
  <2>1. Validator \in remoteChannels
    BY StartAssumption DEF SetUpInv
  <2>2. /\ stage' = [stage EXCEPT ![s] = 3] /\ stage[s] = 2 /\ stage \in [Slot -> 0..4]
        /\ UNCHANGED fault
    BY <2>1 DEF TypeOK
  <2>3. /\ told' \in [Peers -> [Slot -> 0..3]]
        /\ \A p \in Peers, t \in Slot : \/ told'[p][t] = told[p][t]
                                        \/ t = s /\ p = Validator /\ told'[p][t] = 3
    <3>1. Tell(s, 3, {Validator})
      BY <2>1
    <3> QED
      BY <3>1, Told DEF TypeOK
  <2>4. TypeOK'
    BY <2>2, <2>3 DEF TypeOK
  <2>5. SetUpInv' /\ QueueInv' /\ EndExplained'
    BY <2>2 DEF SetUpInv, WheelRuns, QueueInv, Published, EndExplained
  <2>6. \A p \in Peers : sent[p][s] >= 2
    BY DEF Has, QueueInv, Published, Rank
  <2>7. \A p \in Peers, t \in Slot : told[p][t] \in 0..3 /\ told'[p][t] \in 0..3
    BY <2>3 DEF TypeOK
  <2>8. OrderInv'
    <3>1. \A t \in Slot : t # s => stage'[t] = stage[t] /\ \A p \in Peers : told'[p][t] = told[p][t]
      BY <2>2, <2>3
    <3>2. /\ stage'[s] = 3
          /\ \A p \in Peers : told'[p][s] <= 3 /\ told'[p][s] >= told[p][s]
      BY <2>2, <2>3, <2>7
    <3> QED
      BY <2>2, <2>6, <2>7, <3>1, <3>2, StartAssumption DEF OrderInv
  <2>9. LastInv' /\ ConditionsInv'
    BY <2>2 DEF LastInv, ConditionsInv
  <2> QED
    BY <2>4, <2>5, <2>8, <2>9
<1>3. CASE Complete(s)
  <2> USE <1>3 DEF Complete
  <2>1. stage' = [stage EXCEPT ![s] = 4] /\ stage[s] = 3 /\ stage \in [Slot -> 0..4]
    BY DEF TypeOK
  <2>2. TypeOK'
    BY <2>1 DEF TypeOK
  <2>3. SetUpInv' /\ QueueInv' /\ EndExplained'
    BY DEF SetUpInv, WheelRuns, QueueInv, Published, EndExplained
  <2>4. Block(s) \in handled
    BY DEF Has, Block
  <2>5. sent[Validator][s] = 3
    <3>1. sent[Validator][s] \in 0..3 /\ Published(Block(s))
      BY <2>4, StartAssumption DEF QueueInv, TypeOK
    <3> QED
      BY <3>1 DEF Published, Rank, Block
  <2>6. OrderInv'
    BY <2>1, <2>5 DEF OrderInv, TypeOK
  <2>7. \A i \in 1..Len(queue) : queue[i].slot # s
    <3> SUFFICES ASSUME NEW i \in 1..Len(queue), queue[i].slot = s PROVE FALSE
      OBVIOUS
    <3>1. queue[i] \in Message /\ queue[i] \notin handled /\ Published(queue[i])
      BY DEF QueueInv, TypeOK
    <3>2. queue[i].op = "BROADCAST"
      BY <2>4 DEF LastInv
    <3>3. queue[i].peer = Validator
      <4>1. queue[i].peer \in Peers /\ sent[queue[i].peer][s] \in 0..3
        BY <3>1, MessageFields DEF TypeOK
      <4> QED
        BY <3>1, <3>2, <4>1 DEF Published, Rank, OrderInv
    <3> QED
      BY <2>4, <3>1, <3>2, <3>3, MessageFields DEF Block
  <2>8. doing # "idle" /\ hand.slot = s => hand.op = "BROADCAST"
    BY <2>4 DEF LastInv
  <2>9. LastInv'
    BY <2>1, <2>7, <2>8 DEF LastInv
  <2>10. ConditionsInv'
    <3>1. \A t \in Slot \ forgotten : stage'[t] \in {1, 2, 3} => t \in conditions'
      BY <2>1 DEF ConditionsInv
    <3>2. ASSUME doing # "idle"
          PROVE  hand.slot \in conditions' \cup forgotten \/ stage'[hand.slot] = 4
      <4>1. hand.slot \in Slot
        BY <3>2, MessageFields DEF TypeOK
      <4> QED
        BY <2>1, <3>2, <4>1 DEF ConditionsInv
    <3> QED
      BY <3>1, <3>2 DEF ConditionsInv
  <2> QED
    BY <2>2, <2>3, <2>6, <2>9, <2>10
<1> QED
  BY <1>1, <1>2, <1>3 DEF SlotThread

\* Time goes on to the next slot, which the wheel may start a thread for.
LEMMA StepNextSlot == ASSUME StartInv, NextSlot PROVE StartInv'
<1> USE DEF StartInv, NextSlot, setUpVars, loopVars, peerVars, history
<1>1. slot + 1 \in Slot /\ slot \in 0..Slots /\ stage[slot + 1] = 0
  BY StartAssumption DEF Slot, TypeOK, OrderInv
<1>2. \/ UNCHANGED <<passed, live, stage, told, conditions>>
      \/ /\ WheelRuns /\ passed' = TRUE /\ live' = live \cup {slot + 1}
         /\ stage' = [stage EXCEPT ![slot + 1] = 1] /\ conditions' = conditions \cup {slot + 1}
         /\ Tell(slot + 1, 1, Peers)
  OBVIOUS
<1>3. /\ told' \in [Peers -> [Slot -> 0..3]]
      /\ \A p \in Peers, t \in Slot : \/ told'[p][t] = told[p][t]
                                      \/ t = slot + 1 /\ told'[p][t] = 1 /\ stage'[t] = 1
  BY <1>1, <1>2, Told DEF TypeOK
<1>4. TypeOK'
  <2>1. slot' \in 0..Slots /\ 1..slot \subseteq 1..slot' /\ slot + 1 \in 1..slot'
    BY <1>1, StartAssumption
  <2>2. passed' \in BOOLEAN
    BY <1>2, Zenon DEF TypeOK
  <2>3. live' \subseteq 1..slot'
    BY <1>2, <2>1 DEF TypeOK
  <2>4. stage' \in [Slot -> 0..4] /\ conditions' \subseteq Slot
    BY <1>1, <1>2 DEF TypeOK
  <2> QED
    BY <1>3, <2>1, <2>2, <2>3, <2>4 DEF TypeOK
<1>5. \A s \in Slot : stage'[s] = stage[s] \/ (s = slot + 1 /\ stage'[s] = 1 /\ stage[s] = 0)
  BY <1>1, <1>2 DEF TypeOK
<1>6. SetUpInv' /\ QueueInv'
  BY <1>2 DEF SetUpInv, WheelRuns, QueueInv, Published
<1>7. EndExplained'
  <2>1. fault = "null" /\ stage[hand.slot] = 4 => stage'[hand.slot] = 4
    BY <1>1, <1>2 DEF TypeOK
  <2> QED
    BY <2>1 DEF EndExplained
<1>8. OrderInv'
  <2>1. \A s \in Slot : s > slot' => stage'[s] = 0
    <3>1. slot' = slot + 1
      OBVIOUS
    <3>2. \A s \in Slot : s > slot + 1 => s > slot /\ s # slot + 1
      BY <1>1 DEF Slot
    <3> HIDE DEF NextSlot
    <3> QED
      BY <1>5, <3>1, <3>2 DEF OrderInv
  <2>2. \A p \in Peers, s \in Slot : told[p][s] \in 0..3 /\ stage[s] \in 0..4 /\ stage'[s] \in 0..4
    BY <1>4 DEF TypeOK
  <2>3. \A p \in Peers : told[p][slot + 1] = 0
    BY <1>1, <2>2 DEF OrderInv
  <2>4. \A p \in Peers, s \in Slot : told'[p][s] <= stage'[s] /\ told'[p][s] >= told[p][s]
    BY <1>1, <1>3, <1>5, <2>2, <2>3 DEF OrderInv
  <2>5. \A p \in Peers, s \in Slot : told'[p][s] = 3 <=> told[p][s] = 3
    BY <1>1, <1>3, <2>3
  <2>6. \A p \in Peers, s \in Slot : told[p][s] >= 1 => told'[p][s] >= 1
    BY <1>3
  <2>7. \A s \in Slot : stage'[s] = 4 => stage[s] = 4
    BY <1>5
  <2> QED
    BY <2>1, <2>4, <2>5, <2>6, <2>7, StartAssumption DEF OrderInv
<1>9. LastInv'
  <2>1. \A s \in Slot : stage'[s] = 4 => stage[s] = 4
    BY <1>5
  <2> QED
    BY <2>1 DEF LastInv
<1>10. ConditionsInv'
  <2>1. conditions \subseteq conditions'
    BY <1>2
  <2>2. \A s \in Slot \ forgotten : stage'[s] \in {1, 2, 3} => s \in conditions'
    BY <1>2, <1>5, <2>1 DEF ConditionsInv
  <2>3. doing # "idle" => hand.slot \in Slot
    BY MessageFields DEF TypeOK
  <2>4. doing # "idle" /\ stage[hand.slot] = 4 => stage'[hand.slot] = 4
    BY <1>5, <2>3
  <2> QED
    BY <2>1, <2>2, <2>4 DEF ConditionsInv
<1> QED
  BY <1>4, <1>6, <1>7, <1>8, <1>9, <1>10

\* A peer publishes the next of its messages for a slot.
LEMMA StepPeer ==
  ASSUME StartInv, NEW p \in Peers, NEW s \in Slot, PeerPublish(p, s) PROVE StartInv'
<1>0. PICK k \in 0..3 : k = sent[p][s]
  BY DEF StartInv, TypeOK
<1> DEFINE new == [op |-> Ops[k + 1], peer |-> p, slot |-> s]
<1> USE <1>0 DEF StartInv, setUpVars, storageVars, slotVars, loopVars, history
<1>1. k \in {0, 1, 2} /\ queue \in Seq(Message) /\ sent \in [Peers -> [Slot -> 0..3]]
  BY DEF PeerPublish, TypeOK
<1>2. Ops[k + 1] \in {"INSPECTION", "ELECTION", "BROADCAST"} /\ Rank[Ops[k + 1]] = k + 1
  BY <1>1 DEF Ops, Rank
<1>3. new \in Message
  BY <1>2, OpsRange DEF Message
<1>4. /\ queue' = Append(queue, new)
      /\ sent' = [sent EXCEPT ![p][s] = k + 1]
      /\ UNCHANGED <<setUpVars, dead, storageVars, slotVars, loopVars, fault, history>>
      /\ k = 1 => told[p][s] >= 1
      /\ k = 2 => p = Validator /\ told[p][s] = 3
      /\ k = 0 \/ k = 1 \/ k = 2
  BY DEF PeerPublish
<1>5. /\ sent' \in [Peers -> [Slot -> 0..3]]
      /\ sent'[p][s] = k + 1
      /\ \A q \in Peers, t \in Slot : q # p \/ t # s => sent'[q][t] = sent[q][t]
  BY <1>1, <1>4
<1>6. ~Published(new) /\ new.op = Ops[k + 1] /\ new.peer = p /\ new.slot = s
  BY <1>1, <1>2 DEF Published
<1>7. /\ queue' \in Seq(Message) /\ Len(queue') = Len(queue) + 1 /\ queue'[Len(queue) + 1] = new
      /\ \A i \in 1..Len(queue) : queue'[i] = queue[i]
  BY <1>1, <1>3, <1>4
<1>8. \A m \in Message : Published(m) => Published(m)'
  <2> SUFFICES ASSUME NEW m \in Message, Rank[m.op] <= sent[m.peer][m.slot]
               PROVE  Rank[m.op] <= sent'[m.peer][m.slot]
    BY DEF Published
  <2>1. m.peer \in Peers /\ m.slot \in Slot /\ Rank[m.op] \in 1..3
    BY MessageFields DEF Rank
  <2>2. \A q \in Peers, t \in Slot : sent[q][t] \in 0..3 /\ sent'[q][t] \in 0..3
    BY <1>1, <1>5
  <2>3. sent'[m.peer][m.slot] = sent[m.peer][m.slot] \/ sent'[m.peer][m.slot] = sent[m.peer][m.slot] + 1
    <3>1. CASE m.peer = p /\ m.slot = s
      BY <1>5, <3>1
    <3>2. CASE m.peer # p \/ m.slot # s
      BY <1>5, <2>1, <3>2
    <3> QED
      BY <3>1, <3>2
  <2> QED
    BY <2>1, <2>2, <2>3
<1>9. Published(new)'
  BY <1>2, <1>5, <1>6 DEF Published
<1> HIDE DEF new
<1>10. TypeOK'
  BY <1>4, <1>5, <1>7 DEF TypeOK
<1>11. SetUpInv' /\ ConditionsInv' /\ EndExplained'
  BY <1>4 DEF SetUpInv, WheelRuns, ConditionsInv, EndExplained
<1>12. QueueInv'
  <2>1. \A i \in 1..Len(queue) : queue[i] \in Message /\ queue[i] # new
    BY <1>1, <1>6 DEF QueueInv
  <2>2. new \notin handled /\ handled' = handled
    BY <1>4, <1>6 DEF QueueInv
  <2>3. \A i \in 1..Len(queue') : i \in 1..Len(queue) \/ i = Len(queue) + 1
    BY <1>1, <1>7
  <2>4. (\A i \in 1..Len(queue) : Published(queue[i]) /\ queue[i] \notin handled)'
    BY <1>7, <1>8, <1>9, <2>1, <2>2, <2>3 DEF QueueInv
  <2>5. \A i, j \in 1..Len(queue') : queue'[i] = queue'[j] => i = j
    BY <1>7, <2>1, <2>3 DEF QueueInv
  <2>6. \A m \in handled' : Published(m)'
    BY <1>8, <2>2 DEF QueueInv, TypeOK
  <2> QED
    BY <2>4, <2>5, <2>6 DEF QueueInv
<1>13. OrderInv'
  <2>1. \A q \in Peers, t \in Slot : sent[q][t] \in 0..3 /\ sent'[q][t] \in 0..3
    BY <1>1, <1>5
  <2>2. \A q \in Peers, t \in Slot : sent'[q][t] >= sent[q][t]
    BY <1>1, <1>5, <2>1
  <2>3. \A q \in Peers, t \in Slot : sent'[q][t] >= 2 => told'[q][t] >= 1
    BY <1>1, <1>4, <1>5 DEF OrderInv
  <2>4. \A q \in Peers, t \in Slot : sent'[q][t] = 3 => q = Validator /\ told'[q][t] = 3
    BY <1>1, <1>4, <1>5 DEF OrderInv
  <2>5. \A t \in Slot : stage'[t] = 4 => sent'[Validator][t] = 3
    BY <1>4, <2>1, <2>2, StartAssumption DEF OrderInv
  <2>6. \A t \in Slot : told'[Validator][t] = 3 => \A q \in Peers : sent'[q][t] >= 2
    BY <1>4, <2>1, <2>2 DEF OrderInv
  <2> QED
    BY <1>4, <2>3, <2>4, <2>5, <2>6 DEF OrderInv
<1>14. LastInv'
  <2>1. k # 2 => sent[Validator][s] # 3
    BY <1>0, <1>1, StartAssumption DEF OrderInv
  <2>2. \A i \in 1..Len(queue') : i \in 1..Len(queue) \/ i = Len(queue) + 1
    BY <1>1, <1>7
  <2>3. k # 2 => Block(s) \notin handled /\ \A i \in 1..Len(queue) : queue[i] # Block(s)
    <3>1. Published(Block(s)) => sent[Validator][s] >= 3
      BY DEF Published, Block, Rank
    <3>2. sent[Validator][s] \in 0..3
      BY <1>1, StartAssumption
    <3> QED
      BY <2>1, <3>1, <3>2 DEF QueueInv
  <2>4. k # 2 => new.op # "BROADCAST"
    BY <1>2, <1>6 DEF Rank
  <2>5. k = 2 => new.op = "BROADCAST"
    BY <1>2, <1>6 DEF Rank, Ops
  <2>6. ASSUME NEW i \in 1..Len(queue'), queue'[i].op # "BROADCAST"
        PROVE  /\ Block(queue'[i].slot) \notin handled'
               /\ \A j \in 1..Len(queue') : queue'[j] = Block(queue'[i].slot) => i < j
    <3>1. CASE i \in 1..Len(queue)
      BY <1>1, <1>4, <1>7, <2>2, <2>6, <3>1 DEF LastInv
    <3>2. CASE i = Len(queue) + 1
      <4>1. queue'[i] = new /\ k # 2 /\ new.slot = s
        BY <1>6, <1>7, <2>5, <2>6, <3>2
      <4>2. \A j \in 1..Len(queue') : queue'[j] # Block(s)
        BY <1>7, <2>2, <2>3, <2>4, <4>1 DEF Block
      <4> QED
        BY <1>4, <2>3, <4>1, <4>2
    <3> QED
      BY <2>2, <3>1, <3>2
  <2>7. stage[s] # 4
    <3>1. stage[s] = 4 => told[Validator][s] = 3 /\ sent[Validator][s] = 3
      BY StartAssumption DEF OrderInv
    <3>2. stage[s] = 4 => k >= 2
      BY <1>0, <3>1 DEF OrderInv
    <3> QED
      BY <1>1, <1>4, <3>1, <3>2
  <2>8. \A t \in Slot : stage'[t] = 4 => \A i \in 1..Len(queue') : queue'[i].slot # t
    BY <1>4, <1>6, <1>7, <2>2, <2>7 DEF LastInv
  <2> QED
    BY <1>4, <2>6, <2>8 DEF LastInv
<1> QED
  BY <1>10, <1>11, <1>12, <1>13, <1>14

\* The process is started again; the stores are empty, and the queue keeps what the broker
\* has not delivered.
LEMMA StepStart ==
  ASSUME StartInv, Start, kills' \in 0..MaxKills PROVE StartInv'
<1> USE DEF StartInv
<1>1. PICK d \in 0..Len(queue) : StartWith(SubSeq(queue, d + 1, Len(queue)))
  BY DEF Start, TypeOK
<1> DEFINE rest == SubSeq(queue, d + 1, Len(queue))
<1>2. queue \in Seq(Message) /\ Len(queue) \in Nat
  BY DEF TypeOK
<1>3. /\ rest \in Seq(Message) /\ Len(rest) = Len(queue) - d
      /\ \A i \in 1..Len(rest) : i + d \in 1..Len(queue) /\ rest[i] = queue[i + d]
  BY <1>2
<1>4. queue' = rest
  BY <1>1 DEF StartWith
<1> HIDE DEF rest
<1> USE <1>1 DEF StartWith
<1>5. TypeOK'
  <2>1. {m.slot : m \in handled} \subseteq Slot
    BY MessageFields DEF TypeOK
  <2>2. passed' \in BOOLEAN
    BY Zenon
  <2> QED
    BY <1>3, <1>4, <2>1, <2>2 DEF TypeOK
<1>6. SetUpInv' /\ EndExplained'
  BY DEF SetUpInv, WheelRuns, EndExplained
<1>7. QueueInv'
  <2>1. (\A i \in 1..Len(queue) : Published(queue[i]) /\ queue[i] \notin handled)'
    BY <1>3, <1>4 DEF QueueInv, Published
  <2>2. ASSUME NEW i \in 1..Len(rest), NEW j \in 1..Len(rest), rest[i] = rest[j] PROVE i = j
    <3>1. i + d = j + d
      BY <1>3, <2>2 DEF QueueInv
    <3> QED
      BY <3>1
  <2> QED
    BY <1>4, <2>1, <2>2 DEF QueueInv
<1>8. OrderInv'
  BY DEF OrderInv
<1>9. LastInv'
  <2>1. ASSUME NEW i \in 1..Len(rest), rest[i].op # "BROADCAST",
               NEW j \in 1..Len(rest), rest[j] = Block(rest[i].slot)
        PROVE  i < j
    <3>1. i + d < j + d
      BY <1>3, <2>1 DEF LastInv
    <3> QED
      BY <3>1
  <2>2. \A i \in 1..Len(rest) : rest[i].op # "BROADCAST" =>
          \A j \in 1..Len(rest) : rest[j] = Block(rest[i].slot) => i < j
    BY <2>1
  <2>3. \A s \in Slot : stage[s] = 4 => \A i \in 1..Len(rest) : rest[i].slot # s
    BY <1>3 DEF LastInv
  <2>4. doing' = "idle" /\ handled' = {} /\ stage' = stage
    OBVIOUS
  <2> HIDE DEF StartWith
  <2> QED
    BY <1>4, <2>2, <2>3, <2>4 DEF LastInv
<1>10. ConditionsInv'
  BY DEF ConditionsInv, TypeOK
<1> QED
  BY <1>5, <1>6, <1>7, <1>8, <1>9, <1>10

\* Every step keeps the invariant.
LEMMA StepNode == StartInv /\ [Next]_vars => StartInv'
<1> SUFFICES ASSUME StartInv, [Next]_vars PROVE StartInv'
  OBVIOUS
<1>1. CASE fault = "none" /\ Process
  BY <1>1, StepMain, StepTake, StepNotify, StepSlotThread DEF Process, Handle
<1>2. CASE NextSlot
  BY <1>2, StepNextSlot
<1>3. CASE \E node \in Peers \cup {Self} : LoseConnection(node)
  BY <1>3, StepLose
<1>4. CASE \E p \in Peers, s \in Slot : PeerPublish(p, s)
  BY <1>4, StepPeer
<1>5. CASE Kill
  BY <1>5, StepStart, StartAssumption DEF Kill, StartInv, TypeOK
<1>6. CASE Recover
  BY <1>6, StepStart DEF Recover, StartInv, TypeOK
<1>7. CASE UNCHANGED vars
  <2> USE <1>7 DEF vars, setUpVars, storageVars, slotVars, loopVars, peerVars, history, StartInv
  <2>1. TypeOK' /\ SetUpInv' /\ QueueInv' /\ OrderInv'
    BY DEF TypeOK, SetUpInv, WheelRuns, QueueInv, Published, OrderInv
  <2>2. LastInv' /\ ConditionsInv' /\ EndExplained'
    BY DEF LastInv, ConditionsInv, EndExplained
  <2> QED
    BY <2>1, <2>2
<1> QED
  BY <1>1, <1>2, <1>3, <1>4, <1>5, <1>6, <1>7 DEF Next

\* The invariant holds in every reachable state.
LEMMA StartInvariant == Spec => []StartInv
BY InitStart, StepNode, PTL DEF Spec

-----------------------------------------------------------------------------
\* Every variable stays in its range.
THEOREM StartTypes == Spec => []TypeOK
<1>1. StartInv => TypeOK
  BY DEF StartInv
<1> QED
  BY <1>1, StartInvariant, PTL

\* A slot is completed only when every peer has got this node's contribution, whichever
\* connections fail (ConnectionHandler.hpp:15-18, ElectionWaiter.cpp:31).
THEOREM NobodyIsLeftOut == Spec => []NobodyLeftOut
<1>1. StartInv => NobodyLeftOut
  BY StartAssumption DEF StartInv, OrderInv, NobodyLeftOut
<1> QED
  BY <1>1, StartInvariant, PTL

\* A node ends by itself when a store throws during the set-up, or when the handler meets a
\* slot that an earlier process took part in, or that its own thread has just cleared.
THEOREM EndsExplained == Spec => []EndExplained
<1>1. StartInv => EndExplained
  BY DEF StartInv
<1> QED
  BY <1>1, StartInvariant, PTL
=============================================================================
