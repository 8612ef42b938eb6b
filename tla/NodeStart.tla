----------------------------- MODULE NodeStart -----------------------------
(***************************************************************************)
(* One node from its start on: main opens a connection and a channel for   *)
(* itself and for every configured node (io/ConnectionStore.cpp,           *)
(* ChannelStore.cpp), starts the event loops, the timer wheel and at last  *)
(* the loop of its own consensus queue.  Connections are made in the       *)
(* background, and one that fails then or later is only logged.  The       *)
(* process may be ended at any time or die in a handler, and is started    *)
(* again: the queue is durable, ConsensusStorage is not.                   *)
(*                                                                         *)
(* A slot is abstracted to what decides whether a handler meets the slot's *)
(* entries: one peer is the validator of every slot and everybody          *)
(* contributes.  What happens inside a slot is the subject of SlotConsensus*)
(***************************************************************************)
EXTENDS SequencesExt

CONSTANTS
  Peers,      \* the other nodes of the configuration
  Self,       \* this node
  Validator,  \* the peer that broadcasts the block of every slot
  Slots,      \* bound: the number of slots
  MaxKills,   \* bound: how often the process is ended from outside
  MaxDead,    \* bound: the connections that fail in one process
  MaxQueue    \* bound: the messages that wait in the queue

ASSUME StartAssumption ==
  Self \notin Peers /\ Validator \in Peers /\ Slots \in Nat /\ MaxKills \in Nat
  /\ MaxDead \in Nat /\ MaxQueue \in Nat

VARIABLES
  malformed,      \* the addresses of the configuration no connection can be made for
  main,           \* what main does next
  connections,    \* ConnectionStore::connections
  remoteChannels, \* ChannelStore::remoteChannels
  dead,           \* the nodes the connection to which has failed
  slot,           \* the current slot
  passed,         \* has the timer run the callbacks in this process?
  live,           \* the slots with a thread in this process
  stage,          \* stage[s]: how far this node has got in slot s
  told,           \* told[p][s]: how many of this node's messages for slot s peer p has got
  sent,           \* sent[p][s]: how many of its messages for slot s peer p has published
  queue,          \* the node's consensus queue
  hand,           \* the message the event loop handles
  doing,          \* what the handler does next
  handled,        \* the messages in ConsensusStorage::contexts
  conditions,     \* the slots in ConsensusStorage::conditions
  fault,          \* the exception or signal that ended the process
  forgotten,      \* history: the slots an earlier process took part in
  kills           \* how often the process has been ended

setUpVars == <<malformed, main, connections, remoteChannels>>
storageVars == <<handled, conditions>>
slotVars == <<slot, passed, live, stage, told>>
loopVars == <<hand, doing>>
peerVars == <<sent, queue>>
history == <<forgotten, kills>>
vars == <<setUpVars, dead, storageVars, slotVars, loopVars, peerVars, fault, history>>

Slot == 1..Slots
NoSlot == 0
Ops == <<"INSPECTION", "ELECTION", "BROADCAST">>
Message == [op : Range(Ops), peer : Peers, slot : Slot]
NoMessage == [op |-> "none"]

\* The wheel calls back from the moment it is started on.
WheelRuns == main \in {"wheel", "loop"}

Has(op, p, s) == [op |-> op, peer |-> p, slot |-> s] \in handled

\* The addresses with an entry in contexts: initContexts makes one for each node.
Known == {m.peer : m \in handled} \cup (IF passed THEN Peers \cup {Self} ELSE {})

-----------------------------------------------------------------------------
Init ==
  /\ malformed \in SUBSET (Peers \cup {Self})
  /\ main = "self"
  /\ connections = {} /\ remoteChannels = {} /\ dead = {}
  /\ slot = NoSlot
  /\ passed = FALSE
  /\ live = {}
  /\ stage = [s \in Slot |-> 0]
  /\ told = [p \in Peers |-> [s \in Slot |-> 0]]
  /\ sent = [p \in Peers |-> [s \in Slot |-> 0]]
  /\ queue = <<>>
  /\ hand = NoMessage /\ doing = "idle"
  /\ handled = {} /\ conditions = {}
  /\ fault = "none"
  /\ forgotten = {}
  /\ kills = 0

-----------------------------------------------------------------------------
(* main. *)

\* ConnectionStore::push logs an address that cannot be parsed and goes on; get() throws
\* for what it left out.
Connect(node) ==
  \/ /\ node \notin malformed
     /\ connections' = connections \cup {node}
     /\ UNCHANGED fault
  \/ /\ node \in malformed
     /\ fault' = "outOfRange"
     /\ UNCHANGED connections

SetUpLocal ==
  /\ main = "self"
  /\ Connect(Self)
  /\ main' = IF Self \in malformed THEN main ELSE "remotes"
  /\ UNCHANGED <<malformed, remoteChannels, dead, storageVars, slotVars, loopVars, peerVars,
                 history>>

\* Deviation: a node without a connection is left out.
SkipMalformed(node) ==
  /\ main = "remotes"
  /\ node \notin connections
  /\ connections' = connections \cup {node}
  /\ remoteChannels' = IF node \in malformed THEN remoteChannels ELSE remoteChannels \cup {node}
  /\ UNCHANGED <<malformed, main, dead, storageVars, slotVars, loopVars, peerVars, fault, history>>

SetUpRemote(node) ==
  /\ main = "remotes"
  /\ node \notin connections
  /\ Connect(node)
  /\ remoteChannels' = IF node \in malformed THEN remoteChannels ELSE remoteChannels \cup {node}
  /\ UNCHANGED <<malformed, main, dead, storageVars, slotVars, loopVars, peerVars, history>>

\* The loops of the connections and, in the next slot, the wheel.
StartWheel ==
  /\ main = "remotes"
  /\ Peers \subseteq connections
  /\ main' = "wheel"
  /\ UNCHANGED <<malformed, connections, remoteChannels, dead, storageVars, slotVars, loopVars,
                 peerVars, fault, history>>

\* The loop of the own connection, which handles the consensus queue.
RunLoop ==
  /\ main = "wheel"
  /\ main' = "loop"
  /\ UNCHANGED <<malformed, connections, remoteChannels, dead, storageVars, slotVars, loopVars,
                 peerVars, fault, history>>

Main ==
  \/ SetUpLocal
  \/ \E p \in Peers : SetUpRemote(p)
  \/ StartWheel
  \/ RunLoop

\* A connection is not established, or breaks later.  The handler of the error logs it;
\* nobody connects again, and the channel stays in its store.
LoseConnection(node) ==
  /\ node \in connections \ dead
  /\ Cardinality(dead) < MaxDead
  /\ dead' = dead \cup {node}
  /\ UNCHANGED <<setUpVars, storageVars, slotVars, loopVars, peerVars, fault, history>>

-----------------------------------------------------------------------------
(* The slots. *)

\* This node's message number k for slot s goes to the nodes of to; what is published on a
\* dead connection is gone.
Tell(s, k, to) ==
  told' = [p \in Peers |-> IF p \in to \ dead THEN [told[p] EXCEPT ![s] = k] ELSE told[p]]

\* A slot begins.  The wheel, when it runs, initialises it and starts its thread, which
\* tells the peers that this node contributes.
NextSlot ==
  /\ slot < Slots
  /\ slot' = slot + 1
  /\ IF WheelRuns /\ fault = "none"
     THEN /\ passed' = TRUE
          /\ live' = live \cup {slot + 1}
          /\ stage' = [stage EXCEPT ![slot + 1] = 1]
          /\ Tell(slot + 1, 1, Peers)
          /\ conditions' = conditions \cup {slot + 1}
     ELSE UNCHANGED <<passed, live, stage, told, conditions>>
  /\ UNCHANGED <<setUpVars, dead, handled, loopVars, peerVars, fault, history>>

\* The thread of a slot has been told by every peer, and publishes its election value.
Elect(s) ==
  /\ s \in live
  /\ stage[s] = 1
  /\ \A p \in Peers : Has("INSPECTION", p, s)
  /\ stage' = [stage EXCEPT ![s] = 2]
  /\ Tell(s, 2, Peers)
  /\ UNCHANGED <<setUpVars, dead, storageVars, slot, passed, live, loopVars, peerVars, fault,
                 history>>

\* Deviation: any election value is enough.
RelayEarly(s) ==
  /\ s \in live
  /\ stage[s] = 2
  /\ \E p \in Peers : Has("ELECTION", p, s)
  /\ stage' = [stage EXCEPT ![s] = 3]
  /\ Tell(s, 3, {Validator})
  /\ UNCHANGED <<setUpVars, dead, storageVars, slot, passed, live, loopVars, peerVars, fault,
                 history>>

\* The thread has every election value, and sends its data to the validator.  The lookup
\* of the channel throws when there is none.
Relay(s) ==
  /\ s \in live
  /\ stage[s] = 2
  /\ \A p \in Peers : Has("ELECTION", p, s)
  /\ \/ /\ Validator \in remoteChannels
        /\ stage' = [stage EXCEPT ![s] = 3]
        /\ Tell(s, 3, {Validator})
        /\ UNCHANGED fault
     \/ /\ Validator \notin remoteChannels
        /\ fault' = "outOfRange"
        /\ UNCHANGED <<stage, told>>
  /\ UNCHANGED <<setUpVars, dead, storageVars, slot, passed, live, loopVars, peerVars, history>>

\* The thread has the block, saves it and clears the slot.
Complete(s) ==
  /\ s \in live
  /\ stage[s] = 3
  /\ Has("BROADCAST", Validator, s)
  /\ stage' = [stage EXCEPT ![s] = 4]
  /\ live' = live \ {s}
  /\ handled' = {m \in handled : m.slot # s}
  /\ conditions' = conditions \ {s}
  /\ UNCHANGED <<setUpVars, dead, slot, passed, told, loopVars, peerVars, fault, history>>

SlotThread(s) == Elect(s) \/ Relay(s) \/ Complete(s)

\* A peer publishes its next message of a slot: when the slot begins, when everybody has
\* told it, and, as the validator, when it has everybody's data.  What the peers have told
\* each other may be on the way to this node still.
PeerPublish(p, s) ==
  /\ s <= slot + 1
  /\ Len(queue) < MaxQueue
  /\ \/ sent[p][s] = 0
     \/ sent[p][s] = 1 /\ told[p][s] >= 1
     \/ /\ sent[p][s] = 2 /\ p = Validator
        /\ told[p][s] = 3
  /\ sent' = [sent EXCEPT ![p][s] = @ + 1]
  /\ queue' = Append(queue, [op |-> Ops[sent[p][s] + 1], peer |-> p, slot |-> s])
  /\ UNCHANGED <<setUpVars, dead, storageVars, slotVars, loopVars, fault, history>>

-----------------------------------------------------------------------------
(* The handler of the consensus queue. *)

\* INSPECTION initialises the conditions of its slot.
Initialised(m) == IF m.op = "INSPECTION" THEN {m.slot} ELSE {}

\* The handler takes the next message; what it stores, and the conditions it initialises.
\* The queue is consumed without acknowledgements, so the message is gone in any case.
TakeWith(initialised) ==
  /\ main = "loop" /\ Self \notin dead
  /\ doing = "idle" /\ queue # <<>>
  /\ hand' = Head(queue) /\ doing' = "ask"
  /\ queue' = Tail(queue)
  /\ handled' = handled \cup {Head(queue)}
  /\ conditions' = conditions \cup initialised
  /\ UNCHANGED <<setUpVars, dead, slotVars, sent, fault, history>>

\* Deviation: no message initialises the conditions of its slot.
TakeUninitialised == TakeWith({})

Take == TakeWith(Initialised(Head(queue)))

\* What the handler asks contexts for.
Notifies(m) ==
  LET AllHave(op) == \A a \in Known :
                       \/ a # Self /\ [op |-> op, peer |-> a, slot |-> m.slot] \in handled
                       \/ a = Self /\ m.slot \in live
                          /\ stage[m.slot] >= (IF op = "INSPECTION" THEN 1 ELSE 2)
  IN  m.op = "BROADCAST" \/ AllHave(m.op)

Ask ==
  /\ doing = "ask"
  /\ doing' = IF Notifies(hand) THEN "synchronize" ELSE "idle"
  /\ hand' = IF Notifies(hand) THEN hand ELSE NoMessage
  /\ UNCHANGED <<setUpVars, dead, storageVars, slotVars, peerVars, fault, history>>

\* isSynchronized.store and notify_all: each looks the conditions up again, and reads
\* through a null pointer when they are not there.
Notify ==
  /\ doing \in {"synchronize", "wake"}
  /\ \/ /\ hand.slot \in conditions
        /\ doing' = IF doing = "synchronize" THEN "wake" ELSE "idle"
        /\ hand' = IF doing = "synchronize" THEN hand ELSE NoMessage
        /\ UNCHANGED fault
     \/ /\ hand.slot \notin conditions
        /\ fault' = "null"
        /\ UNCHANGED loopVars
  /\ UNCHANGED <<setUpVars, dead, storageVars, slotVars, peerVars, history>>

Handle == Take \/ Ask \/ Notify

-----------------------------------------------------------------------------
(* The end of the process and its next start. *)

\* Everything in memory is forgotten; the queue is left with rest.
StartWith(rest) ==
  /\ main' = "self"
  /\ connections' = {} /\ remoteChannels' = {} /\ dead' = {}
  /\ passed' = FALSE
  /\ live' = {}
  /\ handled' = {} /\ conditions' = {}
  /\ hand' = NoMessage /\ doing' = "idle"
  /\ queue' = rest
  /\ fault' = "none"
  /\ forgotten' = forgotten \cup {m.slot : m \in handled} \cup {s \in Slot : stage[s] > 0}
  /\ UNCHANGED <<malformed, slot, stage, told, sent>>

\* Deviation: a message is acknowledged when it has been handled.
StartRedelivered == StartWith(IF hand = NoMessage THEN queue ELSE <<hand>> \o queue)

\* What the broker has delivered and nobody has handled is gone.
Start ==
  \E delivered \in 0..(IF main = "loop" THEN Len(queue) ELSE 0) :
    StartWith(SubSeq(queue, delivered + 1, Len(queue)))

Kill ==
  /\ kills < MaxKills
  /\ kills' = kills + 1
  /\ Start

Recover == fault # "none" /\ Start /\ UNCHANGED kills

Process == Main \/ Handle \/ \E s \in Slot : SlotThread(s)

Next ==
  \/ fault = "none" /\ Process
  \/ NextSlot
  \/ \E node \in Peers \cup {Self} : LoseConnection(node)
  \/ \E p \in Peers, s \in Slot : PeerPublish(p, s)
  \/ Kill
  \/ Recover

\* main and the event loop run, and a process that has died is started again.
Fairness ==
  /\ WF_vars(fault = "none" /\ (Main \/ Handle))
  /\ WF_vars(Recover)

Spec == Init /\ [][Next]_vars

FairSpec == Spec /\ Fairness
=============================================================================
