------------------------ MODULE SlotAgreementProofs ------------------------
(***************************************************************************)
(* Why the nodes agree in a later slot: nobody removes a placeholder while *)
(* another node has data, and without collisions the nodes mark the same   *)
(* validator.  Both rest on Honesty: what a node stores about another node,*)
(* and what is on the way to it, is what the other node has said.  Two     *)
(* nodes agree on the validator with collisions too: RoundInv counts the   *)
(* rounds of the election that each has drawn, and those of the other that *)
(* it has heard of.                                                        *)
(***************************************************************************)
EXTENDS SlotConsensusProofs, FiniteSetTheorems

USE DEF timerVars, threadVars, storeVars, syncVars, netVars, history

Answer(a) == IF own[a] THEN "yes" ELSE "no"

\* What node s may have published.
Honest(s) ==
  {message \in Message :
     /\ message.op = "INSPECTION" => message.isContributing = own[s]
     /\ message.op = "ELECTION" => message.value \in drawn[s]}

Honesty ==
  /\ \A s, n \in Node : chan[s][n] \in Seq(Honest(s))
  /\ \A n, a \in Node : contributing[n][a] \in {"unset", Answer(a)}
  /\ \A n, a \in Node : value[n][a] \in drawn[a] \cup {0}

\* Honesty is inductive relative to TypeOK; the removal needs that contexts has an
\* entry for every node.
KnowsAll == LaterSlot => \A n \in Node : known[n] = Node

RemovalInv == TypeOK /\ Honesty /\ KnowsAll /\ RemovalAgreement

\* The one value that every node has drawn.
Ballot == [a \in Node |-> CHOOSE v \in drawn[a] : TRUE]

BeforeElection == {"save", "announce", "inspect", "remove", "elect"}

\* In a slot without collisions nobody goes back to the election, so every node draws
\* once, and who marks a validator has seen the whole ballot.
OneBallot ==
  LaterSlot =>
    /\ \A n \in Node : pc[n] = "nominate" => \A a \in Node : value[n][a] # 0
    /\ CollisionFree =>
         /\ \A n \in Node : pc[n] # "purge"
         /\ \A n \in Node : pc[n] \in BeforeElection => drawn[n] = {}
         /\ \A n \in Node : \A v, w \in drawn[n] : v = w
         /\ \A n \in Node : validator[n] # NoNode =>
              /\ \A a \in Node : drawn[a] # {}
              /\ validator[n] \in MarkValidator(Node, Ballot)

BallotInv == RemovalInv /\ OneBallot

-----------------------------------------------------------------------------
\* A sequence over a set is a sequence over every larger set.
LEMMA SeqMonotone ==
  ASSUME NEW S, NEW T, S \subseteq T, NEW q \in Seq(S) PROVE q \in Seq(T)
  OBVIOUS

\* Channel::publish with an honest message leaves honest queues.  H[s] stands for
\* what s may publish after the step.
LEMMA PublishHonest ==
  ASSUME TypeOK, NEW n \in Node, NEW message, NEW receivers \in SUBSET Node,
         Publish(n, message, receivers), NEW H, message \in H[n],
         \A s, m \in Node : chan[s][m] \in Seq(H[s])
  PROVE  \A s, m \in Node : chan'[s][m] \in Seq(H[s])
<1>1. PICK failed \in SUBSET receivers :
        chan' = [chan EXCEPT ![n] =
             [m \in Node |-> IF m \in receivers \ failed
                             THEN Append(chan[n][m], message) ELSE chan[n][m]]]
  BY DEF Publish
<1> TAKE s, m \in Node
<1>2. \/ chan'[s][m] = chan[s][m]
      \/ s = n /\ chan'[s][m] = Append(chan[s][m], message)
  BY <1>1 DEF TypeOK, NetworkOK
<1>3. CASE chan'[s][m] = chan[s][m]
  BY <1>3
<1>4. CASE s = n /\ chan'[s][m] = Append(chan[s][m], message)
  <2> DEFINE q == chan[s][m]
             S == H[s]
  <2>1. q \in Seq(S) /\ message \in S
    BY <1>4
  <2>2. Append(q, message) \in Seq(S)
    <3> HIDE DEF q, S
    <3> QED
      BY <2>1
  <2> QED
    BY <1>4, <2>2
<1> QED
  BY <1>2, <1>3, <1>4

\* Taking a message out of a queue leaves honest queues.
LEMMA ConsumeHonest ==
  ASSUME TypeOK, Honesty, NEW n \in Node, NEW t \in Node, chan[t][n] # <<>>, Consume(n, t)
  PROVE  /\ Head(chan[t][n]) \in Honest(t)
         /\ \A s, m \in Node : chan'[s][m] \in Seq(Honest(s))
<1>1. chan[t][n] \in Seq(Honest(t))
  BY DEF Honesty
<1>2. Head(chan[t][n]) \in Honest(t) /\ Tail(chan[t][n]) \in Seq(Honest(t))
  BY <1>1
<1>3. chan' = [chan EXCEPT ![t][n] = Tail(chan[t][n])]
  BY DEF Consume, TypeOK, NetworkOK
<1>4. ASSUME NEW s \in Node, NEW m \in Node PROVE chan'[s][m] \in Seq(Honest(s))
  <2>1. CASE s = t /\ m = n
    BY <1>2, <1>3, <2>1 DEF TypeOK, NetworkOK
  <2>2. CASE ~(s = t /\ m = n)
    <3>1. chan'[s][m] = chan[s][m]
      BY <1>3, <2>2 DEF TypeOK, NetworkOK
    <3> QED
      BY <3>1 DEF Honesty
  <2> QED
    BY <2>1, <2>2
<1> QED
  BY <1>2, <1>4

\* A step that changes nothing that Honesty speaks of.
LEMMA HonestFrame ==
  ASSUME Honesty, UNCHANGED <<own, chan, contributing, value, drawn>> PROVE Honesty'
  BY DEF Honesty, Honest, Answer

\* As long as the data of the nodes and what they have drawn stay the same, so does
\* what they may publish.
LEMMA HonestSame ==
  ASSUME UNCHANGED <<own, drawn>>
  PROVE  \A s \in Node : Honest(s)' = Honest(s) /\ Answer(s)' = Answer(s)
  BY DEF Honest, Answer

\* The steps after which Honesty still speaks of the same values.
LEMMA QuietThread ==
  ASSUME NEW n \in Node,
         \/ SavePendingBlock(n) \/ WaitForNodesInspection(n)
         \/ RemovePendingBlockIfNoOneIsContributing(n) \/ TestElectionLoop(n)
         \/ WaitForNodesElection(n) \/ RetestElectionLoop(n) \/ NominateValidator(n)
         \/ WaitForContributorsData(n) \/ WaitForBroadcast(n) \/ WaitForBroadcastCv(n)
         \/ PublishBlock(n) \/ Park(n) \/ SpuriousWake(n) \/ Timer(n)
         \/ AddContext(n) \/ CheckCondition(n) \/ StoreSynchronized(n) \/ NotifyAll(n)
  PROVE  UNCHANGED <<own, chan, contributing, value, drawn>>
<1>1. CASE \/ SavePendingBlock(n) \/ WaitForNodesInspection(n)
           \/ RemovePendingBlockIfNoOneIsContributing(n) \/ TestElectionLoop(n)
           \/ WaitForNodesElection(n) \/ RetestElectionLoop(n) \/ NominateValidator(n)
  BY <1>1 DEF SavePendingBlock, WaitForNodesInspection,
              RemovePendingBlockIfNoOneIsContributing, TestElectionLoop,
              WaitForNodesElection, RetestElectionLoop, NominateValidator
<1>2. CASE \/ WaitForContributorsData(n) \/ WaitForBroadcast(n) \/ WaitForBroadcastCv(n)
           \/ PublishBlock(n) \/ Park(n) \/ SpuriousWake(n) \/ Timer(n)
  BY <1>2 DEF WaitForContributorsData, WaitForBroadcast, WaitForBroadcastCv, PublishBlock,
              Park, SpuriousWake, Timer, InitConditions, InitContexts
<1>3. CASE \/ AddContext(n) \/ CheckCondition(n) \/ StoreSynchronized(n) \/ NotifyAll(n)
  BY <1>3 DEF AddContext, CheckCondition, StoreSynchronized, NotifyAll
<1> QED
  BY <1>1, <1>2, <1>3

\* Every handler of the slot's thread publishes what its node has decided, and stores
\* about the other nodes nothing new.
LEMMA HonestyThread ==
  ASSUME TypeOK, Honesty, NEW n \in Node, SlotThread(n) PROVE Honesty'
<1>1. CASE NotifyNodesAboutContribution(n)
  <2> DEFINE message == [op |-> "INSPECTION", isContributing |-> own[n]]
             H == [s \in Node |-> Honest(s)]
  <2>0. UNCHANGED <<own, value, drawn>>
    BY <1>1 DEF NotifyNodesAboutContribution
  <2>1. message \in H[n]
    BY DEF Honest, Message, TypeOK, ThreadsOK
  <2>2. \A s, m \in Node : chan[s][m] \in Seq(H[s])
    BY DEF Honesty
  <2>3. Publish(n, message, Node \ {n})
    BY <1>1 DEF NotifyNodesAboutContribution
  <2>4. \A s, m \in Node : chan'[s][m] \in Seq(H[s])
    <3> HIDE DEF message, H
    <3> QED
      BY <2>1, <2>2, <2>3, PublishHonest
  <2>5. \A m, a \in Node : contributing'[m][a] \in {"unset", Answer(a)}
    BY <1>1 DEF NotifyNodesAboutContribution, Honesty, Answer, TypeOK, StoreOK
  <2> QED
    BY <2>0, <2>4, <2>5, HonestSame DEF Honesty
<1>2. CASE SendElectionValue(n)
  <2>0. PICK v \in Draws[n] :
        /\ value' = [value EXCEPT ![n][n] = v]
        /\ drawn' = [drawn EXCEPT ![n] = @ \cup {v}]
        /\ Publish(n, [op |-> "ELECTION", value |-> v], Node \ {n})
    BY <1>2 DEF SendElectionValue
  <2> DEFINE message == [op |-> "ELECTION", value |-> v]
             H == [s \in Node |-> Honest(s)']
  <2>1. UNCHANGED <<own, contributing>>
    BY <1>2 DEF SendElectionValue
  <2>2. \A s \in Node : drawn[s] \subseteq drawn'[s] /\ v \in drawn'[n]
    BY <2>0 DEF TypeOK, NetworkOK
  <2>3. message \in H[n]
    BY <2>2, DrawsAssumption DEF Honest, Message
  <2>4. \A s \in Node : Honest(s) \subseteq H[s]
    BY <2>1, <2>2 DEF Honest
  <2>5. \A s, m \in Node : chan[s][m] \in Seq(H[s])
    <3> HIDE DEF H
    <3> QED
      BY <2>4, SeqMonotone DEF Honesty
  <2>6. \A s, m \in Node : chan'[s][m] \in Seq(H[s])
    <3> HIDE DEF message, H
    <3> QED
      BY <2>0, <2>3, <2>5, PublishHonest DEF message
  <2>7. \A s, m \in Node : chan'[s][m] \in Seq(Honest(s)')
    BY <2>6
  <2>8. \A m, a \in Node : value'[m][a] \in drawn'[a] \cup {0}
    BY <2>0, <2>2 DEF Honesty, TypeOK, StoreOK
  <2>9. \A m, a \in Node : contributing'[m][a] \in {"unset", Answer(a)'}
    BY <2>1 DEF Honesty, Answer
  <2> QED
    BY <2>7, <2>8, <2>9 DEF Honesty
<1>3. CASE TransferDataToValidator(n)
  <2> DEFINE message == [op |-> "UPLOADING", block |-> PendingBlock({n})]
             H == [s \in Node |-> Honest(s)]
  <2>0. UNCHANGED <<own, contributing, value, drawn>>
    BY <1>3 DEF TransferDataToValidator
  <2>1. message \in H[n]
    BY DEF Honest, Message, PendingBlock, Block, BlockOf
  <2>2. \A s, m \in Node : chan[s][m] \in Seq(H[s])
    BY DEF Honesty
  <2>3. UNCHANGED chan \/ Publish(n, message, {validator[n]})
    BY <1>3 DEF TransferDataToValidator
  <2>4. {validator[n]} \in SUBSET Node
    BY <1>3 DEF TransferDataToValidator, At, TypeOK, ThreadsOK, Elected
  <2>5. \A s, m \in Node : chan'[s][m] \in Seq(H[s])
    <3> HIDE DEF message, H
    <3> QED
      BY <2>1, <2>2, <2>3, <2>4, PublishHonest
  <2> QED
    BY <2>0, <2>5, HonestSame DEF Honesty
<1>4. CASE Broadcast(n)
  <2> DEFINE message == [op |-> "BROADCAST", block |-> broadcastBlock[n]]
             H == [s \in Node |-> Honest(s)]
  <2>0. UNCHANGED <<own, contributing, value, drawn>>
    BY <1>4 DEF Broadcast
  <2>1. message \in H[n]
    BY DEF Honest, Message, TypeOK, StoreOK
  <2>2. \A s, m \in Node : chan[s][m] \in Seq(H[s])
    BY DEF Honesty
  <2>3. Publish(n, message, Node \ {n})
    BY <1>4 DEF Broadcast
  <2>4. \A s, m \in Node : chan'[s][m] \in Seq(H[s])
    <3> HIDE DEF message, H
    <3> QED
      BY <2>1, <2>2, <2>3, PublishHonest
  <2> QED
    BY <2>0, <2>4, HonestSame DEF Honesty
<1>5. CASE RemoveDuplicates(n)
  <2>1. UNCHANGED <<own, chan, contributing, drawn>>
    BY <1>5 DEF RemoveDuplicates
  <2>2. \A m, a \in Node : value'[m][a] \in {value[m][a], 0}
    BY <1>5 DEF RemoveDuplicates, RemoveElectionValueDuplicates, TypeOK, StoreOK
  <2>3. \A m, a \in Node : value'[m][a] \in drawn'[a] \cup {0}
    BY <2>1, <2>2 DEF Honesty
  <2> QED
    BY <2>1, <2>3 DEF Honesty, Honest, Answer
<1>6. CASE SaveCompleteBlock(n)
  <2>1. UNCHANGED <<own, chan, drawn>>
    BY <1>6 DEF SaveCompleteBlock
  <2>2. \A m, a \in Node : value'[m][a] \in {value[m][a], 0}
    BY <1>6 DEF SaveCompleteBlock, TypeOK, StoreOK
  <2>3. \A m, a \in Node : contributing'[m][a] \in {contributing[m][a], "unset"}
    BY <1>6 DEF SaveCompleteBlock, TypeOK, StoreOK
  <2> QED
    BY <2>1, <2>2, <2>3, HonestSame DEF Honesty
<1> QED
  BY <1>1, <1>2, <1>3, <1>4, <1>5, <1>6, QuietThread, HonestFrame DEF SlotThread

\* The event loop stores about a node what the node has said.
LEMMA HonestyLoop ==
  ASSUME TypeOK, Honesty, NEW n \in Node, EventLoop(n) PROVE Honesty'
<1>1. CASE SetContribution(n)
  <2> DEFINE t == loop[n].from
  <2>0. UNCHANGED <<own, value, drawn>>
    BY <1>1 DEF SetContribution
  <2>1. t \in Node /\ Arrived(n, t, "INSPECTION")
    BY <1>1 DEF SetContribution, TypeOK, NetworkOK, InHand
  <2>2. /\ contributing' = [contributing EXCEPT ![n][t] =
                              IF Head(chan[t][n]).isContributing THEN "yes" ELSE "no"]
        /\ Consume(n, t)
    BY <1>1 DEF SetContribution
  <2>3. /\ Head(chan[t][n]) \in Honest(t)
        /\ \A s, m \in Node : chan'[s][m] \in Seq(Honest(s))
    BY <2>1, <2>2, ConsumeHonest DEF Arrived
  <2>4. Head(chan[t][n]).isContributing = own[t]
    BY <2>1, <2>3 DEF Arrived, Honest
  <2>5. \A m, a \in Node : contributing'[m][a] \in {"unset", Answer(a)}
    BY <2>1, <2>2, <2>4 DEF Honesty, Answer, TypeOK, StoreOK
  <2> QED
    BY <2>0, <2>3, <2>5, HonestSame DEF Honesty
<1>2. CASE FillElectionValue(n)
  <2>0. UNCHANGED <<own, contributing, drawn>>
    BY <1>2 DEF FillElectionValue
  <2>1. PICK t \in Node : /\ Arrived(n, t, "ELECTION")
                          /\ value' = [value EXCEPT ![n][t] = Head(chan[t][n]).value]
                          /\ Consume(n, t)
    BY <1>2 DEF FillElectionValue
  <2>2. /\ Head(chan[t][n]) \in Honest(t)
        /\ \A s, m \in Node : chan'[s][m] \in Seq(Honest(s))
    BY <2>1, ConsumeHonest DEF Arrived
  <2>3. Head(chan[t][n]).value \in drawn[t]
    BY <2>1, <2>2 DEF Arrived, Honest
  <2>4. \A m, a \in Node : value'[m][a] \in drawn[a] \cup {0}
    BY <2>1, <2>3 DEF Honesty, TypeOK, StoreOK
  <2> QED
    BY <2>0, <2>2, <2>4, HonestSame DEF Honesty
<1>3. CASE AddContributorBlock(n) \/ AddBroadcastBlock(n)
  <2>0. UNCHANGED <<own, contributing, value, drawn>>
    BY <1>3 DEF AddContributorBlock, AddBroadcastBlock
  <2>1. PICK t \in Node : chan[t][n] # <<>> /\ Consume(n, t)
    BY <1>3 DEF AddContributorBlock, AddBroadcastBlock, Arrived
  <2>2. \A s, m \in Node : chan'[s][m] \in Seq(Honest(s))
    BY <2>1, ConsumeHonest
  <2> QED
    BY <2>0, <2>2, HonestSame DEF Honesty
<1> QED
  BY <1>1, <1>2, <1>3, QuietThread, HonestFrame DEF EventLoop

\* contexts never loses an entry.
LEMMA KnownKept ==
  ASSUME TypeOK, KnowsAll, NEW n \in Node, Step(n) PROVE KnowsAll'
<1> SUFFICES ASSUME LaterSlot, NEW m \in Node PROVE known'[m] = Node
  BY DEF KnowsAll, LaterSlot
<1>0. known[m] = Node
  BY DEF KnowsAll
<1>1. CASE UNCHANGED known
  BY <1>0, <1>1
<1>2. CASE \E s \in Node : known' = [known EXCEPT ![n] = @ \cup {s}]
  BY <1>0, <1>2 DEF TypeOK, StoreOK
<1>3. CASE known' = [known EXCEPT ![n] = Node]
  BY <1>0, <1>3 DEF TypeOK, StoreOK
<1>4. CASE Timer(n) \/ SpuriousWake(n)
  BY <1>1, <1>3, <1>4 DEF Timer, InitConditions, InitContexts, SpuriousWake
<1>5. CASE SlotThread(n)
  <2>1. CASE SavePendingBlock(n)
    BY <1>2, <2>1 DEF SavePendingBlock
  <2>2. CASE ~SavePendingBlock(n)
    <3>1. UNCHANGED known
      BY <1>5, <2>2, Zenon DEF SlotThread, NotifyNodesAboutContribution, WaitForNodesInspection,
         RemovePendingBlockIfNoOneIsContributing, SendElectionValue, TestElectionLoop,
         WaitForNodesElection, RemoveDuplicates, RetestElectionLoop, NominateValidator,
         TransferDataToValidator, WaitForContributorsData, Broadcast, WaitForBroadcast,
         WaitForBroadcastCv, SaveCompleteBlock, PublishBlock, Park
    <3> QED
      BY <1>1, <3>1
  <2> QED
    BY <2>1, <2>2
<1>6. CASE EventLoop(n)
  <2>1. CASE CheckCondition(n) \/ StoreSynchronized(n) \/ NotifyAll(n)
    BY <1>1, <2>1 DEF CheckCondition, StoreSynchronized, NotifyAll
  <2>2. CASE SetContribution(n)
    BY <1>2, <2>2 DEF SetContribution, Consume, TypeOK, NetworkOK, InHand
  <2>3. CASE \/ AddContext(n) \/ FillElectionValue(n) \/ AddContributorBlock(n)
             \/ AddBroadcastBlock(n)
    BY <1>2, <2>3 DEF AddContext, FillElectionValue, AddContributorBlock, AddBroadcastBlock,
                      Consume
  <2> QED
    BY <1>6, <2>1, <2>2, <2>3 DEF EventLoop
<1> QED
  BY <1>4, <1>5, <1>6 DEF Step

\* Only two handlers of the slot's thread write the blockchain with anything else
\* than a placeholder.
LEMMA EntryFrame ==
  ASSUME TypeOK, NEW n \in Node, Step(n)
  PROVE  /\ UNCHANGED own
         /\ \/ RemovePendingBlockIfNoOneIsContributing(n)
            \/ \A m \in Node : entry'[m] = "removed" => entry[m] = "removed"
<1>1. CASE Timer(n) \/ SpuriousWake(n)
  BY <1>1 DEF Timer, InitConditions, InitContexts, SpuriousWake
<1>2. CASE EventLoop(n)
  BY <1>2, Zenon DEF EventLoop, AddContext, SetContribution, FillElectionValue,
     AddContributorBlock, AddBroadcastBlock, CheckCondition, StoreSynchronized, NotifyAll
<1>3. CASE SlotThread(n)
  <2>1. CASE SavePendingBlock(n)
    BY <2>1 DEF SavePendingBlock, TypeOK, ThreadsOK
  <2>2. CASE SaveCompleteBlock(n)
    BY <2>2 DEF SaveCompleteBlock, TypeOK, ThreadsOK
  <2>3. CASE RemovePendingBlockIfNoOneIsContributing(n)
    BY <2>3 DEF RemovePendingBlockIfNoOneIsContributing
  <2>4. CASE ~(\/ SavePendingBlock(n) \/ SaveCompleteBlock(n)
               \/ RemovePendingBlockIfNoOneIsContributing(n))
    <3>1. UNCHANGED <<own, entry>>
      BY <1>3, <2>4, Zenon DEF SlotThread, NotifyNodesAboutContribution,
         WaitForNodesInspection, SendElectionValue, TestElectionLoop,
         WaitForNodesElection, RemoveDuplicates, RetestElectionLoop, NominateValidator,
         TransferDataToValidator, WaitForContributorsData, Broadcast, WaitForBroadcast,
         WaitForBroadcastCv, PublishBlock, Park
    <3> QED
      BY <3>1
  <2> QED
    BY <2>1, <2>2, <2>3, <2>4
<1> QED
  BY <1>1, <1>2, <1>3 DEF Step

\* A step removes a placeholder only if every node has said that it has no data.
LEMMA RemovalStep ==
  ASSUME RemovalInv, NEW n \in Node, Step(n) PROVE RemovalAgreement'
<1> SUFFICES ASSUME LaterSlot, NEW m \in Node, entry'[m] = "removed"
             PROVE  Contributors' = {}
  BY DEF RemovalAgreement, LaterSlot
<1>0. Contributors' = Contributors
  BY EntryFrame DEF RemovalInv, Contributors
<1>1. CASE \E k \in Node : entry[k] = "removed"
  BY <1>0, <1>1 DEF RemovalInv, RemovalAgreement
<1>2. CASE \A k \in Node : entry[k] # "removed"
  <2>1. RemovePendingBlockIfNoOneIsContributing(n)
    BY <1>2, EntryFrame DEF RemovalInv
  <2>2. PICK answer \in IsAnyNodeContributing(known[n], contributing[n]) :
          \/ answer = "no"
          \/ UNCHANGED entry
    BY <2>1 DEF RemovePendingBlockIfNoOneIsContributing
  <2>3. answer = "no"
    BY <1>2, <2>2
  <2>4. \A a \in Node : contributing[n][a] = "no"
    BY <2>2, <2>3 DEF IsAnyNodeContributing, RemovalInv, KnowsAll
  <2>5. \A a \in Node : own[a] = FALSE
    BY <2>4 DEF RemovalInv, Honesty, Answer, TypeOK, ThreadsOK
  <2> QED
    BY <1>0, <2>5 DEF Contributors
<1> QED
  BY <1>1, <1>2

\* The invariant of the removal holds at the start of a slot.
LEMMA RemovalInit == Init => RemovalInv
<1> SUFFICES ASSUME Init PROVE RemovalInv
  OBVIOUS
<1>1. TypeOK
  BY InitType
<1>2. Honesty
  BY DEF Init, Honesty, Honest, Answer
<1>3. KnowsAll
  BY DEF Init, KnowsAll, LaterSlot
<1>4. RemovalAgreement
  BY DEF Init, RemovalAgreement
<1> QED
  BY <1>1, <1>2, <1>3, <1>4 DEF RemovalInv

\* Every step keeps the invariant of the removal.
LEMMA RemovalNext == RemovalInv /\ [Next]_vars => RemovalInv'
<1> SUFFICES ASSUME RemovalInv, [Next]_vars PROVE RemovalInv'
  OBVIOUS
<1>1. CASE UNCHANGED vars
  <2>1. TypeOK'
    BY <1>1, TypeStep DEF RemovalInv
  <2> QED
    BY <1>1, <2>1, HonestFrame DEF RemovalInv, vars, KnowsAll, LaterSlot, RemovalAgreement,
                                   Contributors
<1>2. ASSUME NEW n \in Node, Step(n) PROVE RemovalInv'
  <2>1. TypeOK'
    BY <1>2, TypeStep DEF RemovalInv, Next
  <2>2. Honesty'
    BY <1>2, HonestyThread, HonestyLoop, QuietThread, HonestFrame DEF RemovalInv, Step
  <2> QED
    BY <1>2, <2>1, <2>2, KnownKept, RemovalStep DEF RemovalInv
<1> QED
  BY <1>1, <1>2 DEF Next

\* In a later slot a node removes its placeholder only if no node has data for the
\* slot: the answers it decides by are what the nodes have said, whatever is still
\* on the way or was lost.
THEOREM RemovalAgreed == Spec => []RemovalAgreement
<1>1. RemovalInv => RemovalAgreement
  BY DEF RemovalInv
<1> QED
  BY <1>1, RemovalInit, RemovalNext, PTL DEF Spec

-----------------------------------------------------------------------------
\* A step after which OneBallot still holds because nobody draws, nobody marks a
\* validator, and nobody comes into the handlers it speaks of.
LEMMA BallotFrame ==
  ASSUME OneBallot, UNCHANGED <<drawn, validator>>,
         \A m \in Node : pc'[m] \in BeforeElection => pc[m] \in BeforeElection,
         \A m \in Node : pc'[m] \in {"purge", "nominate"} => pc'[m] = pc[m],
         \A m, a \in Node : pc'[m] = "nominate" /\ value[m][a] # 0 => value'[m][a] # 0
  PROVE  OneBallot'
<1> SUFFICES ASSUME LaterSlot PROVE OneBallot'
  BY DEF OneBallot, LaterSlot
<1>1. CollisionFree' = CollisionFree /\ Ballot' = Ballot
  BY DEF CollisionFree, Ballot
<1>2. \A n \in Node : pc'[n] = "nominate" => \A a \in Node : value'[n][a] # 0
  BY DEF OneBallot
<1> QED
  BY <1>1, <1>2, Zenon DEF OneBallot

\* The steps of the slot's thread that leave the ballot alone.
LEMMA BallotQuiet ==
  ASSUME TypeOK, OneBallot, NEW n \in Node,
         \/ SavePendingBlock(n) \/ NotifyNodesAboutContribution(n)
         \/ WaitForNodesInspection(n) \/ RemovePendingBlockIfNoOneIsContributing(n)
         \/ TransferDataToValidator(n) \/ WaitForContributorsData(n) \/ Broadcast(n)
         \/ WaitForBroadcast(n) \/ WaitForBroadcastCv(n) \/ SaveCompleteBlock(n)
         \/ PublishBlock(n) \/ Park(n)
  PROVE  OneBallot'
<1>1. UNCHANGED <<drawn, validator>>
  BY DEF SavePendingBlock, NotifyNodesAboutContribution, WaitForNodesInspection,
     RemovePendingBlockIfNoOneIsContributing, TransferDataToValidator,
     WaitForContributorsData, Broadcast, WaitForBroadcast, WaitForBroadcastCv,
     SaveCompleteBlock, PublishBlock, Park
<1>2. \/ UNCHANGED value
      \/ pc'[n] = "publish" /\ \A m \in Node : m # n => value'[m] = value[m]
  <2>1. CASE SaveCompleteBlock(n)
    BY <2>1 DEF SaveCompleteBlock, Goto, TypeOK, ThreadsOK, StoreOK
  <2>2. CASE ~SaveCompleteBlock(n)
    BY <2>2 DEF SavePendingBlock, NotifyNodesAboutContribution, WaitForNodesInspection,
       RemovePendingBlockIfNoOneIsContributing, TransferDataToValidator,
       WaitForContributorsData, Broadcast, WaitForBroadcast, WaitForBroadcastCv,
       PublishBlock, Park
  <2> QED
    BY <2>1, <2>2
<1>3. \/ UNCHANGED pc
      \/ /\ pc[n] \in BeforeElection \/ pc'[n] \notin BeforeElection
         /\ pc'[n] \notin {"purge", "nominate"}
         /\ \A m \in Node : m # n => pc'[m] = pc[m]
  <2>1. CASE SavePendingBlock(n) \/ NotifyNodesAboutContribution(n)
    BY <2>1 DEF SavePendingBlock, NotifyNodesAboutContribution, At, Goto, BeforeElection,
                TypeOK, ThreadsOK
  <2>2. CASE WaitForNodesInspection(n)
    BY <2>2 DEF WaitForNodesInspection, CvWait, At, Goto, BeforeElection, TypeOK, ThreadsOK
  <2>3. CASE RemovePendingBlockIfNoOneIsContributing(n)
    BY <2>3 DEF RemovePendingBlockIfNoOneIsContributing, At, Goto, BeforeElection, TypeOK,
                ThreadsOK
  <2>4. CASE TransferDataToValidator(n)
    BY <2>4 DEF TransferDataToValidator, At, Goto, BeforeElection, TypeOK, ThreadsOK
  <2>5. CASE WaitForContributorsData(n)
    BY <2>5 DEF WaitForContributorsData, CvWait, At, Goto, BeforeElection, TypeOK, ThreadsOK
  <2>6. CASE Broadcast(n) \/ SaveCompleteBlock(n) \/ PublishBlock(n) \/ Park(n)
    BY <2>6 DEF Broadcast, SaveCompleteBlock, PublishBlock, Park, Goto, BeforeElection,
                TypeOK, ThreadsOK
  <2>7. CASE WaitForBroadcast(n)
    BY <2>7 DEF WaitForBroadcast, Goto, BeforeElection, TypeOK, ThreadsOK
  <2>8. CASE WaitForBroadcastCv(n)
    BY <2>8 DEF WaitForBroadcastCv, CvWait, Goto, BeforeElection, TypeOK, ThreadsOK
  <2> QED
    BY <2>1, <2>2, <2>3, <2>4, <2>5, <2>6, <2>7, <2>8
<1> QED
  BY <1>1, <1>2, <1>3, BallotFrame

\* A draw: without collisions it is the node's first, and nobody has marked a
\* validator before it.
LEMMA BallotDraw ==
  ASSUME BallotInv, NEW n \in Node, SendElectionValue(n) PROVE OneBallot'
<1> SUFFICES ASSUME LaterSlot PROVE OneBallot'
  BY DEF OneBallot, LaterSlot
<1>0. PICK v \in Draws[n] : /\ value' = [value EXCEPT ![n][n] = v]
                            /\ drawn' = [drawn EXCEPT ![n] = @ \cup {v}]
  BY DEF SendElectionValue
<1>1. /\ pc[n] = "elect" /\ pc' = [pc EXCEPT ![n] = "electLoop"]
      /\ UNCHANGED validator
  BY DEF SendElectionValue, At, Goto
<1>2. \A a \in Node : drawn'[a] = IF a = n THEN drawn[a] \cup {v} ELSE drawn[a]
  BY <1>0 DEF BallotInv, RemovalInv, TypeOK, NetworkOK
<1>3. \A m \in Node : /\ m # n => pc'[m] = pc[m] /\ value'[m] = value[m]
                      /\ pc'[n] = "electLoop"
  BY <1>0, <1>1 DEF BallotInv, RemovalInv, TypeOK, ThreadsOK, StoreOK
<1>4. \A m \in Node : pc'[m] = "nominate" => \A a \in Node : value'[m][a] # 0
  BY <1>3 DEF BallotInv, OneBallot
<1>5. ASSUME CollisionFree'
      PROVE  /\ \A m \in Node : pc'[m] # "purge"
             /\ \A m \in Node : pc'[m] \in BeforeElection => drawn'[m] = {}
             /\ \A m \in Node : \A x, y \in drawn'[m] : x = y
             /\ \A m \in Node : validator'[m] = NoNode
  <2>1. CollisionFree
    BY <1>2, <1>5 DEF CollisionFree
  <2>2. drawn[n] = {}
    BY <1>1, <2>1 DEF BallotInv, OneBallot, BeforeElection
  <2>3. \A m \in Node : pc'[m] # "purge"
    BY <1>3, <2>1 DEF BallotInv, OneBallot
  <2>4. \A m \in Node : pc'[m] \in BeforeElection => drawn'[m] = {}
    BY <1>2, <1>3, <2>1 DEF BallotInv, OneBallot, BeforeElection
  <2>5. \A m \in Node : \A x, y \in drawn'[m] : x = y
    BY <1>2, <2>1, <2>2 DEF BallotInv, OneBallot
  <2>6. \A m \in Node : validator'[m] = NoNode
    BY <1>1, <2>1, <2>2 DEF BallotInv, OneBallot
  <2> QED
    BY <2>3, <2>4, <2>5, <2>6
<1> QED
  BY <1>4, <1>5 DEF OneBallot

\* Who leaves the election for the nomination has seen a value of every node; who
\* leaves it for the purge has seen a collision.
LEMMA BallotTest ==
  ASSUME BallotInv, NEW n \in Node,
         TestElectionLoop(n) \/ WaitForNodesElection(n) \/ RetestElectionLoop(n)
  PROVE  OneBallot'
<1> SUFFICES ASSUME LaterSlot PROVE OneBallot'
  BY DEF OneBallot, LaterSlot
<1>1. UNCHANGED <<drawn, validator, value>>
  BY DEF TestElectionLoop, WaitForNodesElection, RetestElectionLoop
<1>2. known[n] = Node
  BY DEF BallotInv, RemovalInv, KnowsAll
<1>3. \/ UNCHANGED pc
      \/ pc' = [pc EXCEPT ![n] = "nominate"] /\ Present(n)
      \/ pc' = [pc EXCEPT ![n] = "purge"] /\ Present(n) /\ ~Unique(n)
      \/ pc' = [pc EXCEPT ![n] = "electCv"]
      \/ pc' = [pc EXCEPT ![n] = "electRetest"]
  BY Zenon DEF TestElectionLoop, WaitForNodesElection, RetestElectionLoop, CvWait, Goto
<1>4. pc \in [Node -> Handlers]
  BY DEF BallotInv, RemovalInv, TypeOK, ThreadsOK
<1>5. \A m \in Node : pc'[m] = "nominate" => \A a \in Node : value'[m][a] # 0
  <2>1. Present(n) => \A a \in Node : value[n][a] # 0
    BY <1>2 DEF Present, AreAllElectionValuesPresent
  <2>2. \A m \in Node : pc[m] = "nominate" => \A a \in Node : value[m][a] # 0
    BY DEF BallotInv, OneBallot
  <2> QED
    BY <1>1, <1>3, <1>4, <2>1, <2>2
<1>6. ASSUME CollisionFree' PROVE \A m \in Node : pc'[m] # "purge"
  <2>0. CollisionFree
    BY <1>1, <1>6 DEF CollisionFree
  <2>1. ASSUME Present(n), ~Unique(n) PROVE FALSE
    <3>1. PICK a \in Node \ {n} : value[n][a] = value[n][n]
      BY <1>2, <2>1 DEF Unique, IsElectionValueUnique
    <3>2. value[n][a] # 0 /\ value[n][n] # 0
      BY <1>2, <2>1 DEF Present, AreAllElectionValuesPresent
    <3>3. value[n][a] \in drawn[a] /\ value[n][n] \in drawn[n]
      BY <3>2 DEF BallotInv, RemovalInv, Honesty
    <3> QED
      BY <2>0, <3>1, <3>3 DEF CollisionFree
  <2>2. \A m \in Node : pc[m] # "purge"
    BY <2>0 DEF BallotInv, OneBallot
  <2> QED
    BY <1>3, <1>4, <2>1, <2>2
<1>7. \A m \in Node : pc'[m] \in BeforeElection => pc[m] \in BeforeElection
  BY <1>3, <1>4 DEF BeforeElection
<1>8. CollisionFree' = CollisionFree /\ Ballot' = Ballot
  BY <1>1 DEF CollisionFree, Ballot
<1> QED
  BY <1>1, <1>5, <1>6, <1>7, <1>8, Zenon DEF BallotInv, OneBallot

\* The purge: with collisions only.
LEMMA BallotPurge ==
  ASSUME BallotInv, NEW n \in Node, RemoveDuplicates(n) PROVE OneBallot'
<1> SUFFICES ASSUME LaterSlot PROVE OneBallot'
  BY DEF OneBallot, LaterSlot
<1>1. pc[n] = "purge" /\ UNCHANGED drawn
  BY DEF RemoveDuplicates, At
<1>2. ~CollisionFree'
  BY <1>1 DEF BallotInv, OneBallot, CollisionFree
<1>3. /\ pc'[n] = "elect"
      /\ \A m \in Node : m # n => pc'[m] = pc[m] /\ value'[m] = value[m]
  BY DEF RemoveDuplicates, Goto, BallotInv, RemovalInv, TypeOK, ThreadsOK, StoreOK
<1> QED
  BY <1>2, <1>3 DEF BallotInv, OneBallot

\* The nomination: without collisions every node marks a winner of the same ballot.
LEMMA BallotNominate ==
  ASSUME BallotInv, NEW n \in Node, NominateValidator(n) PROVE OneBallot'
<1> SUFFICES ASSUME LaterSlot PROVE OneBallot'
  BY DEF OneBallot, LaterSlot
<1>1. PICK w \in MarkValidator(known[n], value[n]) : validator' = [validator EXCEPT ![n] = w]
  BY DEF NominateValidator
<1>2. /\ pc[n] = "nominate" /\ pc' = [pc EXCEPT ![n] = "relay"]
      /\ UNCHANGED <<value, drawn>>
  BY DEF NominateValidator, At, Goto
<1>3. known[n] = Node
  BY DEF BallotInv, RemovalInv, KnowsAll
<1>4. \A m \in Node : m # n => pc'[m] = pc[m] /\ validator'[m] = validator[m]
  BY <1>1, <1>2 DEF BallotInv, RemovalInv, TypeOK, ThreadsOK, StoreOK
<1>5. pc'[n] = "relay" /\ validator'[n] = w
  BY <1>1, <1>2 DEF BallotInv, RemovalInv, TypeOK, ThreadsOK, StoreOK
<1>6. CollisionFree' = CollisionFree /\ Ballot' = Ballot
  BY <1>2 DEF CollisionFree, Ballot
<1>7. ASSUME CollisionFree
      PROVE  (\A a \in Node : drawn[a] # {}) /\ w \in MarkValidator(Node, Ballot)
  <2>1. \A a \in Node : value[n][a] \in drawn[a]
    BY <1>2 DEF BallotInv, OneBallot, RemovalInv, Honesty
  <2>2. \A a \in Node : value[n][a] = Ballot[a]
    BY <1>7, <2>1 DEF BallotInv, OneBallot, Ballot
  <2>3. value[n] = Ballot
    BY <2>2 DEF BallotInv, RemovalInv, TypeOK, StoreOK, Ballot
  <2> QED
    BY <1>1, <1>3, <2>1, <2>3
<1>8. \A m \in Node : pc'[m] = "nominate" => \A a \in Node : value'[m][a] # 0
  BY <1>2, <1>4, <1>5 DEF BallotInv, OneBallot
<1>9. CollisionFree => /\ \A m \in Node : pc'[m] # "purge"
                       /\ \A m \in Node : pc'[m] \in BeforeElection => drawn'[m] = {}
                       /\ \A m \in Node : \A x, y \in drawn'[m] : x = y
  BY <1>2, <1>4, <1>5 DEF BallotInv, OneBallot, BeforeElection
<1>10. CollisionFree => \A m \in Node : validator'[m] # NoNode =>
              /\ \A a \in Node : drawn'[a] # {}
              /\ validator'[m] \in MarkValidator(Node, Ballot)
  BY <1>2, <1>4, <1>5, <1>7 DEF BallotInv, OneBallot
<1> QED
  BY <1>6, <1>8, <1>9, <1>10, Zenon DEF OneBallot

\* The event loop and the timer draw nothing and mark nobody.
LEMMA BallotOthers ==
  ASSUME TypeOK, OneBallot, NEW n \in Node, EventLoop(n) \/ Timer(n) \/ SpuriousWake(n)
  PROVE  OneBallot'
<1>1. UNCHANGED <<pc, drawn, validator>>
  BY Zenon DEF EventLoop, AddContext, SetContribution, FillElectionValue, AddContributorBlock,
     AddBroadcastBlock, CheckCondition, StoreSynchronized, NotifyAll, Timer, InitConditions,
     InitContexts, SpuriousWake
<1>2. \A m, a \in Node : value[m][a] # 0 => value'[m][a] # 0
  <2>1. CASE FillElectionValue(n)
    <3>1. PICK s \in Node : /\ Arrived(n, s, "ELECTION")
                            /\ value' = [value EXCEPT ![n][s] = Head(chan[s][n]).value]
      BY <2>1 DEF FillElectionValue
    <3>2. Head(chan[s][n]).value # 0
      BY <3>1, ArrivedType DEF Arrived, Message
    <3> QED
      BY <3>1, <3>2 DEF TypeOK, StoreOK
  <2>2. CASE ~FillElectionValue(n)
    <3>1. UNCHANGED value
      BY <2>2, Zenon DEF EventLoop, AddContext, SetContribution, AddContributorBlock,
         AddBroadcastBlock, CheckCondition, StoreSynchronized, NotifyAll, Timer,
         InitConditions, InitContexts, SpuriousWake
    <3> QED
      BY <3>1
  <2> QED
    BY <2>1, <2>2
<1> QED
  BY <1>1, <1>2, BallotFrame

\* The invariant of the election holds at the start of a slot.
LEMMA BallotInit == Init => BallotInv
<1> SUFFICES ASSUME Init PROVE OneBallot
  BY RemovalInit DEF BallotInv
<1> QED
  BY DEF Init, OneBallot

\* Every step keeps the invariant of the election.
LEMMA BallotNext == BallotInv /\ [Next]_vars => BallotInv'
<1> SUFFICES ASSUME BallotInv, [Next]_vars PROVE OneBallot'
  BY RemovalNext DEF BallotInv
<1>1. CASE UNCHANGED vars
  BY <1>1, BallotFrame DEF BallotInv, vars
<1>2. ASSUME NEW n \in Node, Step(n) PROVE OneBallot'
  <2>1. TypeOK /\ OneBallot
    BY DEF BallotInv, RemovalInv
  <2>2. CASE SlotThread(n)
    BY <2>1, <2>2, BallotQuiet, BallotDraw, BallotTest, BallotPurge, BallotNominate
       DEF SlotThread
  <2> QED
    BY <1>2, <2>1, <2>2, BallotOthers DEF Step
<1> QED
  BY <1>1, <1>2 DEF Next

\* Without collisions a ballot has one winner.
LEMMA OneWinner ==
  ASSUME TypeOK, CollisionFree, \A a \in Node : drawn[a] # {},
         NEW x \in MarkValidator(Node, Ballot), NEW y \in MarkValidator(Node, Ballot)
  PROVE  x = y
<1>1. x \in Node /\ y \in Node
  BY MarkType
<1>2. \A a \in Node : Ballot[a] \in drawn[a] /\ Ballot[a] \in Nat
  BY DEF Ballot, TypeOK, NetworkOK
<1>3. Ballot[x] <= Ballot[y] /\ Ballot[y] <= Ballot[x]
  BY <1>1 DEF MarkValidator
<1>4. Ballot[x] = Ballot[y]
  BY <1>1, <1>2, <1>3
<1> QED
  BY <1>1, <1>2, <1>4 DEF CollisionFree

\* In a later slot in which no two nodes draw the same election value the nodes never
\* disagree about the validator.
THEOREM ValidatorAgreed == Spec => []ValidatorAgreement
<1>1. BallotInv => ValidatorAgreement
  <2> SUFFICES ASSUME BallotInv, LaterSlot, CollisionFree,
                      NEW n \in Node, NEW m \in Node,
                      validator[n] # NoNode, validator[m] # NoNode
               PROVE  validator[n] = validator[m]
    BY DEF ValidatorAgreement, OneValidator
  <2> QED
    BY OneWinner DEF BallotInv, OneBallot, RemovalInv
<1> QED
  BY <1>1, BallotInit, BallotNext, PTL DEF Spec
-----------------------------------------------------------------------------
(* What one step changes.                                                      *)

\* A step of one node changes nothing of what another node keeps.
LEMMA Elsewhere ==
  ASSUME TypeOK, NEW n \in Node, Step(n), NEW m \in Node, m # n
  PROVE  /\ pc'[m] = pc[m] /\ wait'[m] = wait[m] /\ loop'[m] = loop[m]
         /\ fault'[m] = fault[m] /\ timer'[m] = timer[m]
         /\ known'[m] = known[m] /\ contributing'[m] = contributing[m]
         /\ value'[m] = value[m] /\ block'[m] = block[m] /\ resolved'[m] = resolved[m]
         /\ validator'[m] = validator[m] /\ cond'[m] = cond[m] /\ synced'[m] = synced[m]
         /\ broadcastBlock'[m] = broadcastBlock[m] /\ entry'[m] = entry[m]
         /\ drawn'[m] = drawn[m] /\ purges'[m] = purges[m]
<1> USE DEF TypeOK, ThreadsOK, StoreOK, NetworkOK
<1>1. CASE Timer(n) \/ SpuriousWake(n)
  BY <1>1 DEF Timer, InitConditions, InitContexts, SpuriousWake
<1>2. CASE SlotThread(n)
  <2>1. CASE SavePendingBlock(n)
    BY <2>1 DEF SavePendingBlock, Goto
  <2>2. CASE NotifyNodesAboutContribution(n)
    BY <2>2 DEF NotifyNodesAboutContribution, Goto
  <2>3. CASE WaitForNodesInspection(n)
    BY <2>3 DEF WaitForNodesInspection, CvWait, Goto, Crash
  <2>4. CASE RemovePendingBlockIfNoOneIsContributing(n)
    BY <2>4 DEF RemovePendingBlockIfNoOneIsContributing, EndIdleSlot, Goto, Crash
  <2>5. CASE SendElectionValue(n)
    BY <2>5 DEF SendElectionValue, Goto
  <2>6. CASE TestElectionLoop(n) \/ WaitForNodesElection(n)
    BY <2>6 DEF TestElectionLoop, WaitForNodesElection, CvWait, Goto
  <2>7. CASE RemoveDuplicates(n)
    BY <2>7 DEF RemoveDuplicates, Goto
  <2>8. CASE RetestElectionLoop(n)
    BY <2>8 DEF RetestElectionLoop, Goto, Crash
  <2>9. CASE NominateValidator(n)
    BY <2>9 DEF NominateValidator, Goto
  <2>10. CASE TransferDataToValidator(n)
    BY <2>10 DEF TransferDataToValidator, Goto
  <2>11. CASE WaitForContributorsData(n)
    BY <2>11 DEF WaitForContributorsData, CvWait, Goto, Crash
  <2>12. CASE Broadcast(n)
    BY <2>12 DEF Broadcast, Goto
  <2>13. CASE WaitForBroadcast(n)
    BY <2>13 DEF WaitForBroadcast, TakeBroadcastBlock, Goto
  <2>14. CASE WaitForBroadcastCv(n)
    BY <2>14 DEF WaitForBroadcastCv, TakeBroadcastBlock, CvWait, Goto
  <2>15. CASE SaveCompleteBlock(n)
    BY <2>15 DEF SaveCompleteBlock, Goto
  <2>16. CASE PublishBlock(n) \/ Park(n)
    BY <2>16 DEF PublishBlock, Park, Goto
  <2> QED
    BY <1>2, <2>1, <2>2, <2>3, <2>4, <2>5, <2>6, <2>7, <2>8, <2>9, <2>10, <2>11, <2>12,
       <2>13, <2>14, <2>15, <2>16 DEF SlotThread
<1>3. CASE EventLoop(n)
  <2>1. CASE AddContext(n)
    BY <2>1 DEF AddContext
  <2>2. CASE SetContribution(n)
    BY <2>2 DEF SetContribution, Consume, Work
  <2>3. CASE FillElectionValue(n)
    BY <2>3 DEF FillElectionValue, Consume, Work
  <2>4. CASE AddContributorBlock(n)
    BY <2>4 DEF AddContributorBlock, Consume, Work
  <2>5. CASE AddBroadcastBlock(n)
    BY <2>5 DEF AddBroadcastBlock, Consume, Work
  <2>6. CASE CheckCondition(n)
    BY <2>6 DEF CheckCondition, Work, Crash
  <2>7. CASE StoreSynchronized(n) \/ NotifyAll(n)
    BY <2>7 DEF StoreSynchronized, NotifyAll, Work, Crash
  <2> QED
    BY <1>3, <2>1, <2>2, <2>3, <2>4, <2>5, <2>6, <2>7 DEF EventLoop
<1> QED
  BY <1>1, <1>2, <1>3 DEF Step

\* A node marks a validator only as a handler of its thread.
LEMMA MarkStep ==
  ASSUME TypeOK, NEW n \in Node, Step(n)
  PROVE  NominateValidator(n) \/ UNCHANGED validator
  BY Zenon DEF Step, Timer, InitConditions, InitContexts, SpuriousWake, EventLoop, AddContext,
     SetContribution, FillElectionValue, AddContributorBlock, AddBroadcastBlock,
     CheckCondition, StoreSynchronized, NotifyAll, SlotThread, SavePendingBlock,
     NotifyNodesAboutContribution, WaitForNodesInspection,
     RemovePendingBlockIfNoOneIsContributing, SendElectionValue, TestElectionLoop,
     WaitForNodesElection, RemoveDuplicates, RetestElectionLoop, TransferDataToValidator,
     WaitForContributorsData, Broadcast, WaitForBroadcast, WaitForBroadcastCv,
     SaveCompleteBlock, PublishBlock, Park

\* The steps that publish, and what.
LEMMA PublishStep ==
  ASSUME TypeOK, NEW n \in Node, Step(n)
  PROVE  \/ UNCHANGED chan
         \/ \E s \in Node : /\ chan[s][n] # <<>> /\ Consume(n, s)
                            /\ FillElectionValue(n) \/ Head(chan[s][n]).op # "ELECTION"
         \/ /\ NotifyNodesAboutContribution(n)
            /\ Publish(n, [op |-> "INSPECTION", isContributing |-> own[n]], Node \ {n})
         \/ /\ SendElectionValue(n)
            /\ \E v \in Draws[n] : Publish(n, [op |-> "ELECTION", value |-> v], Node \ {n})
         \/ /\ TransferDataToValidator(n) /\ validator[n] # n /\ own[n]
            /\ Publish(n, [op |-> "UPLOADING", block |-> PendingBlock({n})], {validator[n]})
         \/ /\ Broadcast(n)
            /\ Publish(n, [op |-> "BROADCAST", block |-> broadcastBlock[n]], Node \ {n})
<1>1. CASE Timer(n) \/ SpuriousWake(n)
  BY <1>1 DEF Timer, InitConditions, InitContexts, SpuriousWake
<1>2. CASE SlotThread(n)
  <2>1. CASE NotifyNodesAboutContribution(n)
    BY <2>1 DEF NotifyNodesAboutContribution
  <2>2. CASE SendElectionValue(n)
    BY <2>2 DEF SendElectionValue
  <2>3. CASE TransferDataToValidator(n)
    BY <2>3, Zenon DEF TransferDataToValidator
  <2>4. CASE Broadcast(n)
    BY <2>4 DEF Broadcast
  <2>5. CASE ~(\/ NotifyNodesAboutContribution(n) \/ SendElectionValue(n)
               \/ TransferDataToValidator(n) \/ Broadcast(n))
    BY <1>2, <2>5, Zenon DEF SlotThread, SavePendingBlock, WaitForNodesInspection,
       RemovePendingBlockIfNoOneIsContributing, TestElectionLoop, WaitForNodesElection,
       RemoveDuplicates, RetestElectionLoop, NominateValidator, WaitForContributorsData,
       WaitForBroadcast, WaitForBroadcastCv, SaveCompleteBlock, PublishBlock, Park
  <2> QED
    BY <2>1, <2>2, <2>3, <2>4, <2>5
<1>3. CASE EventLoop(n)
  <2>1. CASE SetContribution(n)
    BY <2>1 DEF SetContribution, TypeOK, NetworkOK, InHand, Arrived
  <2>2. CASE \/ AddContext(n) \/ FillElectionValue(n) \/ AddContributorBlock(n)
             \/ AddBroadcastBlock(n) \/ CheckCondition(n) \/ StoreSynchronized(n)
             \/ NotifyAll(n)
    BY <2>2, Zenon DEF AddContext, FillElectionValue, AddContributorBlock,
       AddBroadcastBlock, CheckCondition, StoreSynchronized, NotifyAll, Arrived
  <2> QED
    BY <1>3, <2>1, <2>2 DEF EventLoop
<1> QED
  BY <1>1, <1>2, <1>3 DEF Step

\* The moves of the slot's thread that change nothing else that Thread speaks of.
PlainMoves ==
  {<<"announce", "inspect">>, <<"inspect", "remove">>, <<"elect", "electLoop">>,
   <<"electLoop", "nominate">>, <<"electLoop", "electCv">>, <<"electCv", "electRetest">>,
   <<"electCv", "purge">>, <<"electRetest", "nominate">>, <<"purge", "elect">>,
   <<"broadcast", "store">>, <<"await", "awaitCv">>, <<"publish", "done">>}

\* The handlers that have nothing to decide move on as Thread says.
LEMMA PlainMove ==
  ASSUME TypeOK, NEW n \in Node, SlotThread(n),
         \/ NotifyNodesAboutContribution(n) \/ WaitForNodesInspection(n)
         \/ SendElectionValue(n) \/ TestElectionLoop(n) \/ WaitForNodesElection(n)
         \/ RemoveDuplicates(n) \/ RetestElectionLoop(n) \/ Broadcast(n)
         \/ PublishBlock(n) \/ Park(n)
  PROVE  /\ UNCHANGED <<validator, block, entry, broadcastBlock>>
         /\ pc'[n] = pc[n] \/ <<pc[n], pc'[n]>> \in PlainMoves
<1> USE DEF TypeOK, ThreadsOK, PlainMoves
<1>1. CASE NotifyNodesAboutContribution(n)
  BY <1>1 DEF NotifyNodesAboutContribution, At, Goto
<1>2. CASE WaitForNodesInspection(n)
  BY <1>2 DEF WaitForNodesInspection, CvWait, Crash, At, Goto
<1>3. CASE SendElectionValue(n)
  BY <1>3 DEF SendElectionValue, At, Goto
<1>4. CASE TestElectionLoop(n)
  BY <1>4 DEF TestElectionLoop, At, Goto
<1>5. CASE WaitForNodesElection(n)
  BY <1>5 DEF WaitForNodesElection, CvWait, At, Goto
<1>6. CASE RemoveDuplicates(n)
  BY <1>6 DEF RemoveDuplicates, At, Goto
<1>7. CASE RetestElectionLoop(n)
  BY <1>7 DEF RetestElectionLoop, Crash, At, Goto
<1>8. CASE Broadcast(n) \/ PublishBlock(n)
  BY <1>8 DEF Broadcast, PublishBlock, At, Goto
<1>9. CASE Park(n)
  BY <1>9 DEF Park
<1> QED
  BY <1>1, <1>2, <1>3, <1>4, <1>5, <1>6, <1>7, <1>8, <1>9

\* The moves of the slot's thread.
Moves ==
  PlainMoves \cup
  {<<"save", "announce">>, <<"remove", "elect">>, <<"remove", "removed">>,
   <<"nominate", "relay">>, <<"relay", "collect">>, <<"relay", "await">>,
   <<"collect", "broadcast">>, <<"await", "store">>, <<"awaitCv", "store">>,
   <<"store", "publish">>}

\* The slot's thread goes from handler to handler in the order of the chain.
LEMMA MoveStep ==
  ASSUME TypeOK, NEW n \in Node, Step(n)
  PROVE  /\ pc'[n] = pc[n] \/ <<pc[n], pc'[n]>> \in Moves
         /\ pc[n] = "save" /\ pc'[n] # "save" /\ InitOrder = "initFirst" => timer[n] = "done"
         /\ pc[n] = "inspect" /\ pc'[n] = "remove" => Confirmed(n)
         /\ pc'[n] = "electRetest" /\ pc[n] # "electRetest" => Present(n) /\ Unique(n)
<1> USE DEF TypeOK, ThreadsOK
<1>1. CASE Timer(n) \/ SpuriousWake(n) \/ EventLoop(n)
  BY <1>1, Zenon DEF EventLoop, AddContext, SetContribution, FillElectionValue,
     AddContributorBlock, AddBroadcastBlock, CheckCondition, StoreSynchronized, NotifyAll,
     Timer, InitConditions, InitContexts, SpuriousWake
<1>2. CASE SlotThread(n)
  <2>1. CASE SavePendingBlock(n)
    BY <2>1 DEF SavePendingBlock, At, Goto, Moves
  <2>2. CASE RemovePendingBlockIfNoOneIsContributing(n)
    BY <2>2 DEF RemovePendingBlockIfNoOneIsContributing, At, Goto, Moves
  <2>3. CASE NominateValidator(n)
    BY <2>3 DEF NominateValidator, At, Goto, Moves
  <2>4. CASE TransferDataToValidator(n)
    BY <2>4 DEF TransferDataToValidator, At, Goto, Moves
  <2>5. CASE WaitForContributorsData(n)
    BY <2>5 DEF WaitForContributorsData, CvWait, At, Goto, Moves
  <2>6. CASE WaitForBroadcast(n)
    BY <2>6 DEF WaitForBroadcast, At, Goto, Moves, PlainMoves
  <2>7. CASE WaitForBroadcastCv(n)
    BY <2>7 DEF WaitForBroadcastCv, CvWait, At, Goto, Moves
  <2>8. CASE SaveCompleteBlock(n)
    BY <2>8 DEF SaveCompleteBlock, At, Goto, Moves
  <2>9. CASE WaitForNodesInspection(n)
    BY <2>9 DEF WaitForNodesInspection, CvWait, At, Goto, Moves, PlainMoves
  <2>10. CASE WaitForNodesElection(n)
    BY <2>10 DEF WaitForNodesElection, CvWait, At, Goto, Moves, PlainMoves
  <2>11. CASE \/ NotifyNodesAboutContribution(n) \/ SendElectionValue(n)
              \/ TestElectionLoop(n) \/ RemoveDuplicates(n) \/ RetestElectionLoop(n)
              \/ Broadcast(n) \/ PublishBlock(n) \/ Park(n)
    <3>1. pc'[n] = pc[n] \/ <<pc[n], pc'[n]>> \in Moves
      BY <1>2, <2>11, PlainMove DEF Moves
    <3>2. /\ pc[n] \notin {"save", "inspect"} \/ pc'[n] = pc[n]
          /\ pc'[n] # "electRetest" \/ pc'[n] = pc[n]
      BY <2>11 DEF NotifyNodesAboutContribution, SendElectionValue, TestElectionLoop,
         RemoveDuplicates, RetestElectionLoop, Broadcast, PublishBlock, Park, At, Goto
    <3> QED
      BY <3>1, <3>2
  <2> QED
    BY <1>2, <2>1, <2>2, <2>3, <2>4, <2>5, <2>6, <2>7, <2>8, <2>9, <2>10, <2>11
       DEF SlotThread
<1> QED
  BY <1>1, <1>2 DEF Step

\* Re-elections are counted up.
LEMMA PurgeStep ==
  ASSUME TypeOK, NEW n \in Node, Step(n)
  PROVE  \/ UNCHANGED purges
         \/ RemoveDuplicates(n) /\ purges' = [purges EXCEPT ![n] = purges[n] + 1]
<1>1. CASE RemoveDuplicates(n)
  BY <1>1 DEF RemoveDuplicates
<1>2. CASE ~RemoveDuplicates(n)
  BY <1>2, Zenon DEF Step, Timer, InitConditions, InitContexts, SpuriousWake, EventLoop,
     AddContext, SetContribution, FillElectionValue, AddContributorBlock, AddBroadcastBlock,
     CheckCondition, StoreSynchronized, NotifyAll, SlotThread, SavePendingBlock,
     NotifyNodesAboutContribution, WaitForNodesInspection,
     RemovePendingBlockIfNoOneIsContributing, SendElectionValue, TestElectionLoop,
     WaitForNodesElection, RetestElectionLoop, NominateValidator, TransferDataToValidator,
     WaitForContributorsData, Broadcast, WaitForBroadcast, WaitForBroadcastCv,
     SaveCompleteBlock, PublishBlock, Park
<1> QED
  BY <1>1, <1>2

\* Only the purge leads back to the election.
LEMMA OnlyPurgeLeaves ==
  ASSUME TypeOK, NEW n \in Node, Step(n), ~RemoveDuplicates(n), pc[n] = "purge"
  PROVE  pc'[n] = "purge"
<1> USE DEF TypeOK, ThreadsOK
<1>1. CASE SlotThread(n)
  BY <1>1 DEF SlotThread, SavePendingBlock, NotifyNodesAboutContribution,
     WaitForNodesInspection, RemovePendingBlockIfNoOneIsContributing, SendElectionValue,
     TestElectionLoop, WaitForNodesElection, RetestElectionLoop, NominateValidator,
     TransferDataToValidator, WaitForContributorsData, Broadcast, WaitForBroadcast,
     WaitForBroadcastCv, SaveCompleteBlock, PublishBlock, Park, At
<1>2. CASE ~SlotThread(n)
  BY <1>2, Zenon DEF Step, EventLoop, AddContext, SetContribution, FillElectionValue,
     AddContributorBlock, AddBroadcastBlock, CheckCondition, StoreSynchronized, NotifyAll,
     Timer, InitConditions, InitContexts, SpuriousWake
<1> QED
  BY <1>1, <1>2

\* The election values of a node change in four steps.
LEMMA ValueStep ==
  ASSUME TypeOK, NEW n \in Node, Step(n)
  PROVE  \/ UNCHANGED value
         \/ FillElectionValue(n)
         \/ SendElectionValue(n) \/ RemoveDuplicates(n) \/ SaveCompleteBlock(n)
  BY Zenon DEF Step, Timer, InitConditions, InitContexts, SpuriousWake, EventLoop,
     AddContext, SetContribution, AddContributorBlock, AddBroadcastBlock,
     CheckCondition, StoreSynchronized, NotifyAll, SlotThread, SavePendingBlock,
     NotifyNodesAboutContribution, WaitForNodesInspection,
     RemovePendingBlockIfNoOneIsContributing, TestElectionLoop,
     WaitForNodesElection, RetestElectionLoop, NominateValidator, TransferDataToValidator,
     WaitForContributorsData, Broadcast, WaitForBroadcast, WaitForBroadcastCv,
     PublishBlock, Park

\* Only the nomination leads from nominateValidator to the relay.
LEMMA NominateMoves ==
  ASSUME TypeOK, NEW n \in Node, Step(n), pc[n] = "nominate", pc'[n] = "relay"
  PROVE  NominateValidator(n)
<1> USE DEF TypeOK, ThreadsOK
<1>1. CASE SlotThread(n)
  BY <1>1 DEF SlotThread, SavePendingBlock, NotifyNodesAboutContribution,
     WaitForNodesInspection, RemovePendingBlockIfNoOneIsContributing, SendElectionValue,
     TestElectionLoop, WaitForNodesElection, RemoveDuplicates, RetestElectionLoop,
     TransferDataToValidator, WaitForContributorsData, Broadcast, WaitForBroadcast,
     WaitForBroadcastCv, SaveCompleteBlock, PublishBlock, Park, At
<1>2. CASE ~SlotThread(n)
  BY <1>2, Zenon DEF Step, EventLoop, AddContext, SetContribution, FillElectionValue,
     AddContributorBlock, AddBroadcastBlock, CheckCondition, StoreSynchronized, NotifyAll,
     Timer, InitConditions, InitContexts, SpuriousWake
<1> QED
  BY <1>1, <1>2

-----------------------------------------------------------------------------
(* Elections with collisions: the rounds of a node, and those that another     *)
(* node has heard of.                                                          *)

Elections(q) == {i \in DOMAIN q : q[i].op = "ELECTION"}

\* How often s has drawn: once before every re-election, and once in the round it is in.
Rounds(s) == IF pc[s] \in BeforeElection \cup {"removed"} THEN purges[s] ELSE purges[s] + 1

\* n has a value of s, or has cleared the slot with one.
Held(n, s) == IF value[n][s] # 0 \/ Cleared(n) THEN 1 ELSE 0

\* The rounds of s that n has purged, holds or is still to hear of.
Heard(n, s) == purges[n] + Held(n, s) + Cardinality(Elections(chan[s][n]))

\* No round of s was lost, or overwritten at n by a later one.
Full(n, s) == Heard(n, s) = Rounds(s)

\* The values on the way in q.
Votes(q) == {q[i].value : i \in Elections(q)}

\* The last value on the way in q, when there is one, is v.
Last(q, v) ==
  \A i \in Elections(q) : (\A j \in Elections(q) : j <= i) => q[i].value = v

\* Then what n hears last is the value s has.
Newest(n, s) ==
  Full(n, s) /\ value[s][s] # 0 =>
    /\ Elections(chan[s][n]) = {} /\ value[n][s] # 0 => value[n][s] = value[s][s]
    /\ Last(chan[s][n], value[s][s])

\* And what n has found unique when it left the loop is unique still.
Tested(n, s) == pc[n] = "nominate" /\ Full(n, s) => value[n][s] # value[n][n]

Follows(n, s) == Heard(n, s) <= Rounds(s) /\ Newest(n, s) /\ Tested(n, s)

\* A node has a value of everybody when it removes or uses them.
Seen(n) ==
  /\ pc[n] \in {"purge", "nominate", "store"} \cup Elected => \A a \in Node : value[n][a] # 0
  /\ validator[n] # NoNode => pc[n] \in {"store", "publish", "done"} \cup Elected

\* Two nodes: the values that m decides by when n's is x.
Pair(n, m, x) == [a \in Node |-> IF a = n THEN x ELSE value[m][m]]

\* The values of n that m has or is to get.
Offers(n, m) == ({value[m][n]} \ {0}) \cup Votes(chan[n][m])

\* n has marked a validator, and m is in the same round and has yet to mark one: it can only
\* mark the same.
Bound(n, m) ==
  /\ validator[n] # NoNode /\ validator[m] = NoNode
  /\ value[m][m] # 0
  /\ purges[n] = purges[m] /\ Full(m, n)

Verdict(n, m) ==
  Bound(n, m) =>
    \A x \in Offers(n, m) :
      x # value[m][m] /\ validator[n] \in MarkValidator(Node, Pair(n, m, x))

RoundInv ==
  /\ \A n \in Node : chan[n][n] = <<>>
  /\ LaterSlot =>
       /\ \A n \in Node : Seen(n)
       /\ \A n \in Node : \A s \in Node \ {n} : Follows(n, s)
       /\ Cardinality(Node) = 2 =>
            /\ OneValidator
            /\ \A n \in Node : \A m \in Node \ {n} : Verdict(n, m)

ElectionInv == RemovalInv /\ RoundInv

\* The elections of a queue that grows.
LEMMA AppendElections ==
  ASSUME NEW q \in Seq(Message), NEW message \in Message
  PROVE  LET p == Append(q, message)
         IN  /\ IsFiniteSet(Elections(q)) /\ Cardinality(Elections(q)) \in Nat
             /\ message.op # "ELECTION" =>
                  /\ Elections(p) = Elections(q)
                  /\ \A v : Last(q, v) => Last(p, v)
                  /\ \A i \in Elections(p) : p[i] = q[i]
             /\ message.op = "ELECTION" =>
                  /\ Cardinality(Elections(p)) = Cardinality(Elections(q)) + 1
                  /\ Elections(p) # {}
                  /\ Last(p, message.value)
<1> DEFINE p == Append(q, message)
<1>1. /\ DOMAIN p = DOMAIN q \cup {Len(q) + 1} /\ Len(q) + 1 \notin DOMAIN q
      /\ p[Len(q) + 1] = message /\ \A i \in DOMAIN q : p[i] = q[i]
      /\ DOMAIN q = 1..Len(q) /\ Len(q) \in Nat
  OBVIOUS
<1>2. IsFiniteSet(Elections(q)) /\ Cardinality(Elections(q)) \in Nat
  <2>1. IsFiniteSet(1..Len(q))
    BY <1>1, FS_Interval
  <2> QED
    BY <1>1, <2>1, FS_Subset, FS_CardinalityType DEF Elections
<1> HIDE DEF p
<1>3. message.op # "ELECTION" => /\ Elections(p) = Elections(q)
                                 /\ \A i \in Elections(p) : p[i] = q[i]
  BY <1>1 DEF Elections
<1>4. message.op # "ELECTION" => \A v : Last(q, v) => Last(p, v)
  BY <1>3 DEF Last
<1>5. ASSUME message.op = "ELECTION"
      PROVE  /\ Elections(p) = Elections(q) \cup {Len(q) + 1}
             /\ Len(q) + 1 \notin Elections(q)
  BY <1>1, <1>5 DEF Elections
<1>6. ASSUME message.op = "ELECTION"
      PROVE  Cardinality(Elections(p)) = Cardinality(Elections(q)) + 1
  BY <1>2, <1>5, <1>6, FS_AddElement
<1>7. ASSUME message.op = "ELECTION" PROVE Last(p, message.value)
  <2> SUFFICES ASSUME NEW i \in Elections(p), \A j \in Elections(p) : j <= i
               PROVE  p[i].value = message.value
    BY DEF Last
  <2>1. i \in 1..(Len(q) + 1) /\ Len(q) + 1 <= i
    BY <1>1, <1>5, <1>7 DEF Elections
  <2>2. i = Len(q) + 1
    BY <1>1, <2>1
  <2> QED
    BY <1>1, <2>2
<1> QED
  BY <1>2, <1>3, <1>4, <1>5, <1>6, <1>7 DEF p

\* The elections of a queue that loses its first message.
LEMMA TailElections ==
  ASSUME NEW q \in Seq(Message), q # <<>>
  PROVE  LET p == Tail(q)
         IN  /\ \A i \in Elections(p) : i + 1 \in Elections(q) /\ p[i] = q[i + 1]
             /\ Cardinality(Elections(p)) \in Nat
             /\ Elections(p) # {} => Cardinality(Elections(p)) > 0
             /\ \A v : Last(q, v) => Last(p, v)
             /\ Cardinality(Elections(q)) =
                  IF Head(q).op = "ELECTION" THEN Cardinality(Elections(p)) + 1
                  ELSE Cardinality(Elections(p))
             /\ Head(q).op = "ELECTION" /\ Elections(p) = {} =>
                  \A v : Last(q, v) => Head(q).value = v
             /\ Head(q).op # "ELECTION" /\ Elections(p) = {} => Elections(q) = {}
             /\ Head(q).op = "ELECTION" => 1 \in Elections(q) /\ q[1] = Head(q)
<1> DEFINE p == Tail(q)
           E == Elections(q) \ {1}
           f == [i \in Elections(p) |-> i + 1]
<1>1. /\ Len(p) = Len(q) - 1 /\ DOMAIN p = 1..Len(p) /\ DOMAIN q = 1..Len(q) /\ Len(p) \in Nat
      /\ \A i \in 1..Len(p) : p[i] = q[i + 1]
      /\ Head(q) = q[1] /\ 1 \in DOMAIN q
  OBVIOUS
<1> HIDE DEF p
<1>2. /\ \A i \in Elections(p) : i \in Nat /\ i + 1 \in E /\ p[i] = q[i + 1]
      /\ \A i \in E : i - 1 \in Elections(p) /\ i \in Nat
  BY <1>1 DEF Elections
<1>3. /\ IsFiniteSet(Elections(p)) /\ IsFiniteSet(Elections(q))
      /\ Cardinality(Elections(p)) \in Nat /\ Cardinality(Elections(q)) \in Nat
  <2>1. IsFiniteSet(1..Len(p)) /\ IsFiniteSet(1..Len(q))
    BY <1>1, FS_Interval
  <2> QED
    BY <1>1, <2>1, FS_Subset, FS_CardinalityType DEF Elections
<1>4. Cardinality(E) = Cardinality(Elections(p))
  <2>1. f \in Bijection(Elections(p), E)
    <3>1. f \in [Elections(p) -> E]
      BY <1>2
    <3>2. \A i, j \in Elections(p) : f[i] = f[j] => i = j
      BY <1>2
    <3>3. \A e \in E : \E i \in Elections(p) : f[i] = e
      <4> TAKE e \in E
      <4>1. e - 1 \in Elections(p) /\ e \in Nat
        BY <1>2
      <4>2. f[e - 1] = e
        BY <4>1
      <4> QED
        BY <4>1, <4>2
    <3> HIDE DEF f, E
    <3> QED
      BY <3>1, <3>2, <3>3 DEF Bijection, Injection, Surjection, IsInjective
  <2>2. ExistsBijection(Elections(p), E)
    BY <2>1 DEF ExistsBijection
  <2>3. IsFiniteSet(E)
    BY <1>3, FS_Subset
  <2> QED
    BY <1>3, <2>2, <2>3, FS_Bijection
<1>5. Elections(q) = IF Head(q).op = "ELECTION" THEN E \cup {1} ELSE E
  BY <1>1 DEF Elections
<1>6. Cardinality(Elections(q)) = IF Head(q).op = "ELECTION" THEN Cardinality(Elections(p)) + 1
                                  ELSE Cardinality(Elections(p))
  <2>1. IsFiniteSet(E) /\ 1 \notin E
    BY <1>3, FS_Subset
  <2> HIDE DEF E
  <2> QED
    BY <1>4, <1>5, <2>1, FS_AddElement
<1>7. ASSUME NEW v, Last(q, v) PROVE Last(p, v)
  <2> SUFFICES ASSUME NEW i \in Elections(p), \A j \in Elections(p) : j <= i
               PROVE  p[i].value = v
    BY DEF Last
  <2>1. \A j \in Elections(q) : j <= i + 1
    <3> TAKE j \in Elections(q)
    <3>1. CASE j = 1
      BY <1>2, <3>1
    <3>2. CASE j # 1
      <4>1. j - 1 \in Elections(p) /\ j \in Nat
        BY <1>2, <3>2
      <4>2. j - 1 <= i
        BY <4>1
      <4> QED
        BY <1>2, <4>1, <4>2
    <3> QED
      BY <3>1, <3>2
  <2> QED
    BY <1>2, <1>7, <2>1 DEF Last
<1>8. ASSUME Head(q).op = "ELECTION", Elections(p) = {}, NEW v, Last(q, v)
      PROVE  Head(q).value = v
  <2>1. Elections(q) = {1}
    BY <1>2, <1>5, <1>8
  <2> QED
    BY <1>1, <1>8, <2>1 DEF Last
<1>9. Head(q).op # "ELECTION" /\ Elections(p) = {} => Elections(q) = {}
  BY <1>2, <1>5
<1>10. Elections(p) # {} => Cardinality(Elections(p)) > 0
  BY <1>3, FS_EmptySet
<1> QED
  BY <1>1, <1>2, <1>3, <1>5, <1>6, <1>7, <1>8, <1>9, <1>10 DEF p

\* What a step does to the values on the way from s to n when it neither draws nor takes one.
SameVotes(s, n) ==
  /\ Cardinality(Elections(chan'[s][n])) = Cardinality(Elections(chan[s][n]))
  /\ Elections(chan'[s][n]) = {} => Elections(chan[s][n]) = {}
  /\ \A v : Last(chan[s][n], v) => Last(chan'[s][n], v)
  /\ Votes(chan'[s][n]) \subseteq Votes(chan[s][n])

\* Channel::publish of a message that is no election value, and of one that is.
LEMMA PublishVotes ==
  ASSUME TypeOK, NEW k \in Node, NEW message \in Message, NEW receivers \in SUBSET Node,
         Publish(k, message, receivers), NEW s \in Node, NEW n \in Node
  PROVE  /\ \/ chan'[s][n] = chan[s][n]
            \/ s = k /\ n \in receivers /\ chan'[s][n] = Append(chan[s][n], message)
         /\ message.op # "ELECTION" => SameVotes(s, n)
<1>1. \/ chan'[s][n] = chan[s][n]
      \/ s = k /\ n \in receivers /\ chan'[s][n] = Append(chan[s][n], message)
  BY DEF Publish, TypeOK, NetworkOK
<1>2. ASSUME message.op # "ELECTION" PROVE SameVotes(s, n)
  <2>1. CASE chan'[s][n] = chan[s][n]
    BY <2>1 DEF SameVotes
  <2>2. CASE chan'[s][n] = Append(chan[s][n], message)
    <3> DEFINE q == chan[s][n]
               p == Append(q, message)
    <3>1. q \in Seq(Message)
      BY DEF TypeOK, NetworkOK
    <3>2. /\ Elections(p) = Elections(q)
          /\ \A v : Last(q, v) => Last(p, v)
          /\ \A i \in Elections(p) : p[i] = q[i]
      BY <1>2, <3>1, AppendElections
    <3>3. Votes(p) \subseteq Votes(q)
      BY <3>2 DEF Votes
    <3> HIDE DEF p
    <3>4. chan'[s][n] = p
      BY <2>2 DEF p
    <3> QED
      BY <3>2, <3>3, <3>4 DEF SameVotes
  <2> QED
    BY <1>1, <2>1, <2>2
<1> QED
  BY <1>1, <1>2

\* Of the steps of a node, only a draw adds a value to what is on the way, and only
\* fillElectionValue takes one.
LEMMA VotesStep ==
  ASSUME TypeOK, NEW k \in Node, Step(k), ~SendElectionValue(k), ~FillElectionValue(k),
         NEW s \in Node, NEW n \in Node
  PROVE  SameVotes(s, n)
<1> DEFINE P(message, receivers) ==
             /\ message \in Message /\ message.op # "ELECTION" /\ receivers \in SUBSET Node
             /\ Publish(k, message, receivers)
<1>1. \/ UNCHANGED chan
      \/ \E t \in Node : /\ chan[t][k] # <<>> /\ Consume(k, t)
                         /\ Head(chan[t][k]).op # "ELECTION"
      \/ \E message, receivers : P(message, receivers)
  <2>1. CASE /\ NotifyNodesAboutContribution(k)
             /\ Publish(k, [op |-> "INSPECTION", isContributing |-> own[k]], Node \ {k})
    <3>1. P([op |-> "INSPECTION", isContributing |-> own[k]], Node \ {k})
      BY <2>1 DEF TypeOK, ThreadsOK, Message
    <3> QED
      BY <3>1
  <2>2. CASE /\ TransferDataToValidator(k) /\ validator[k] # k /\ own[k]
             /\ Publish(k, [op |-> "UPLOADING", block |-> PendingBlock({k})], {validator[k]})
    <3>1. validator[k] \in Node
      BY <2>2 DEF TransferDataToValidator, At, TypeOK, ThreadsOK, Elected
    <3>2. PendingBlock({k}) \in Block
      BY DEF PendingBlock, Block, BlockOf
    <3>3. P([op |-> "UPLOADING", block |-> PendingBlock({k})], {validator[k]})
      BY <2>2, <3>1, <3>2 DEF Message
    <3> QED
      BY <3>3
  <2>3. CASE /\ Broadcast(k)
             /\ Publish(k, [op |-> "BROADCAST", block |-> broadcastBlock[k]], Node \ {k})
    <3>1. P([op |-> "BROADCAST", block |-> broadcastBlock[k]], Node \ {k})
      BY <2>3 DEF TypeOK, StoreOK, Message
    <3> QED
      BY <3>1
  <2> HIDE DEF P
  <2> QED
    BY <2>1, <2>2, <2>3, PublishStep
<1>2. CASE UNCHANGED chan
  BY <1>2 DEF SameVotes
<1>3. ASSUME NEW t \in Node, chan[t][k] # <<>>, Consume(k, t), Head(chan[t][k]).op # "ELECTION"
      PROVE  SameVotes(s, n)
  <2>1. chan'[s][n] = IF s = t /\ n = k THEN Tail(chan[s][n]) ELSE chan[s][n]
    BY <1>3 DEF Consume, TypeOK, NetworkOK
  <2>2. CASE chan'[s][n] = chan[s][n]
    BY <2>2 DEF SameVotes
  <2>3. CASE s = t /\ n = k /\ chan'[s][n] = Tail(chan[s][n])
    <3> DEFINE q == chan[s][n]
               p == Tail(q)
    <3>1. q \in Seq(Message) /\ q # <<>>
      BY <1>3, <2>3 DEF TypeOK, NetworkOK
    <3>2. Head(q).op # "ELECTION"
      BY <1>3, <2>3
    <3>3. /\ \A i \in Elections(p) : i + 1 \in Elections(q) /\ p[i] = q[i + 1]
          /\ Cardinality(Elections(p)) = Cardinality(Elections(q))
          /\ Elections(p) = {} => Elections(q) = {}
          /\ \A v : Last(q, v) => Last(p, v)
      BY <3>1, <3>2, TailElections
    <3> HIDE DEF p
    <3>4. Votes(p) \subseteq Votes(q)
      BY <3>3 DEF Votes
    <3>5. chan'[s][n] = p
      BY <2>3 DEF p
    <3> QED
      BY <3>3, <3>4, <3>5 DEF SameVotes
  <2> QED
    BY <2>1, <2>2, <2>3
<1>4. ASSUME NEW message, NEW receivers, P(message, receivers) PROVE SameVotes(s, n)
  BY <1>4, PublishVotes
<1> QED
  BY <1>1, <1>2, <1>3, <1>4

\* No node publishes to itself.
LEMMA LoopbackStep ==
  ASSUME TypeOK, \A n \in Node : chan[n][n] = <<>>, NEW k \in Node, Step(k), NEW n \in Node
  PROVE  chan'[n][n] = <<>>
<1>1. CASE UNCHANGED chan
  BY <1>1
<1>2. CASE \E t \in Node : chan[t][k] # <<>> /\ Consume(k, t)
  BY <1>2 DEF Consume, TypeOK, NetworkOK
<1>3. ASSUME NEW message, NEW receivers, k \notin receivers, Publish(k, message, receivers)
      PROVE  chan'[n][n] = <<>>
  BY <1>3 DEF Publish, TypeOK, NetworkOK
<1> QED
  BY <1>1, <1>2, <1>3, PublishStep, Zenon

\* Which handler a node leaves tells which step it takes.
LEMMA LeaveStep ==
  ASSUME TypeOK, NEW k \in Node, Step(k), pc'[k] # pc[k]
  PROVE  /\ pc[k] = "elect" => SendElectionValue(k)
         /\ pc[k] = "purge" => RemoveDuplicates(k)
         /\ pc[k] = "nominate" => NominateValidator(k)
         /\ pc[k] = "store" => SaveCompleteBlock(k)
         /\ pc[k] \in {"electLoop", "electCv", "electRetest"} =>
              TestElectionLoop(k) \/ WaitForNodesElection(k) \/ RetestElectionLoop(k)
<1>1. SlotThread(k)
  BY Zenon DEF Step, EventLoop, AddContext, SetContribution, FillElectionValue,
     AddContributorBlock, AddBroadcastBlock, CheckCondition, StoreSynchronized, NotifyAll,
     Timer, InitConditions, InitContexts, SpuriousWake
<1>2. ~Park(k)
  BY DEF Park
<1>3. CASE pc[k] \in {"elect", "purge", "nominate", "store"}
  BY <1>1, <1>2, <1>3 DEF SlotThread, SavePendingBlock, NotifyNodesAboutContribution,
     WaitForNodesInspection, RemovePendingBlockIfNoOneIsContributing, SendElectionValue,
     TestElectionLoop, WaitForNodesElection, RemoveDuplicates, RetestElectionLoop,
     NominateValidator, TransferDataToValidator, WaitForContributorsData, Broadcast,
     WaitForBroadcast, WaitForBroadcastCv, SaveCompleteBlock, PublishBlock, At
<1>4. CASE pc[k] \in {"electLoop", "electCv", "electRetest"}
  BY <1>1, <1>2, <1>4 DEF SlotThread, SavePendingBlock, NotifyNodesAboutContribution,
     WaitForNodesInspection, RemovePendingBlockIfNoOneIsContributing, SendElectionValue,
     TestElectionLoop, WaitForNodesElection, RemoveDuplicates, RetestElectionLoop,
     NominateValidator, TransferDataToValidator, WaitForContributorsData, Broadcast,
     WaitForBroadcast, WaitForBroadcastCv, SaveCompleteBlock, PublishBlock, At
<1> QED
  BY <1>3, <1>4

\* A node comes to the purge or the nomination with a value of everybody, and to the
\* nomination with one that is its own alone.
LEMMA TestStep ==
  ASSUME TypeOK, NEW k \in Node, Step(k), known[k] = Node, pc'[k] # pc[k],
         pc'[k] \in {"purge", "nominate"}
  PROVE  /\ \A a \in Node : value'[k][a] # 0
         /\ pc'[k] = "nominate" => \A a \in Node \ {k} : value'[k][a] # value'[k][k]
<1>1. pc[k] \in {"electLoop", "electCv", "electRetest"}
  BY MoveStep DEF Moves, PlainMoves
<1>2. TestElectionLoop(k) \/ WaitForNodesElection(k) \/ RetestElectionLoop(k)
  BY <1>1, LeaveStep
<1>3. UNCHANGED value /\ Present(k) /\ (pc'[k] = "nominate" => Unique(k))
  <2>1. CASE TestElectionLoop(k)
    BY <2>1 DEF TestElectionLoop, Goto, TypeOK, ThreadsOK
  <2>2. CASE WaitForNodesElection(k)
    BY <2>2 DEF WaitForNodesElection, CvWait, Goto, TypeOK, ThreadsOK
  <2>3. CASE RetestElectionLoop(k)
    BY <2>3 DEF RetestElectionLoop, Goto, TypeOK, ThreadsOK
  <2> QED
    BY <1>2, <2>1, <2>2, <2>3
<1>4. \A a \in Node : value[k][a] # 0
  BY <1>3 DEF Present, AreAllElectionValuesPresent
<1>5. pc'[k] = "nominate" => \A a \in Node \ {k} : value[k][a] # value[k][k]
  BY <1>3 DEF Unique, IsElectionValueUnique
<1> QED
  BY <1>3, <1>4, <1>5

\* A step that keeps what n has of s, or takes it for one of the rounds it has purged.
LEMMA FollowsKept ==
  ASSUME NEW n \in Node, NEW s \in Node, Follows(n, s), SameVotes(s, n),
         purges'[n] + Held(n, s)' = purges[n] + Held(n, s), Rounds(s)' = Rounds(s),
         value'[n][s] \in {value[n][s], 0}, value'[s][s] \in {value[s][s], 0},
         pc'[n] = "nominate" =>
           \/ value'[n][s] # value'[n][n]
           \/ /\ pc[n] = "nominate"
              /\ value'[n][s] = value[n][s] /\ value'[n][n] = value[n][n]
  PROVE  Follows(n, s)'
<1>1. Heard(n, s)' = Heard(n, s) /\ Full(n, s)' = Full(n, s)
  BY DEF Heard, Full, SameVotes
<1>2. Newest(n, s)'
  BY <1>1, Zenon DEF Newest, SameVotes, Follows
<1>3. Tested(n, s)'
  BY <1>1 DEF Tested, Follows
<1> QED
  BY <1>1, <1>2, <1>3 DEF Follows

\* A step after which m may choose no more than before.
LEMMA VerdictKept ==
  ASSUME NEW n \in Node, NEW m \in Node, Verdict(n, m),
         Bound(n, m)' =>
           /\ Bound(n, m) /\ validator'[n] = validator[n] /\ value'[m][m] = value[m][m]
           /\ Offers(n, m)' \subseteq Offers(n, m)
  PROVE  Verdict(n, m)'
<1> SUFFICES ASSUME Bound(n, m)', NEW x \in Offers(n, m)'
             PROVE  /\ x # value'[m][m]
                    /\ validator'[n] \in MarkValidator(Node, Pair(n, m, x)')
  BY DEF Verdict
<1>1. Pair(n, m, x)' = Pair(n, m, x)
  BY DEF Pair
<1> QED
  BY <1>1 DEF Verdict

\* What the invariant of the election says of a later slot.
LEMMA ElectionFacts ==
  ASSUME ElectionInv, LaterSlot
  PROVE  /\ TypeOK /\ \A n \in Node : known[n] = Node
         /\ \A n \in Node : Seen(n)
         /\ \A n \in Node : \A s \in Node \ {n} : Follows(n, s)
         /\ \A n \in Node : chan[n][n] = <<>>
         /\ \A n \in Node : /\ purges[n] \in Nat /\ value[n] \in [Node -> Nat]
                            /\ pc[n] \in Handlers
  BY DEF ElectionInv, RemovalInv, KnowsAll, RoundInv, TypeOK, NetworkOK, StoreOK, ThreadsOK

\* The steps that neither draw, take, purge, use nor forget a value.
LEMMA OtherKeepsRounds ==
  ASSUME ElectionInv, LaterSlot, NEW k \in Node, Step(k), ~SendElectionValue(k),
         ~FillElectionValue(k), ~RemoveDuplicates(k), ~NominateValidator(k),
         ~SaveCompleteBlock(k)
  PROVE  RoundInv'
<1>0. TypeOK /\ known[k] = Node
  BY ElectionFacts
<1>1. UNCHANGED <<value, purges, validator>>
  BY <1>0, ValueStep, PurgeStep, MarkStep
<1>2. \A m \in Node \ {k} : pc'[m] = pc[m]
  BY <1>0, Elsewhere
<1>3. \/ pc'[k] = pc[k]
      \/ <<pc[k], pc'[k]>> \in Moves /\ pc[k] \notin {"elect", "purge", "nominate", "store"}
  BY <1>0, MoveStep, LeaveStep
<1>4. \A m \in Node : Rounds(m)' = Rounds(m) /\ Cleared(m)' = Cleared(m)
  <2> TAKE m \in Node
  <2>1. CASE pc'[m] = pc[m]
    BY <1>1, <2>1 DEF Rounds, Cleared
  <2>2. CASE m = k /\ pc'[m] # pc[m]
    <3>1. /\ pc'[k] \in BeforeElection \cup {"removed"}
                <=> pc[k] \in BeforeElection \cup {"removed"}
          /\ pc'[k] \in {"publish", "done"} <=> pc[k] \in {"publish", "done"}
      BY <1>3, <2>2 DEF Moves, PlainMoves, BeforeElection
    <3> QED
      BY <1>1, <2>2, <3>1 DEF Rounds, Cleared
  <2> QED
    BY <1>2, <2>1, <2>2
<1>5. \A m \in Node : Seen(m)'
  <2> TAKE m \in Node
  <2>1. CASE pc'[m] = pc[m]
    BY <1>1, <2>1, ElectionFacts DEF Seen
  <2>2. CASE m = k /\ pc'[m] # pc[m]
    <3>1. CASE pc'[k] \in {"purge", "nominate"}
      <4>1. pc[k] \notin {"store", "publish", "done"} \cup Elected
        BY <1>3, <2>2, <3>1 DEF Moves, PlainMoves, Elected
      <4> QED
        BY <1>0, <1>1, <2>2, <3>1, <4>1, TestStep, ElectionFacts DEF Seen
    <3>2. CASE pc'[k] \notin {"purge", "nominate"}
      <4>1. /\ pc'[k] \in {"store"} \cup Elected => pc[k] \in {"store"} \cup Elected
            /\ pc[k] \in {"store", "publish", "done"} \cup Elected =>
                 pc'[k] \in {"store", "publish", "done"} \cup Elected
        BY <1>3, <2>2, <3>2 DEF Moves, PlainMoves, Elected
      <4> QED
        BY <1>1, <2>2, <3>2, <4>1, ElectionFacts DEF Seen
    <3> QED
      BY <3>1, <3>2
  <2> QED
    BY <1>2, <2>1, <2>2
<1>6. \A s, m \in Node : SameVotes(s, m)
  BY <1>0, VotesStep
<1>7. ASSUME NEW n \in Node, NEW s \in Node \ {n} PROVE Follows(n, s)'
  <2>1. Held(n, s)' = Held(n, s)
    BY <1>1, <1>4 DEF Held
  <2>2. pc'[n] = "nominate" => pc[n] = "nominate" \/ value'[n][s] # value'[n][n]
    BY <1>0, <1>2, TestStep
  <2> QED
    BY <1>1, <1>4, <1>6, <2>1, <2>2, ElectionFacts, FollowsKept
<1>8. ASSUME NEW n \in Node, NEW m \in Node \ {n}, Verdict(n, m) PROVE Verdict(n, m)'
  <2>1. Full(m, n)' = Full(m, n)
    BY <1>1, <1>4, <1>6 DEF Full, Heard, Held, SameVotes
  <2>2. Offers(n, m)' \subseteq Offers(n, m)
    BY <1>1, <1>6 DEF Offers, SameVotes
  <2>3. Bound(n, m)' => Bound(n, m)
    BY <1>1, <2>1 DEF Bound
  <2> QED
    BY <1>1, <1>8, <2>2, <2>3, VerdictKept
<1>9. OneValidator => OneValidator'
  BY <1>1 DEF OneValidator
<1> QED
  BY <1>0, <1>5, <1>7, <1>8, <1>9, LoopbackStep DEF RoundInv, ElectionInv, LaterSlot

\* removeElectionValueDuplicates and clearSlot forget values that everybody's rounds are
\* counted by already: the one in the rounds that are purged, the other with the slot.
LEMMA ForgetKeepsRounds ==
  ASSUME ElectionInv, LaterSlot, NEW k \in Node, Step(k),
         RemoveDuplicates(k) \/ SaveCompleteBlock(k)
  PROVE  RoundInv'
<1>0. /\ TypeOK /\ known[k] = Node /\ Seen(k) /\ purges[k] \in Nat
      /\ pc \in [Node -> Handlers] /\ value[k] \in [Node -> Nat]
      /\ value \in [Node -> [Node -> Nat]] /\ purges \in [Node -> Nat]
  BY ElectionFacts DEF TypeOK, ThreadsOK, StoreOK, NetworkOK
<1>1. /\ UNCHANGED <<chan, validator>>
      /\ value' = [value EXCEPT ![k] = [a \in Node |-> 0]]
      /\ \/ /\ pc[k] = "purge" /\ pc' = [pc EXCEPT ![k] = "elect"]
            /\ purges' = [purges EXCEPT ![k] = purges[k] + 1]
         \/ /\ pc[k] = "store" /\ pc' = [pc EXCEPT ![k] = "publish"]
            /\ UNCHANGED purges
  <2>1. CASE RemoveDuplicates(k)
    <3>1. RemoveElectionValueDuplicates(known[k], value[k]) = [a \in Node |-> 0]
      BY <1>0 DEF RemoveElectionValueDuplicates
    <3> QED
      BY <1>0, <2>1, <3>1 DEF RemoveDuplicates, At, Goto
  <2>2. CASE SaveCompleteBlock(k)
    BY <2>2 DEF SaveCompleteBlock, At, Goto
  <2> QED
    BY <2>1, <2>2
<1>2. \A m \in Node \ {k} : /\ pc'[m] = pc[m] /\ value'[m] = value[m]
                            /\ purges'[m] = purges[m]
  BY <1>0, <1>1
<1>3. \/ pc'[k] = "elect" /\ purges'[k] = purges[k] + 1
      \/ pc'[k] = "publish" /\ purges'[k] = purges[k]
  BY <1>0, <1>1
<1>4. \A a \in Node : value'[k][a] = 0 /\ value[k][a] # 0
  BY <1>0, <1>1 DEF Seen
<1>5. \A m \in Node : Rounds(m)' = Rounds(m)
  <2> TAKE m \in Node
  <2>1. CASE m = k
    BY <1>0, <1>1, <2>1 DEF Rounds, BeforeElection
  <2> QED
    BY <1>2, <2>1 DEF Rounds
<1>6. \A m \in Node : Seen(m)'
  <2> TAKE m \in Node
  <2>1. CASE m = k
    BY <1>0, <1>1, <1>3, <2>1 DEF Seen, Elected
  <2> QED
    BY <1>1, <1>2, <2>1, ElectionFacts DEF Seen
<1>7. \A s, m \in Node : SameVotes(s, m)
  BY <1>1 DEF SameVotes
<1>8. ASSUME NEW n \in Node, NEW s \in Node \ {n} PROVE Follows(n, s)'
  <2>1. purges'[n] + Held(n, s)' = purges[n] + Held(n, s)
    <3>1. CASE n = k
      BY <1>0, <1>1, <1>3, <1>4, <3>1 DEF Held, Cleared
    <3>2. CASE n # k
      BY <1>2, <3>2 DEF Held, Cleared
    <3> QED
      BY <3>1, <3>2
  <2>2. value'[n][s] \in {value[n][s], 0} /\ value'[s][s] \in {value[s][s], 0}
    BY <1>2, <1>4
  <2>3. pc'[n] = "nominate" => /\ pc[n] = "nominate"
                               /\ value'[n][s] = value[n][s] /\ value'[n][n] = value[n][n]
    BY <1>2, <1>3
  <2> QED
    BY <1>5, <1>7, <2>1, <2>2, <2>3, ElectionFacts, FollowsKept
<1>9. ASSUME NEW n \in Node, NEW m \in Node \ {n}, Verdict(n, m) PROVE Verdict(n, m)'
  <2>1. CASE m = k
    BY <1>4, <2>1 DEF Verdict, Bound
  <2>2. CASE m # k
    <3>1. validator'[n] # NoNode => purges'[n] = purges[n]
      BY <1>0, <1>1, <1>2, ElectionFacts DEF Seen, Elected
    <3>2. Full(m, n)' = Full(m, n)
      BY <1>1, <1>2, <1>5, <2>2 DEF Full, Heard, Held, Cleared
    <3>3. Bound(n, m)' => Bound(n, m)
      BY <1>1, <1>2, <2>2, <3>1, <3>2 DEF Bound
    <3>4. Offers(n, m)' \subseteq Offers(n, m)
      BY <1>1, <1>2, <2>2 DEF Offers
    <3> QED
      BY <1>1, <1>2, <1>9, <2>2, <3>3, <3>4, VerdictKept
  <2> QED
    BY <2>1, <2>2
<1>10. OneValidator => OneValidator'
  BY <1>1 DEF OneValidator
<1> QED
  BY <1>0, <1>1, <1>6, <1>8, <1>9, <1>10 DEF RoundInv, ElectionInv, LaterSlot

\* fillElectionValue takes a value that was on the way: what n has heard of stays the same,
\* or n has lost count of s by overwriting the value it had.
LEMMA FillKeepsRounds ==
  ASSUME ElectionInv, LaterSlot, NEW k \in Node, Step(k), FillElectionValue(k)
  PROVE  RoundInv'
<1>0. /\ TypeOK /\ pc \in [Node -> Handlers] /\ value \in [Node -> [Node -> Nat]]
      /\ purges \in [Node -> Nat] /\ chan \in [Node -> [Node -> Seq(Message)]]
  BY ElectionFacts DEF TypeOK, ThreadsOK, StoreOK, NetworkOK
<1>1. PICK t \in Node :
        /\ chan[t][k] # <<>> /\ Head(chan[t][k]).op = "ELECTION"
        /\ value' = [value EXCEPT ![k][t] = Head(chan[t][k]).value]
        /\ chan' = [chan EXCEPT ![t][k] = Tail(chan[t][k])]
        /\ UNCHANGED <<pc, purges, validator>>
  BY <1>0 DEF FillElectionValue, Arrived, Consume
<1> DEFINE q == chan[t][k]
           p == Tail(q)
<1>2. t # k
  BY <1>1, ElectionFacts
<1>3. q \in Seq(Message) /\ q # <<>> /\ Head(q).op = "ELECTION" /\ Head(q) \in Message
  BY <1>0, <1>1
<1>4. /\ \A i \in Elections(p) : i + 1 \in Elections(q) /\ p[i] = q[i + 1]
      /\ Cardinality(Elections(p)) \in Nat
      /\ Cardinality(Elections(q)) = Cardinality(Elections(p)) + 1
      /\ \A v : Last(q, v) => Last(p, v)
      /\ Elections(p) = {} => \A v : Last(q, v) => Head(q).value = v
      /\ 1 \in Elections(q) /\ q[1] = Head(q)
  BY <1>3, TailElections
<1>5. Head(q).value \in Nat \ {0}
  BY <1>3 DEF Message
<1>6. Votes(p) \subseteq Votes(q) /\ Head(q).value \in Votes(q)
  <2> HIDE DEF p, q
  <2> QED
    BY <1>4 DEF Votes
<1>7. /\ chan'[t][k] = p /\ value'[k][t] = Head(q).value
      /\ \A s, m \in Node : s # t \/ m # k => chan'[s][m] = chan[s][m]
      /\ \A m, s \in Node : s # t \/ m # k => value'[m][s] = value[m][s]
  BY <1>0, <1>1
<1> HIDE DEF p, q
<1>8. \A m \in Node : Rounds(m)' = Rounds(m) /\ Cleared(m)' = Cleared(m)
  BY <1>1 DEF Rounds, Cleared
<1>9. \A m \in Node : Seen(m)'
  BY <1>1, <1>5, <1>7, ElectionFacts DEF Seen
<1>10. /\ Heard(k, t)' <= Rounds(t)'
       /\ Full(k, t)' => Full(k, t) /\ value[k][t] = 0 /\ ~Cleared(k)
  <2>1. Follows(k, t) /\ purges[k] \in Nat /\ Rounds(t) \in Nat
    BY <1>2, ElectionFacts DEF Rounds
  <2>2. Heard(k, t) <= Rounds(t) /\ Rounds(t)' = Rounds(t)
    BY <1>8, <2>1 DEF Follows
  <2>3. Heard(k, t)' = purges[k] + 1 + Cardinality(Elections(p))
    BY <1>1, <1>5, <1>7 DEF Heard, Held
  <2>4. Heard(k, t) = purges[k] + Held(k, t) + Cardinality(Elections(p)) + 1
    BY <1>4, <2>1 DEF Heard, Held, q
  <2>5. \/ Held(k, t) = 1
        \/ Held(k, t) = 0 /\ value[k][t] = 0 /\ ~Cleared(k)
    BY DEF Held
  <2> QED
    BY <1>4, <2>1, <2>2, <2>3, <2>4, <2>5 DEF Full
<1>11. Follows(k, t)'
  <2>1. Follows(k, t) /\ Seen(k)
    BY <1>2, ElectionFacts
  <2>2. value'[t][t] = value[t][t]
    BY <1>2, <1>7
  <2>3. Newest(k, t)'
    <3> SUFFICES ASSUME Full(k, t)', value'[t][t] # 0
                 PROVE  /\ Elections(p) = {} => Head(q).value = value[t][t]
                        /\ Last(p, value[t][t])
      BY <1>7, <2>2 DEF Newest
    <3>1. Last(q, value[t][t])
      BY <1>10, <2>1, <2>2 DEF Follows, Newest, q
    <3> QED
      BY <1>4, <3>1
  <2>4. Tested(k, t)'
    BY <1>1, <1>10, <2>1 DEF Tested, Seen
  <2> QED
    BY <1>10, <2>3, <2>4 DEF Follows
<1>12. ASSUME NEW n \in Node, NEW s \in Node \ {n}, n # k \/ s # t PROVE Follows(n, s)'
  <2>1. SameVotes(s, n)
    BY <1>7, <1>12 DEF SameVotes
  <2>2. /\ value'[n][s] = value[n][s] /\ value'[s][s] = value[s][s]
        /\ value'[n][n] = value[n][n]
    BY <1>2, <1>7, <1>12
  <2>3. Held(n, s)' = Held(n, s)
    BY <1>8, <2>2 DEF Held
  <2> QED
    BY <1>1, <1>8, <2>1, <2>2, <2>3, ElectionFacts, FollowsKept
<1>13. ASSUME NEW n \in Node, NEW m \in Node \ {n}, Verdict(n, m) PROVE Verdict(n, m)'
  <2>1. value'[m][m] = value[m][m]
    BY <1>2, <1>7
  <2>2. CASE n = t /\ m = k
    <3>1. Bound(n, m)' => Bound(n, m)
      BY <1>1, <1>10, <2>1, <2>2 DEF Bound
    <3>2. Offers(n, m)' \subseteq Offers(n, m)
      BY <1>6, <1>7, <2>2 DEF Offers, q
    <3> QED
      BY <1>1, <1>13, <2>1, <3>1, <3>2, VerdictKept
  <2>3. CASE n # t \/ m # k
    <3>1. chan'[n][m] = chan[n][m] /\ value'[m][n] = value[m][n]
      BY <1>7, <2>3
    <3>2. Full(m, n)' = Full(m, n)
      BY <1>1, <1>8, <3>1 DEF Full, Heard, Held
    <3>3. Bound(n, m)' => Bound(n, m)
      BY <1>1, <2>1, <3>2 DEF Bound
    <3>4. Offers(n, m)' \subseteq Offers(n, m)
      BY <3>1 DEF Offers
    <3> QED
      BY <1>1, <1>13, <2>1, <3>3, <3>4, VerdictKept
  <2> QED
    BY <2>2, <2>3
<1>14. \A n \in Node : chan'[n][n] = <<>>
  BY <1>2, <1>7, ElectionFacts
<1>15. OneValidator => OneValidator'
  BY <1>1 DEF OneValidator
<1> QED
  BY <1>9, <1>11, <1>12, <1>13, <1>14, <1>15 DEF RoundInv, ElectionInv, LaterSlot

\* A draw begins a round: who hears of it is as far as before, and who does not has lost
\* count.  Nobody draws again in the round in which another node has marked a validator.
LEMMA DrawKeepsRounds ==
  ASSUME ElectionInv, LaterSlot, NEW k \in Node, Step(k), SendElectionValue(k)
  PROVE  RoundInv'
<1>0. /\ TypeOK /\ pc \in [Node -> Handlers] /\ value \in [Node -> [Node -> Nat]]
      /\ purges \in [Node -> Nat] /\ chan \in [Node -> [Node -> Seq(Message)]]
  BY ElectionFacts DEF TypeOK, ThreadsOK, StoreOK, NetworkOK
<1>1. PICK v \in Nat \ {0} :
        /\ pc[k] = "elect" /\ pc' = [pc EXCEPT ![k] = "electLoop"]
        /\ value' = [value EXCEPT ![k][k] = v]
        /\ UNCHANGED <<purges, validator>>
        /\ Publish(k, [op |-> "ELECTION", value |-> v], Node \ {k})
  BY DrawsAssumption DEF SendElectionValue, At, Goto
<1> DEFINE message == [op |-> "ELECTION", value |-> v]
<1>2. message \in Message
  BY DEF Message
<1>3. /\ \A m \in Node \ {k} : pc'[m] = pc[m] /\ value'[m] = value[m]
      /\ \A s \in Node \ {k} : value'[k][s] = value[k][s]
      /\ pc'[k] = "electLoop" /\ value'[k][k] = v
  BY <1>0, <1>1
<1>4. \A s, n \in Node : \/ chan'[s][n] = chan[s][n]
                         \/ /\ s = k /\ n # k
                            /\ chan'[s][n] = Append(chan[s][n], message)
  <2> TAKE s, n \in Node
  <2> DEFINE others == Node \ {k}
  <2>1. Publish(k, message, others)
    BY <1>1
  <2> HIDE DEF message, others
  <2>2. \/ chan'[s][n] = chan[s][n]
        \/ s = k /\ n \in others /\ chan'[s][n] = Append(chan[s][n], message)
    BY <1>0, <2>1 DEF Publish
  <2> QED
    BY <2>2 DEF others
<1>5. \A m \in Node : Rounds(m)' = (IF m = k THEN Rounds(m) + 1 ELSE Rounds(m))
  BY <1>0, <1>1, <1>3 DEF Rounds, BeforeElection
<1>6. \A n \in Node : Cleared(n)' = Cleared(n)
  BY <1>0, <1>1, <1>3 DEF Cleared
<1>7. \A n \in Node : Seen(n)'
  <2> TAKE n \in Node
  <2>1. CASE n = k
    BY <1>1, <1>3, <2>1, ElectionFacts DEF Seen, Elected
  <2> QED
    BY <1>1, <1>3, <2>1, ElectionFacts DEF Seen
<1>8. ASSUME NEW n \in Node, NEW s \in Node \ {n} PROVE Held(n, s)' = Held(n, s)
  BY <1>3, <1>6, <1>8 DEF Held
<1>9. ASSUME NEW n \in Node, NEW s \in Node \ {n}, s # k PROVE Follows(n, s)'
  <2>1. SameVotes(s, n)
    BY <1>4, <1>9 DEF SameVotes
  <2>2. value'[s][s] = value[s][s] /\ value'[n][s] = value[n][s]
    BY <1>3, <1>9
  <2>3. pc'[n] = "nominate" => pc[n] = "nominate" /\ value'[n][n] = value[n][n]
    BY <1>3
  <2> QED
    BY <1>1, <1>5, <1>8, <1>9, <2>1, <2>2, <2>3, ElectionFacts, FollowsKept
<1>10. ASSUME NEW n \in Node \ {k} PROVE Follows(n, k)'
  <2> DEFINE q == chan[k][n]
  <2>1. /\ Follows(n, k) /\ Held(n, k)' = Held(n, k) /\ q \in Seq(Message)
        /\ Held(n, k) \in Nat /\ purges[n] \in Nat /\ Rounds(k) \in Nat
    BY <1>0, <1>8, ElectionFacts DEF Held, Rounds
  <2>2. Cardinality(Elections(q)) \in Nat
    BY <1>2, <2>1, AppendElections
  <2>3. pc'[n] = pc[n] /\ value'[n] = value[n] /\ purges'[n] = purges[n]
    BY <1>1, <1>3
  <2>4. CASE chan'[k][n] = q
    <3>1. Heard(n, k)' = Heard(n, k) /\ Heard(n, k) \in Nat /\ Heard(n, k) <= Rounds(k)
      BY <2>1, <2>2, <2>3, <2>4 DEF Heard, Follows
    <3>2. Heard(n, k)' <= Rounds(k)' /\ ~Full(n, k)'
      BY <1>5, <2>1, <3>1 DEF Full
    <3> QED
      BY <3>2 DEF Follows, Newest, Tested
  <2>5. CASE chan'[k][n] = Append(q, message)
    <3> DEFINE p == Append(q, message)
    <3>1. /\ Cardinality(Elections(p)) = Cardinality(Elections(q)) + 1
          /\ Elections(p) # {} /\ Last(p, v)
      BY <1>2, <2>1, AppendElections
    <3> HIDE DEF p, q
    <3>2. chan'[k][n] = p
      BY <2>5 DEF p
    <3>3. Heard(n, k)' = Heard(n, k) + 1
      <4>1. Heard(n, k)' = purges[n] + Held(n, k) + Cardinality(Elections(p))
        BY <2>1, <2>3, <3>2 DEF Heard
      <4>2. Heard(n, k) = purges[n] + Held(n, k) + Cardinality(Elections(q))
        BY DEF Heard, q
      <4> QED
        BY <2>1, <2>2, <3>1, <4>1, <4>2
    <3>4. Heard(n, k) \in Nat
      BY <2>1, <2>2 DEF Heard, q
    <3>5. Heard(n, k)' <= Rounds(k)' /\ (Full(n, k)' => Full(n, k))
      BY <1>5, <2>1, <3>3, <3>4 DEF Full, Follows
    <3>6. Newest(n, k)'
      BY <1>3, <3>1, <3>2 DEF Newest
    <3>7. Tested(n, k)'
      BY <2>1, <2>3, <3>5 DEF Tested, Follows
    <3> QED
      BY <3>5, <3>6, <3>7 DEF Follows
  <2> QED
    BY <1>4, <2>4, <2>5
<1>11. ASSUME NEW n \in Node, NEW m \in Node \ {n}, Verdict(n, m) PROVE Verdict(n, m)'
  <2>1. CASE n = k
    <3>1. validator'[n] = NoNode
      BY <1>1, <2>1, ElectionFacts DEF Seen, Elected
    <3> QED
      BY <3>1 DEF Verdict, Bound
  <2>2. CASE m = k
    <3>1. ASSUME validator[n] # NoNode, purges[n] = purges[m] PROVE FALSE
      <4>1. Held(n, m) = 1
        BY <3>1, ElectionFacts DEF Seen, Held, Cleared
      <4>2. Follows(n, m) /\ Rounds(m) = purges[m] /\ purges[n] \in Nat /\ purges[m] \in Nat
        BY <1>1, <2>2, ElectionFacts DEF Rounds, BeforeElection
      <4>3. Cardinality(Elections(chan[m][n])) \in Nat
        <5>1. chan[m][n] \in Seq(Message)
          BY <1>0
        <5> QED
          BY <1>2, <5>1, AppendElections
      <4> QED
        BY <3>1, <4>1, <4>2, <4>3 DEF Follows, Heard
    <3> QED
      BY <1>1, <3>1 DEF Verdict, Bound
  <2>3. CASE n # k /\ m # k
    <3>1. chan'[n][m] = chan[n][m] /\ value'[m] = value[m] /\ Held(m, n)' = Held(m, n)
      BY <1>3, <1>4, <1>8, <2>3
    <3>2. Full(m, n)' = Full(m, n)
      BY <1>1, <1>5, <2>3, <3>1 DEF Full, Heard
    <3>3. Bound(n, m)' => Bound(n, m)
      BY <1>1, <3>1, <3>2 DEF Bound
    <3>4. Offers(n, m)' \subseteq Offers(n, m)
      BY <3>1 DEF Offers
    <3> QED
      BY <1>1, <1>11, <3>1, <3>3, <3>4, VerdictKept
  <2> QED
    BY <2>1, <2>2, <2>3
<1>12. \A n \in Node : chan'[n][n] = <<>>
  BY <1>4, ElectionFacts
<1>13. OneValidator => OneValidator'
  BY <1>1 DEF OneValidator
<1> QED
  BY <1>7, <1>9, <1>10, <1>11, <1>12, <1>13 DEF RoundInv, ElectionInv, LaterSlot

\* Queues with no election value on the way, and with one.
LEMMA FewElections ==
  ASSUME NEW q \in Seq(Message)
  PROVE  /\ Cardinality(Elections(q)) \in Nat
         /\ Cardinality(Elections(q)) = 0 => Elections(q) = {}
         /\ Cardinality(Elections(q)) = 1 => \A v : Last(q, v) => \A x \in Votes(q) : x = v
<1>1. IsFiniteSet(Elections(q)) /\ Elections(q) \subseteq Nat
  <2>1. DOMAIN q = 1..Len(q) /\ Len(q) \in Nat
    OBVIOUS
  <2>2. IsFiniteSet(1..Len(q))
    BY <2>1, FS_Interval
  <2> QED
    BY <2>1, <2>2, FS_Subset DEF Elections
<1>2. ASSUME Cardinality(Elections(q)) = 1, NEW v, Last(q, v), NEW x \in Votes(q) PROVE x = v
  <2>1. PICK i : Elections(q) = {i}
    BY <1>1, <1>2, FS_Singleton
  <2>2. q[i].value = v
    BY <1>1, <1>2, <2>1 DEF Last
  <2> QED
    BY <1>2, <2>1, <2>2 DEF Votes
<1> QED
  BY <1>1, <1>2, FS_CardinalityType, FS_EmptySet

\* Two nodes are a node and another one.
LEMMA TheOther ==
  ASSUME Cardinality(Node) = 2, NEW k \in Node
  PROVE  \E m \in Node \ {k} : Node = {k, m}
<1>1. IsFiniteSet(Node \ {k}) /\ Cardinality(Node \ {k}) = 1
  BY NodeAssumption, FS_RemoveElement
<1>2. PICK m : Node \ {k} = {m}
  BY <1>1, FS_Singleton
<1> QED
  BY <1>2

\* Of two different values one wins.
LEMMA OneOfTwo ==
  ASSUME NEW k \in Node, NEW m \in Node, Node = {k, m}, NEW f \in [Node -> Nat], f[k] # f[m],
         NEW x \in MarkValidator(Node, f), NEW y \in MarkValidator(Node, f)
  PROVE  x = y
<1>1. x \in Node /\ y \in Node
  BY MarkType
<1>2. f[x] <= f[y] /\ f[y] <= f[x]
  BY <1>1 DEF MarkValidator
<1>3. f[x] = f[y]
  BY <1>1, <1>2
<1> QED
  BY <1>1, <1>3

\* The nomination.  A node that is counted to have heard of more rounds than there were would
\* break the count, so two nodes that are both past the test are in the same round, and each
\* decides by the values both of them have.
LEMMA NominateKeepsRounds ==
  ASSUME ElectionInv, LaterSlot, NEW k \in Node, Step(k), NominateValidator(k)
  PROVE  RoundInv'
<1>0. /\ TypeOK /\ pc \in [Node -> Handlers] /\ value \in [Node -> [Node -> Nat]]
      /\ purges \in [Node -> Nat] /\ validator \in [Node -> Node \cup {NoNode}]
      /\ chan \in [Node -> [Node -> Seq(Message)]] /\ known[k] = Node
  BY ElectionFacts DEF TypeOK, ThreadsOK, StoreOK, NetworkOK
<1>1. PICK w \in MarkValidator(Node, value[k]) :
        /\ pc[k] = "nominate" /\ pc' = [pc EXCEPT ![k] = "relay"]
        /\ validator' = [validator EXCEPT ![k] = w]
        /\ UNCHANGED <<value, purges, chan>>
  BY <1>0 DEF NominateValidator, At, Goto
<1>2. /\ \A m \in Node \ {k} : pc'[m] = pc[m] /\ validator'[m] = validator[m]
      /\ pc'[k] = "relay" /\ validator'[k] = w
  BY <1>0, <1>1
<1>3. w \in Node /\ w # NoNode
  BY MarkType, NodeAssumption
<1>4. (\A a \in Node : value[k][a] # 0) /\ validator[k] = NoNode
  BY <1>1, ElectionFacts DEF Seen, Elected
<1>5. \A n \in Node : Rounds(n)' = Rounds(n) /\ Cleared(n)' = Cleared(n)
  <2> TAKE n \in Node
  <2>1. CASE n = k
    BY <1>1, <1>2, <2>1 DEF Rounds, Cleared, BeforeElection
  <2> QED
    BY <1>1, <1>2, <2>1 DEF Rounds, Cleared
<1>6. \A n \in Node : Seen(n)'
  <2> TAKE n \in Node
  <2>1. CASE n = k
    BY <1>1, <1>2, <1>4, <2>1 DEF Seen, Elected
  <2> QED
    BY <1>1, <1>2, <2>1, ElectionFacts DEF Seen
<1>7. \A n, s \in Node : SameVotes(s, n) /\ Held(n, s)' = Held(n, s)
  BY <1>1, <1>5 DEF SameVotes, Held
<1>8. ASSUME NEW n \in Node, NEW s \in Node \ {n} PROVE Follows(n, s)'
  <2>1. pc'[n] = "nominate" => pc[n] = "nominate"
    BY <1>2
  <2> QED
    BY <1>1, <1>5, <1>7, <2>1, ElectionFacts, FollowsKept
<1>9. \A n, s \in Node : Full(n, s)' = Full(n, s) /\ Offers(n, s)' = Offers(n, s)
  BY <1>1, <1>5, <1>7 DEF Full, Heard, Offers
<1>10. ASSUME Cardinality(Node) = 2
       PROVE  OneValidator' /\ \A n \in Node : \A m \in Node \ {n} : Verdict(n, m)'
  <2>0. OneValidator /\ \A n \in Node : \A m \in Node \ {n} : Verdict(n, m)
    BY <1>10 DEF ElectionInv, RoundInv
  <2>1. PICK m \in Node \ {k} : Node = {k, m}
    BY <1>10, TheOther
  <2>2. Follows(k, m) /\ Follows(m, k)
    BY <2>1, ElectionFacts
  <2> DEFINE out == Cardinality(Elections(chan[k][m]))
             in  == Cardinality(Elections(chan[m][k]))
  <2>3. in \in Nat /\ out \in Nat
    <3>1. chan[k][m] \in Seq(Message) /\ chan[m][k] \in Seq(Message)
      BY <1>0, <2>1
    <3> QED
      BY <3>1, FewElections
  <2>4. /\ Held(k, m) = 1 /\ Held(m, k) \in {0, 1}
        /\ Rounds(k) = purges[k] + 1 /\ Rounds(m) \in {purges[m], purges[m] + 1}
        /\ purges[k] \in Nat /\ purges[m] \in Nat
    BY <1>0, <1>1, <1>4, <2>1 DEF Held, Rounds, BeforeElection
  <2>5. purges[k] + 1 + in <= Rounds(m) /\ purges[m] + Held(m, k) + out <= purges[k] + 1
    BY <2>2, <2>4 DEF Follows, Heard
  <2>6. ASSUME Rounds(m) = purges[m] + 1, Held(m, k) = 1 \/ purges[k] = purges[m]
        PROVE  purges[k] = purges[m] /\ in = 0 /\ Full(k, m)
    <3>1. purges[k] = purges[m] /\ in = 0
      BY <2>3, <2>4, <2>5, <2>6
    <3> QED
      BY <2>4, <2>6, <3>1 DEF Full, Heard
  <2>7. ASSUME validator[m] # NoNode PROVE w = validator[m]
    <3>1. Held(m, k) = 1 /\ Rounds(m) = purges[m] + 1
      BY <2>1, <2>7, ElectionFacts DEF Seen, Held, Cleared, Rounds, BeforeElection, Elected
    <3>2. Bound(m, k)
      BY <1>4, <2>6, <2>7, <3>1 DEF Bound
    <3> DEFINE x == value[k][m]
    <3>3. x \in Offers(m, k)
      BY <1>4 DEF Offers
    <3>4. x # value[k][k] /\ validator[m] \in MarkValidator(Node, Pair(m, k, x))
      BY <2>0, <2>1, <3>2, <3>3 DEF Verdict
    <3>5. Pair(m, k, x) = value[k]
      BY <1>0, <2>1 DEF Pair
    <3> QED
      BY <1>0, <2>1, <3>4, <3>5, OneOfTwo
  <2>8. OneValidator'
    BY <1>2, <2>1, <2>7 DEF OneValidator
  <2>9. Verdict(k, m)'
    <3> SUFFICES ASSUME Bound(k, m)', NEW x \in Offers(k, m)
                 PROVE  x # value[m][m] /\ w \in MarkValidator(Node, Pair(k, m, x))
      BY <1>1, <1>2, <1>9 DEF Verdict, Pair
    <3>1. value[m][m] # 0 /\ purges[k] = purges[m] /\ Full(m, k)
      BY <1>1, <1>9, <2>1 DEF Bound
    <3>2. in = 0 /\ Full(k, m)
      <4>1. Rounds(m) = purges[m] + 1
        BY <2>3, <2>4, <2>5, <3>1
      <4> QED
        BY <2>6, <3>1, <4>1
    <3>3. value[k][m] = value[m][m]
      <4>1. Elections(chan[m][k]) = {}
        <5>1. chan[m][k] \in Seq(Message)
          BY <1>0, <2>1
        <5> QED
          BY <3>2, <5>1, FewElections
      <4> QED
        BY <1>4, <2>2, <3>1, <3>2, <4>1 DEF Follows, Newest
    <3>4. value[k][m] # value[k][k]
      BY <1>1, <2>2, <3>2 DEF Follows, Tested
    <3>5. x = value[k][k]
      <4> DEFINE q == chan[k][m]
      <4>1. /\ Elections(q) = {} /\ value[m][k] # 0 => value[m][k] = value[k][k]
            /\ Last(q, value[k][k])
        BY <1>4, <2>2, <3>1 DEF Follows, Newest
      <4>2. Held(m, k) + out = 1
        BY <2>3, <2>4, <3>1 DEF Full, Heard
      <4>3. q \in Seq(Message)
        BY <1>0, <2>1
      <4>4. CASE Held(m, k) = 1
        <5>1. Elections(q) = {}
          BY <2>3, <4>2, <4>3, <4>4, FewElections
        <5>2. x = value[m][k] /\ x # 0
          BY <5>1 DEF Offers, Votes
        <5> QED
          BY <4>1, <5>1, <5>2
      <4>5. CASE Held(m, k) = 0
        <5>1. out = 1
          BY <2>3, <4>2, <4>5
        <5>2. value[m][k] = 0
          BY <4>5 DEF Held
        <5>3. x \in Votes(q)
          BY <5>2 DEF Offers
        <5> QED
          BY <4>1, <4>3, <5>1, <5>3, FewElections
      <4> QED
        BY <2>4, <4>4, <4>5
    <3>6. Pair(k, m, x) = value[k]
      BY <1>0, <2>1, <3>3, <3>5 DEF Pair
    <3> QED
      BY <3>3, <3>4, <3>5, <3>6
  <2>10. Verdict(m, k)'
    BY <1>2, <1>3 DEF Verdict, Bound
  <2> QED
    BY <2>1, <2>8, <2>9, <2>10
<1> QED
  BY <1>1, <1>6, <1>8, <1>10, ElectionFacts DEF RoundInv, ElectionInv, LaterSlot

\* The invariant of the rounds holds at the start of a slot.
LEMMA ElectionInit == Init => ElectionInv
<1> SUFFICES ASSUME Init PROVE RoundInv
  BY RemovalInit DEF ElectionInv
<1>1. /\ \A n \in Node : chan[n][n] = <<>> /\ Seen(n)
      /\ OneValidator
  BY DEF Init, Seen, Elected, OneValidator
<1>2. ASSUME NEW n \in Node, NEW s \in Node \ {n} PROVE Follows(n, s)
  <2>1. Elections(chan[s][n]) = {}
    BY DEF Init, Elections
  <2>2. Held(n, s) = 0 /\ Rounds(s) = 0 /\ purges[n] = 0
    BY DEF Init, Held, Cleared, Rounds, BeforeElection
  <2>3. Heard(n, s) = 0
    BY <2>1, <2>2, FS_EmptySet DEF Heard
  <2> QED
    BY <2>2, <2>3 DEF Init, Follows, Newest, Tested
<1>3. \A n, m \in Node : Verdict(n, m)
  BY DEF Init, Verdict, Bound
<1> QED
  BY <1>1, <1>2, <1>3 DEF RoundInv

\* Every step keeps the invariant of the rounds.
LEMMA ElectionNext == ElectionInv /\ [Next]_vars => ElectionInv'
<1> SUFFICES ASSUME ElectionInv, [Next]_vars PROVE RoundInv'
  BY RemovalNext DEF ElectionInv
<1>1. CASE UNCHANGED vars
  <2>0. UNCHANGED <<pc, value, purges, validator, chan>>
    BY <1>1 DEF vars
  <2>1. \A n, s \in Node :
          /\ Seen(n)' = Seen(n) /\ Full(n, s)' = Full(n, s) /\ Heard(n, s)' = Heard(n, s)
          /\ Rounds(s)' = Rounds(s)
    BY <2>0 DEF Seen, Heard, Held, Cleared, Full, Rounds
  <2>2. \A n, s \in Node : Follows(n, s)' = Follows(n, s)
    BY <2>0, <2>1 DEF Follows, Newest, Tested
  <2>3. \A n, m \in Node : Verdict(n, m)' = Verdict(n, m)
    BY <2>0, <2>1 DEF Verdict, Bound, Offers, Pair
  <2>4. OneValidator' = OneValidator /\ LaterSlot' = LaterSlot
    BY <2>0 DEF OneValidator, LaterSlot
  <2> QED
    BY <2>0, <2>1, <2>2, <2>3, <2>4 DEF ElectionInv, RoundInv
<1>2. ASSUME NEW k \in Node, Step(k) PROVE RoundInv'
  <2>1. CASE LaterSlot
    BY <1>2, <2>1, OtherKeepsRounds, ForgetKeepsRounds, FillKeepsRounds, DrawKeepsRounds,
       NominateKeepsRounds
  <2>2. CASE ~LaterSlot
    BY <1>2, <2>2, LoopbackStep DEF ElectionInv, RemovalInv, RoundInv, LaterSlot
  <2> QED
    BY <2>1, <2>2
<1> QED
  BY <1>1, <1>2 DEF Next

\* In a later slot of two nodes they never mark different validators, whatever values they
\* draw and how often they hold the election again, and whatever messages are lost.
THEOREM TwoNodesAgree ==
  ASSUME LaterSlot, Cardinality(Node) = 2 PROVE Spec => []OneValidator
<1>1. ElectionInv => OneValidator
  BY DEF ElectionInv, RoundInv
<1> QED
  BY <1>1, ElectionInit, ElectionNext, PTL DEF Spec
=============================================================================
