------------------------- MODULE SlotOutcomeProofs -------------------------
(***************************************************************************)
(* How a slot ends.  The block a node writes is one that a validator has   *)
(* completed; in a later slot without collisions it is the whole block,    *)
(* the slot implements SlotAgreement, and no message of it is on its way   *)
(* to a node that has cleared it.  A process dies only in two ways.        *)
(***************************************************************************)
EXTENDS SlotAgreementProofs

USE DEF timerVars, threadVars, storeVars, syncVars, netVars, history

Whole == [state |-> "COMPLETED", data |-> Contributors, twice |-> FALSE]

\* Then the nodes of a later slot mark one validator.
Agreeing == CollisionFree \/ Cardinality(Node) = 2

\* A block that a validator may have completed.
Completed(b) ==
  /\ b.state = "COMPLETED"
  /\ b.data # {}
  /\ b.data \subseteq Contributors
  /\ LaterSlot /\ Agreeing => b = Whole

\* The block SavePendingBlock makes of the node's own data.
OwnBlock(n) == PendingBlock(IF own[n] THEN {n} ELSE {})

\* s has marked another node as the validator, so it broadcasts no block.
Delegates(s) == validator[s] \notin {s, NoNode}

\* What s may have sent: its own data when it has marked another node, a completed
\* block when it has marked itself.
Parcel(s) ==
  {message \in Message :
     /\ message.op = "UPLOADING" =>
          own[s] /\ Delegates(s) /\ message.block = PendingBlock({s})
     /\ message.op = "BROADCAST" => validator[s] = s /\ Completed(message.block)}

Parcels ==
  /\ \A s, n \in Node : chan[s][n] \in Seq(Parcel(s))
  /\ \A n \in Node : chan[n][n] = <<>>

\* What a node stores as the block of another node.
Stored(a, b) ==
  \/ b = EmptyBlock
  \/ own[a] /\ Delegates(a) /\ b = PendingBlock({a})
  \/ validator[a] = a /\ Completed(b)

Storage ==
  \A n, a \in Node : a # n =>
    /\ Stored(a, block[n][a])
    /\ resolved[n][a] => validator[a] = a /\ Completed(block[n][a])

Unelected == {"save", "announce", "inspect", "remove", "elect", "electLoop", "electCv",
              "purge", "electRetest", "nominate", "removed"}

\* The handlers from which a slot is completed.
Completing == {"broadcast", "store", "publish", "done"}

\* The handlers between the decision that the slot is needed and its completion.
Needed == {"elect", "electLoop", "electCv", "purge", "electRetest", "nominate"} \cup Elected

\* What the handler of the slot's thread says about the node's own storage.
Thread(n) ==
  /\ pc[n] # "save" => n \in known[n]
  /\ pc[n] \in Unelected => validator[n] = NoNode
  /\ pc[n] \in {"collect", "broadcast"} => validator[n] = n
  /\ pc[n] \in {"await", "awaitCv"} => validator[n] # n
  /\ pc[n] \in Needed => \E a \in known[n] : contributing[n][a] = "yes"
  /\ pc[n] \notin Completing \cup {"save"} => block[n][n] = OwnBlock(n)
  /\ pc[n] \in Completing => Completed(broadcastBlock[n])
  /\ entry[n] = "saved" => pc[n] \in {"publish", "done"}
  /\ entry[n] = "removed" => pc[n] = "removed" /\ ~own[n]

BlockInv == BallotInv /\ RoundInv /\ Parcels /\ Storage /\ \A n \in Node : Thread(n)
-----------------------------------------------------------------------------
\* contexts keeps its entries, and until clearSlot it keeps the answers.
LEMMA Grows ==
  ASSUME TypeOK, NEW n \in Node, Step(n), NEW m \in Node
  PROVE  /\ known[m] \subseteq known'[m]
         /\ \/ m = n /\ SaveCompleteBlock(n)
            \/ \A a \in Node : contributing[m][a] # "unset" => contributing'[m][a] # "unset"
<1> USE DEF TypeOK, StoreOK
<1>1. CASE m # n
  BY <1>1, Elsewhere
<1>2. CASE Timer(n) \/ SpuriousWake(n)
  BY <1>2 DEF Timer, InitConditions, InitContexts, SpuriousWake
<1>3. CASE EventLoop(n)
  <2>1. UNCHANGED contributing \/ SetContribution(n)
    BY <1>3, Zenon DEF EventLoop, AddContext, FillElectionValue, AddContributorBlock,
       AddBroadcastBlock, CheckCondition, StoreSynchronized, NotifyAll
  <2>2. SetContribution(n) =>
          \A a \in Node : contributing[m][a] # "unset" => contributing'[m][a] # "unset"
    BY DEF SetContribution
  <2>3. UNCHANGED known \/ \E s : known' = [known EXCEPT ![n] = @ \cup {s}]
    BY <1>3, Zenon DEF EventLoop, AddContext, SetContribution, FillElectionValue,
       AddContributorBlock, AddBroadcastBlock, CheckCondition, StoreSynchronized, NotifyAll,
       Consume
  <2> QED
    BY <2>1, <2>2, <2>3
<1>4. CASE SlotThread(n) /\ m = n
  <2>1. CASE SavePendingBlock(n)
    BY <2>1 DEF SavePendingBlock
  <2>2. CASE NotifyNodesAboutContribution(n)
    BY <2>2 DEF NotifyNodesAboutContribution
  <2>3. CASE SaveCompleteBlock(n)
    BY <1>4, <2>3 DEF SaveCompleteBlock
  <2>4. CASE ~(SavePendingBlock(n) \/ NotifyNodesAboutContribution(n) \/ SaveCompleteBlock(n))
    <3>1. UNCHANGED <<known, contributing>>
      BY <1>4, <2>4, Zenon DEF SlotThread, WaitForNodesInspection,
         RemovePendingBlockIfNoOneIsContributing, SendElectionValue, TestElectionLoop,
         WaitForNodesElection, RemoveDuplicates, RetestElectionLoop, NominateValidator,
         TransferDataToValidator, WaitForContributorsData, Broadcast, WaitForBroadcast,
         WaitForBroadcastCv, PublishBlock, Park
    <3> QED
      BY <3>1
  <2> QED
    BY <2>1, <2>2, <2>3, <2>4
<1> QED
  BY <1>1, <1>2, <1>3, <1>4 DEF Step

\* A step goes forward when it takes back neither a draw nor a mark, and no data.
Forward ==
  /\ own' = own
  /\ \A s \in Node : drawn[s] \subseteq drawn'[s]
  /\ \A s \in Node : validator[s] # NoNode => validator'[s] = validator[s]

\* A node draws only as a handler of the election.
LEMMA DrawStep ==
  ASSUME TypeOK, NEW n \in Node, Step(n)
  PROVE  SendElectionValue(n) \/ UNCHANGED drawn
  BY Zenon DEF Step, Timer, InitConditions, InitContexts, SpuriousWake, EventLoop, AddContext,
     SetContribution, FillElectionValue, AddContributorBlock, AddBroadcastBlock,
     CheckCondition, StoreSynchronized, NotifyAll, SlotThread, SavePendingBlock,
     NotifyNodesAboutContribution, WaitForNodesInspection,
     RemovePendingBlockIfNoOneIsContributing, TestElectionLoop, WaitForNodesElection,
     RemoveDuplicates, RetestElectionLoop, NominateValidator, TransferDataToValidator,
     WaitForContributorsData, Broadcast, WaitForBroadcast, WaitForBroadcastCv,
     SaveCompleteBlock, PublishBlock, Park

\* Every step goes forward.
LEMMA ForwardStep ==
  ASSUME BlockInv, NEW n \in Node, Step(n) PROVE Forward
<1>0. TypeOK
  BY DEF BlockInv, BallotInv, RemovalInv
<1>1. own' = own
  BY <1>0, EntryFrame
<1>2. \A s \in Node : drawn[s] \subseteq drawn'[s]
  <2>1. CASE SendElectionValue(n)
    BY <1>0, <2>1 DEF SendElectionValue, TypeOK, NetworkOK
  <2> QED
    BY <1>0, <2>1, DrawStep
<1>3. \A s \in Node : validator[s] # NoNode => validator'[s] = validator[s]
  <2>1. CASE NominateValidator(n)
    <3>1. validator[n] = NoNode
      BY <2>1 DEF NominateValidator, At, BlockInv, Thread, Unelected
    <3> QED
      BY <1>0, <2>1, <3>1 DEF NominateValidator, TypeOK, StoreOK
  <2> QED
    BY <1>0, <2>1, MarkStep
<1> QED
  BY <1>1, <1>2, <1>3 DEF Forward

\* What a step that goes forward leaves true.
LEMMA ForwardKeeps ==
  ASSUME Forward
  PROVE  /\ Contributors' = Contributors /\ Whole' = Whole
         /\ \A b : Completed(b) => Completed(b)'
         /\ \A s \in Node : Parcel(s) \subseteq Parcel(s)'
         /\ \A b : \A a \in Node : Stored(a, b) => Stored(a, b)'
         /\ \A n \in Node : OwnBlock(n)' = OwnBlock(n)
<1>1. Contributors' = Contributors /\ Whole' = Whole
  BY DEF Forward, Contributors, Whole
<1>2. Agreeing' => Agreeing
  BY DEF Forward, CollisionFree, Agreeing
<1>3. ASSUME NEW b, Completed(b) PROVE Completed(b)'
  BY <1>1, <1>2, <1>3 DEF Completed, LaterSlot
<1>4. ASSUME NEW s \in Node PROVE /\ Delegates(s) => Delegates(s)'
                                  /\ validator[s] = s => validator'[s] = s
  BY NodeAssumption DEF Forward, Delegates
<1>5. ASSUME NEW s \in Node PROVE Parcel(s) \subseteq Parcel(s)'
  BY <1>3, <1>4 DEF Parcel, Forward
<1>6. ASSUME NEW a \in Node, NEW b, Stored(a, b) PROVE Stored(a, b)'
  BY <1>3, <1>4, <1>6 DEF Stored, Forward
<1>7. \A n \in Node : OwnBlock(n)' = OwnBlock(n)
  BY DEF OwnBlock, Forward
<1> QED
  BY <1>1, <1>3, <1>5, <1>6, <1>7

-----------------------------------------------------------------------------
\* A queue of the node to itself stays empty.
LEMMA NoLoopback ==
  ASSUME TypeOK, \A k \in Node : chan[k][k] = <<>>, NEW n \in Node, NEW message,
         NEW receivers \in SUBSET (Node \ {n}), Publish(n, message, receivers)
  PROVE  \A k \in Node : chan'[k][k] = <<>>
  BY DEF Publish, TypeOK, NetworkOK

\* Taking a message out of a queue leaves nothing else in the queues.  H[s] stands for
\* what s may publish.
LEMMA ConsumeParcel ==
  ASSUME TypeOK, NEW n \in Node, NEW t \in Node, chan[t][n] # <<>>, Consume(n, t), NEW H,
         \A s, m \in Node : chan[s][m] \in Seq(H[s])
  PROVE  /\ Head(chan[t][n]) \in H[t]
         /\ \A s, m \in Node : chan'[s][m] \in Seq(H[s])
         /\ \A s, m \in Node : chan[s][m] = <<>> => chan'[s][m] = <<>>
<1> DEFINE q == chan[t][n]
           S == H[t]
<1>1. q \in Seq(S) /\ q # <<>>
  OBVIOUS
<1>2. Head(q) \in S /\ Tail(q) \in Seq(S)
  <2> HIDE DEF q, S
  <2> QED
    BY <1>1
<1>3. chan' = [chan EXCEPT ![t][n] = Tail(chan[t][n])]
  BY DEF Consume, TypeOK, NetworkOK
<1>4. ASSUME NEW s \in Node, NEW m \in Node
      PROVE  \/ chan'[s][m] = chan[s][m]
             \/ s = t /\ m = n /\ chan'[s][m] = Tail(q)
  BY <1>3 DEF TypeOK, NetworkOK
<1>5. ASSUME NEW s \in Node, NEW m \in Node PROVE chan'[s][m] \in Seq(H[s])
  <2>1. CASE chan'[s][m] = chan[s][m]
    BY <2>1
  <2>2. CASE s = t /\ m = n /\ chan'[s][m] = Tail(q)
    <3> HIDE DEF q
    <3> QED
      BY <1>2, <2>2
  <2> QED
    BY <1>4, <2>1, <2>2
<1>6. ASSUME NEW s \in Node, NEW m \in Node, chan[s][m] = <<>> PROVE chan'[s][m] = <<>>
  BY <1>4, <1>6
<1> QED
  BY <1>2, <1>5, <1>6

\* What a node publishes is what it may send.
LEMMA ParcelsStep ==
  ASSUME BlockInv, NEW n \in Node, Step(n) PROVE Parcels'
<1> DEFINE H == [s \in Node |-> Parcel(s)']
<1>0. TypeOK /\ Forward /\ Thread(n)
  BY ForwardStep DEF BlockInv, BallotInv, RemovalInv
<1>1. \A s, m \in Node : chan[s][m] \in Seq(H[s])
  <2>1. \A s \in Node : Parcel(s) \subseteq H[s]
    BY <1>0, ForwardKeeps
  <2> HIDE DEF H
  <2> QED
    BY <2>1, SeqMonotone DEF BlockInv, Parcels
<1>2. \A k \in Node : chan[k][k] = <<>>
  BY DEF BlockInv, Parcels
<1> SUFFICES /\ \A s, m \in Node : chan'[s][m] \in Seq(H[s])
             /\ \A k \in Node : chan'[k][k] = <<>>
  BY DEF Parcels
<1>3. CASE UNCHANGED chan
  <2> HIDE DEF H
  <2> QED
    BY <1>1, <1>2, <1>3
<1>4. ASSUME NEW s \in Node, chan[s][n] # <<>>, Consume(n, s)
      PROVE  /\ \A t, m \in Node : chan'[t][m] \in Seq(H[t])
             /\ \A k \in Node : chan'[k][k] = <<>>
  <2> HIDE DEF H
  <2> QED
    BY <1>0, <1>1, <1>2, <1>4, ConsumeParcel
<1>5. ASSUME NEW message, NEW receivers \in SUBSET (Node \ {n}),
             Publish(n, message, receivers), message \in H[n]
      PROVE  /\ \A s, m \in Node : chan'[s][m] \in Seq(H[s])
             /\ \A k \in Node : chan'[k][k] = <<>>
  <2> HIDE DEF H
  <2>1. receivers \in SUBSET Node
    OBVIOUS
  <2> QED
    BY <1>0, <1>1, <1>2, <1>5, <2>1, PublishHonest, NoLoopback
<1>6. [op |-> "INSPECTION", isContributing |-> own[n]] \in H[n]
  BY <1>0 DEF Parcel, Message, TypeOK, ThreadsOK
<1>7. \A v \in Draws[n] : [op |-> "ELECTION", value |-> v] \in H[n]
  BY DrawsAssumption DEF Parcel, Message
<1>8. CASE NotifyNodesAboutContribution(n) \/ SendElectionValue(n)
  BY <1>5, <1>6, <1>7, <1>8 DEF NotifyNodesAboutContribution, SendElectionValue
<1>9. CASE /\ TransferDataToValidator(n) /\ validator[n] # n /\ own[n]
           /\ Publish(n, [op |-> "UPLOADING", block |-> PendingBlock({n})], {validator[n]})
  <2>1. validator[n] \in Node \ {n} /\ validator' = validator /\ own' = own
    BY <1>0, <1>9, NodeAssumption DEF TransferDataToValidator, At, TypeOK, ThreadsOK, Elected
  <2>2. Delegates(n)'
    BY <2>1, NodeAssumption DEF Delegates
  <2>3. [op |-> "UPLOADING", block |-> PendingBlock({n})] \in H[n]
    BY <1>9, <2>1, <2>2 DEF Parcel, Message, PendingBlock, Block, BlockOf
  <2> QED
    BY <1>5, <1>9, <2>1, <2>3
<1>10. CASE /\ Broadcast(n)
            /\ Publish(n, [op |-> "BROADCAST", block |-> broadcastBlock[n]], Node \ {n})
  <2>1. pc[n] = "broadcast" /\ validator' = validator
    BY <1>10 DEF Broadcast, At
  <2>2. validator'[n] = n /\ Completed(broadcastBlock[n])'
    BY <1>0, <2>1, <1>10, ForwardKeeps DEF Thread, Completing, Broadcast
  <2>3. [op |-> "BROADCAST", block |-> broadcastBlock[n]] \in H[n]
    BY <1>0, <1>10, <2>2 DEF Parcel, Message, TypeOK, StoreOK, Broadcast, Completed
  <2> QED
    BY <1>5, <1>10, <2>3
<1> QED
  BY <1>0, <1>3, <1>4, <1>8, <1>9, <1>10, PublishStep

\* A node stores about another node only what arrives from it, and forgets it only in
\* clearSlot.
LEMMA BlockStep ==
  ASSUME TypeOK, NEW n \in Node, Step(n), NEW a \in Node \ {n}
  PROVE  \/ block'[n][a] = block[n][a] /\ resolved'[n][a] = resolved[n][a]
         \/ block'[n][a] = EmptyBlock /\ resolved'[n][a] = FALSE
         \/ /\ chan[a][n] # <<>> /\ Head(chan[a][n]).op \in {"UPLOADING", "BROADCAST"}
            /\ block'[n][a] = Head(chan[a][n]).block
            /\ resolved'[n][a] => resolved[n][a] \/ Head(chan[a][n]).op = "BROADCAST"
<1> USE DEF TypeOK, StoreOK
<1>1. CASE AddContributorBlock(n)
  <2>1. PICK s \in Node : /\ Arrived(n, s, "UPLOADING")
                          /\ block' = [block EXCEPT ![n][s] = Head(chan[s][n]).block]
    BY <1>1 DEF AddContributorBlock
  <2>2. resolved' = resolved
    BY <1>1 DEF AddContributorBlock
  <2> QED
    BY <2>1, <2>2 DEF Arrived
<1>2. CASE AddBroadcastBlock(n)
  <2>1. PICK s \in Node : /\ Arrived(n, s, "BROADCAST")
                          /\ block' = [block EXCEPT ![n][s] = Head(chan[s][n]).block]
                          /\ resolved' = [resolved EXCEPT ![n][s] = TRUE]
    BY <1>2 DEF AddBroadcastBlock
  <2> QED
    BY <2>1 DEF Arrived
<1>3. CASE SaveCompleteBlock(n)
  BY <1>3 DEF SaveCompleteBlock
<1>4. CASE SavePendingBlock(n)
  BY <1>4 DEF SavePendingBlock
<1>5. CASE TransferDataToValidator(n)
  BY <1>5 DEF TransferDataToValidator
<1>6. CASE WaitForContributorsData(n)
  <2>1. \/ UNCHANGED <<block, resolved>>
        \/ /\ \E merged : block' = [block EXCEPT ![n][n] = merged]
           /\ resolved' = [resolved EXCEPT ![n][n] = TRUE]
    BY <1>6, Zenon DEF WaitForContributorsData
  <2> QED
    BY <2>1
<1>7. CASE ~(\/ AddContributorBlock(n) \/ AddBroadcastBlock(n) \/ SaveCompleteBlock(n)
             \/ SavePendingBlock(n) \/ TransferDataToValidator(n)
             \/ WaitForContributorsData(n))
  <2>1. UNCHANGED <<block, resolved>>
    BY <1>7, Zenon DEF Step, Timer, InitConditions, InitContexts, SpuriousWake, EventLoop,
       AddContext, SetContribution, FillElectionValue, CheckCondition, StoreSynchronized,
       NotifyAll, SlotThread, NotifyNodesAboutContribution, WaitForNodesInspection,
       RemovePendingBlockIfNoOneIsContributing, SendElectionValue, TestElectionLoop,
       WaitForNodesElection, RemoveDuplicates, RetestElectionLoop, NominateValidator,
       Broadcast, WaitForBroadcast, WaitForBroadcastCv, PublishBlock, Park
  <2> QED
    BY <2>1
<1> QED
  BY <1>1, <1>2, <1>3, <1>4, <1>5, <1>6, <1>7

\* What a node stores as the block of another node is what that node has sent.
LEMMA StorageStep ==
  ASSUME BlockInv, NEW n \in Node, Step(n) PROVE Storage'
<1>0. TypeOK /\ Forward /\ \A k \in Node : chan[k][k] = <<>>
  BY ForwardStep DEF BlockInv, BallotInv, RemovalInv, Parcels
<1>1. ASSUME NEW m \in Node, NEW a \in Node, a # m,
             block'[m][a] = block[m][a], resolved'[m][a] => resolved[m][a]
      PROVE  Stored(a, block[m][a])' /\ (resolved'[m][a] =>
                                           validator'[a] = a /\ Completed(block[m][a])')
  <2>1. /\ Stored(a, block[m][a])
        /\ resolved[m][a] => validator[a] = a /\ Completed(block[m][a])
    BY <1>1 DEF BlockInv, Storage
  <2> DEFINE b == block[m][a]
  <2>2. /\ Stored(a, b) => Stored(a, b)'
        /\ Completed(b) => Completed(b)'
    <3>1. block'[m][a] = b
      BY <1>1
    <3> QED
      BY <1>0, <3>1, ForwardKeeps
  <2>3. validator[a] = a => validator'[a] = a
    BY <1>0, NodeAssumption DEF Forward
  <2> QED
    BY <1>1, <2>1, <2>2, <2>3
<1> SUFFICES ASSUME NEW m \in Node, NEW a \in Node, a # m
             PROVE  Stored(a, block[m][a])' /\ (resolved'[m][a] =>
                                           validator'[a] = a /\ Completed(block[m][a])')
  BY DEF Storage
<1>2. CASE block'[m][a] = block[m][a] /\ resolved'[m][a] = resolved[m][a]
  BY <1>1, <1>2
<1>3. CASE block'[m][a] = EmptyBlock /\ resolved'[m][a] = FALSE
  BY <1>3 DEF Stored
<1>4. CASE /\ m = n /\ chan[a][n] # <<>>
           /\ Head(chan[a][n]).op \in {"UPLOADING", "BROADCAST"}
           /\ block'[n][a] = Head(chan[a][n]).block
           /\ resolved'[n][a] => resolved[n][a] \/ Head(chan[a][n]).op = "BROADCAST"
  <2> DEFINE message == Head(chan[a][n])
             b == message.block
  <2>1. message \in Parcel(a)
    <3> DEFINE q == chan[a][n]
               S == Parcel(a)
    <3>1. q \in Seq(S) /\ q # <<>>
      BY <1>4 DEF BlockInv, Parcels
    <3>2. Head(q) \in S
      <4> HIDE DEF q, S
      <4> QED
        BY <3>1
    <3> QED
      BY <3>2
  <2>2. \/ /\ message.op = "UPLOADING" /\ own[a] /\ Delegates(a)
           /\ b = PendingBlock({a})
        \/ message.op = "BROADCAST" /\ validator[a] = a /\ Completed(b)
    BY <1>4, <2>1 DEF Parcel
  <2>3. resolved[n][a] => validator[a] = a
    BY <1>4 DEF BlockInv, Storage
  <2>4. resolved'[n][a] => validator[a] = a /\ Completed(b)
    BY <1>4, <2>2, <2>3 DEF Delegates
  <2>5. Stored(a, b)
    BY <2>2 DEF Stored
  <2>6. validator[a] = a => validator'[a] = a
    BY <1>0, NodeAssumption DEF Forward
  <2>7. block'[m][a] = b
    BY <1>4
  <2>8. Stored(a, block'[m][a])
    BY <2>5, <2>7
  <2>9. Stored(a, block[m][a])' /\ (Completed(b) => Completed(block[m][a])')
    <3> DEFINE c == Head(chan[a][n]).block
    <3>1. \A x : (Stored(a, x) => Stored(a, x)') /\ (Completed(x) => Completed(x)')
      BY <1>0, ForwardKeeps
    <3> QED
      BY <2>5, <2>7, <3>1 DEF Stored, Completed
  <2> QED
    BY <1>4, <2>4, <2>6, <2>9
<1>5. CASE m # n
  BY <1>0, <1>2, <1>5, Elsewhere
<1>6. CASE m = n
  <2>1. CASE \/ block'[n][a] = block[n][a] /\ resolved'[n][a] = resolved[n][a]
             \/ block'[n][a] = EmptyBlock /\ resolved'[n][a] = FALSE
    BY <1>2, <1>3, <1>6, <2>1
  <2>2. CASE /\ chan[a][n] # <<>>
             /\ Head(chan[a][n]).op \in {"UPLOADING", "BROADCAST"}
             /\ block'[n][a] = Head(chan[a][n]).block
             /\ resolved'[n][a] => resolved[n][a] \/ Head(chan[a][n]).op = "BROADCAST"
    BY <1>4, <1>6, <2>2
  <2> QED
    BY <1>0, <1>6, <2>1, <2>2, BlockStep
<1> QED
  BY <1>5, <1>6

\* Who has said yes has said so until clearSlot.
LEMMA SomebodyStep ==
  ASSUME BlockInv, BallotInv', NEW n \in Node, Step(n), ~SaveCompleteBlock(n),
         \E a \in known[n] : contributing[n][a] = "yes"
  PROVE  \E a \in known'[n] : contributing'[n][a] = "yes"
<1>0. TypeOK /\ Honesty /\ Honesty'
  BY DEF BlockInv, BallotInv, RemovalInv
<1>1. PICK a \in known[n] : contributing[n][a] = "yes"
  OBVIOUS
<1>2. a \in Node /\ Answer(a)' = Answer(a)
  BY <1>0, EntryFrame DEF TypeOK, StoreOK, Answer
<1>3. contributing'[n][a] # "unset" /\ a \in known'[n]
  BY <1>0, <1>1, <1>2, Grows
<1>4. contributing'[n][a] = Answer(a) /\ contributing[n][a] = Answer(a)
  BY <1>0, <1>1, <1>2, <1>3 DEF Honesty
<1> QED
  BY <1>1, <1>3, <1>4

\* The event loop and the timer leave the node's own block alone, and its thread where it is.
LEMMA ThreadOthers ==
  ASSUME BlockInv, NEW n \in Node, EventLoop(n) \/ Timer(n) \/ SpuriousWake(n) \/ Park(n)
  PROVE  /\ UNCHANGED <<pc, validator, broadcastBlock, entry>>
         /\ block'[n][n] = block[n][n]
<1>0. TypeOK /\ chan[n][n] = <<>>
  BY DEF BlockInv, BallotInv, RemovalInv, Parcels
<1>1. CASE Timer(n) \/ SpuriousWake(n) \/ Park(n)
  BY <1>1 DEF Timer, InitConditions, InitContexts, SpuriousWake, Park
<1>2. CASE EventLoop(n)
  <2>1. UNCHANGED <<pc, validator, broadcastBlock, entry>>
    BY <1>2, Zenon DEF EventLoop, AddContext, SetContribution, FillElectionValue,
       AddContributorBlock, AddBroadcastBlock, CheckCondition, StoreSynchronized, NotifyAll
  <2>2. CASE AddContributorBlock(n) \/ AddBroadcastBlock(n)
    <3>1. PICK s \in Node : /\ chan[s][n] # <<>>
                            /\ block' = [block EXCEPT ![n][s] = Head(chan[s][n]).block]
      BY <2>2 DEF AddContributorBlock, AddBroadcastBlock, Arrived
    <3> QED
      BY <1>0, <2>1, <3>1 DEF TypeOK, StoreOK
  <2>3. CASE ~(AddContributorBlock(n) \/ AddBroadcastBlock(n))
    <3>1. UNCHANGED block
      BY <1>2, <2>3, Zenon DEF EventLoop, AddContext, SetContribution, FillElectionValue,
         CheckCondition, StoreSynchronized, NotifyAll
    <3> QED
      BY <2>1, <3>1
  <2> QED
    BY <2>2, <2>3
<1> QED
  BY <1>1, <1>2

\* What the validator merges is completed: every contributor's own data, and its block only.
LEMMA MergeCompleted ==
  ASSUME BlockInv, NEW n \in Node, pc[n] = "collect", "yes" \in Collected(n)
  PROVE  Completed(MergeContributors(known[n], contributing[n], block[n], n))
<1> DEFINE merged == MergeContributors(known[n], contributing[n], block[n], n)
           others == {a \in known[n] \ {n} : contributing[n][a] = "yes"}
<1>0. /\ TypeOK /\ Honesty /\ KnowsAll /\ Thread(n)
      /\ known[n] \subseteq Node
  BY DEF BlockInv, BallotInv, RemovalInv, TypeOK, StoreOK
<1>1. /\ validator[n] = n /\ block[n][n] = OwnBlock(n)
      /\ \E a \in known[n] : contributing[n][a] = "yes"
  BY <1>0 DEF Thread, Completing, Needed, Elected
<1>2. \A a \in Node \ {n} : Stored(a, block[n][a])
  BY DEF BlockInv, Storage
<1>3. \A a \in known[n] : \/ contributing[n][a] = "no"
                          \/ contributing[n][a] = "yes" /\ block[n][a].data # {}
  BY DEF Collected, IsAllContributorsDataCollected
<1>4. \A a \in Node : own[a] \in BOOLEAN /\ (contributing[n][a] = "yes" => own[a])
                                         /\ (contributing[n][a] = "no" => ~own[a])
  BY <1>0 DEF Honesty, Answer, TypeOK, ThreadsOK
<1>5. \A a \in Node : block[n][a].data \subseteq Contributors
  <2>1. block[n][n].data \subseteq Contributors
    BY <1>1, <1>4 DEF OwnBlock, PendingBlock, Contributors
  <2>2. ASSUME NEW a \in Node \ {n} PROVE block[n][a].data \subseteq Contributors
    <3>1. CASE block[n][a] = EmptyBlock
      BY <3>1 DEF EmptyBlock, PendingBlock
    <3>2. CASE own[a] /\ block[n][a] = PendingBlock({a})
      BY <3>2 DEF PendingBlock, Contributors
    <3>3. CASE Completed(block[n][a])
      BY <3>3 DEF Completed
    <3> QED
      BY <1>2, <3>1, <3>2, <3>3 DEF Stored
  <2> QED
    BY <2>1, <2>2
<1>6. /\ merged.state = "COMPLETED"
      /\ merged.data = block[n][n].data \cup UNION {block[n][a].data : a \in others}
  BY DEF MergeContributors
<1>7. merged.data \subseteq Contributors
  <2> HIDE DEF merged
  <2> QED
    BY <1>0, <1>5, <1>6
<1>8. merged.data # {}
  <2>1. PICK a \in known[n] : contributing[n][a] = "yes"
    BY <1>1
  <2>2. block[n][a].data # {} /\ block[n][a].data \subseteq merged.data
    <3> HIDE DEF merged
    <3> QED
      BY <1>3, <1>6, <2>1
  <2> QED
    BY <2>2
<1>9. ASSUME LaterSlot, Agreeing PROVE merged = Whole
  <2>1. known[n] = Node
    BY <1>0, <1>9 DEF KnowsAll
  <2>2. \A a \in Node \ {n} : validator[a] # a
    <3>1. OneValidator
      <4>1. BallotInv /\ RoundInv
        BY DEF BlockInv
      <4>2. CASE CollisionFree
        BY <4>1, <4>2, <1>9, OneWinner DEF BallotInv, OneBallot, RemovalInv, OneValidator
      <4>3. CASE Cardinality(Node) = 2
        BY <4>1, <4>3, <1>9 DEF RoundInv
      <4> QED
        BY <1>9, <4>2, <4>3 DEF Agreeing
    <3> QED
      BY <1>1, <3>1, NodeAssumption DEF OneValidator
  <2>3. ASSUME NEW a \in others
        PROVE  block[n][a].data = {a} /\ block[n][a].twice = FALSE /\ a # n
    <3>1. a \in Node \ {n} /\ block[n][a].data # {} /\ validator[a] # a
      BY <1>3, <2>1, <2>2
    <3>2. Stored(a, block[n][a]) /\ block[n][a] # EmptyBlock
      BY <1>2, <3>1 DEF EmptyBlock, PendingBlock
    <3> QED
      BY <3>1, <3>2 DEF Stored, PendingBlock
  <2>4. block[n][n] = OwnBlock(n)
    BY <1>1
  <2>5. \A a \in Node \ {n} : a \in others <=> own[a]
    BY <1>3, <1>4, <2>1
  <2>6. merged.data = Contributors
    <3>1. \A a \in Node : a \in merged.data <=> own[a]
      <4>1. block[n][n].data = IF own[n] THEN {n} ELSE {}
        BY <2>4 DEF OwnBlock, PendingBlock
      <4>2. \A a \in others : block[n][a].data = {a} /\ a # n
        BY <2>3
      <4>3. n \notin others
        OBVIOUS
      <4> HIDE DEF merged, others
      <4> QED
        BY <1>6, <2>5, <4>1, <4>2, <4>3
    <3> QED
      BY <1>7, <3>1 DEF Contributors
  <2>7. merged.twice = FALSE
    <3>1. merged.twice = (\/ \E a \in others \cup {n} : block[n][a].twice
                          \/ \E a \in others : \E other \in (others \cup {n}) \ {a} :
                               block[n][a].data \cap block[n][other].data # {})
      BY DEF MergeContributors
    <3>2. \A a \in others \cup {n} : block[n][a].twice = FALSE
      <4>1. block[n][n].twice = FALSE
        BY <2>4 DEF OwnBlock, PendingBlock
      <4> QED
        BY <2>3, <4>1
    <3>3. \A a \in others : block[n][a].data = {a}
      BY <2>3
    <3>4. block[n][n].data \subseteq {n}
      BY <2>4 DEF OwnBlock, PendingBlock
    <3>5. \A a \in others : \A other \in (others \cup {n}) \ {a} :
            block[n][a].data \cap block[n][other].data = {}
      BY <3>3, <3>4
    <3> HIDE DEF merged, others
    <3> QED
      BY <3>1, <3>2, <3>5
  <2>8. merged = [state |-> merged.state, data |-> merged.data, twice |-> merged.twice]
    BY DEF MergeContributors
  <2> HIDE DEF merged
  <2> QED
    BY <1>6, <2>6, <2>7, <2>8 DEF Whole
<1> QED
  BY <1>6, <1>7, <1>8, <1>9 DEF Completed

\* The handlers move on as Thread says.
LEMMA ThreadOwn ==
  ASSUME BlockInv, BallotInv', NEW n \in Node, SlotThread(n), Step(n) PROVE Thread(n)'
<1> DEFINE Somebody == \E a \in known[n] : contributing[n][a] = "yes"
<1>0. TypeOK /\ Forward /\ Thread(n)
  BY ForwardStep DEF BlockInv, BallotInv, RemovalInv
<1>1. /\ n \in known[n] => n \in known'[n]
      /\ Somebody /\ pc[n] # "store" => Somebody'
      /\ own' = own
      /\ OwnBlock(n)' = OwnBlock(n)
      /\ \A b : Completed(b) => Completed(b)'
  BY <1>0, Grows, SomebodyStep, ForwardKeeps DEF Forward, SaveCompleteBlock, At
<1>2. Completed(broadcastBlock[n]) /\ broadcastBlock'[n] = broadcastBlock[n]
        => Completed(broadcastBlock[n])'
  BY <1>1 DEF Completed
<1> SUFFICES /\ pc'[n] # "save" => n \in known'[n]
             /\ pc'[n] \in Unelected => validator'[n] = NoNode
             /\ pc'[n] \in {"collect", "broadcast"} => validator'[n] = n
             /\ pc'[n] \in {"await", "awaitCv"} => validator'[n] # n
             /\ pc'[n] \in Needed => Somebody'
             /\ pc'[n] \notin Completing \cup {"save"} => block'[n][n] = OwnBlock(n)
             /\ pc'[n] \in Completing => Completed(broadcastBlock[n])'
             /\ entry'[n] = "saved" => pc'[n] \in {"publish", "done"}
             /\ entry'[n] = "removed" => pc'[n] = "removed" /\ ~own[n]
  BY <1>1 DEF Thread
<1> HIDE DEF Somebody
<1>3. /\ pc[n] # "save" => n \in known[n]
      /\ pc[n] \in Unelected => validator[n] = NoNode
      /\ pc[n] \in {"collect", "broadcast"} => validator[n] = n
      /\ pc[n] \in {"await", "awaitCv"} => validator[n] # n
      /\ pc[n] \in Needed => Somebody
      /\ pc[n] \notin Completing \cup {"save"} => block[n][n] = OwnBlock(n)
      /\ pc[n] \in Completing => Completed(broadcastBlock[n])
      /\ entry[n] = "saved" => pc[n] \in {"publish", "done"}
      /\ entry[n] = "removed" => pc[n] = "removed" /\ ~own[n]
  BY <1>0 DEF Thread, Somebody
<1>4. CASE /\ UNCHANGED <<validator, block, entry, broadcastBlock>>
           /\ pc'[n] = pc[n] \/ <<pc[n], pc'[n]>> \in PlainMoves
  <2>1. CASE pc'[n] = pc[n] /\ pc[n] # "store"
    BY <1>1, <1>2, <1>3, <1>4, <2>1 DEF Completing, Needed, Elected
  <2>2. CASE <<pc[n], pc'[n]>> \in PlainMoves
    BY <1>1, <1>2, <1>3, <1>4, <2>2 DEF PlainMoves, Unelected, Completing, Needed, Elected
  <2>3. CASE pc'[n] = pc[n] /\ pc[n] = "store"
    BY <1>1, <1>2, <1>3, <1>4, <2>3 DEF Unelected, Completing, Needed, Elected
  <2> QED
    BY <1>4, <2>1, <2>2, <2>3
<1> USE DEF TypeOK, ThreadsOK, StoreOK
<1>5. CASE SavePendingBlock(n)
  BY <1>0, <1>1, <1>3, <1>5 DEF SavePendingBlock, At, Goto, Unelected, Needed, Elected,
     Completing, OwnBlock
<1>6. CASE RemovePendingBlockIfNoOneIsContributing(n)
  <2>0. /\ pc[n] = "remove" /\ UNCHANGED <<validator, block, broadcastBlock>>
    BY <1>6 DEF RemovePendingBlockIfNoOneIsContributing, At
  <2>1. PICK answer \in IsAnyNodeContributing(known[n], contributing[n]) :
          \/ answer = "yes" /\ Goto(n, "elect") /\ UNCHANGED entry
          \/ answer = "no" /\ EndIdleSlot(n) /\ Goto(n, "removed")
          \/ UNCHANGED <<pc, entry>>
    BY <1>6 DEF RemovePendingBlockIfNoOneIsContributing
  <2>2. CASE answer = "yes" /\ Goto(n, "elect") /\ UNCHANGED entry
    <3>1. Somebody
      BY <2>1, <2>2 DEF IsAnyNodeContributing, Somebody
    <3> QED
      BY <1>0, <1>1, <1>3, <2>0, <2>2, <3>1 DEF Goto, Unelected, Needed, Elected, Completing
  <2>3. CASE answer = "no" /\ EndIdleSlot(n) /\ Goto(n, "removed")
    <3>1. n \in known[n] /\ contributing[n][n] = "no"
      BY <1>3, <2>0, <2>1, <2>3 DEF IsAnyNodeContributing
    <3>2. ~own[n]
      BY <3>1 DEF BlockInv, BallotInv, RemovalInv, Honesty, Answer
    <3> QED
      BY <1>0, <1>1, <1>3, <2>0, <2>3, <3>2 DEF Goto, EndIdleSlot, Unelected, Needed, Elected,
         Completing
  <2>4. CASE UNCHANGED <<pc, entry>>
    BY <1>0, <1>1, <1>3, <2>0, <2>4 DEF Unelected, Needed, Elected, Completing
  <2> QED
    BY <2>1, <2>2, <2>3, <2>4
<1>7. CASE NominateValidator(n)
  <2>1. /\ pc[n] = "nominate" /\ pc'[n] = "relay"
        /\ UNCHANGED <<block, entry, broadcastBlock>>
    BY <1>0, <1>7 DEF NominateValidator, At, Goto
  <2> QED
    BY <1>0, <1>1, <1>3, <2>1 DEF Unelected, Needed, Elected, Completing
<1>8. CASE TransferDataToValidator(n)
  <2>1. /\ pc[n] = "relay"
        /\ pc'[n] = IF validator[n] = n THEN "collect" ELSE "await"
        /\ UNCHANGED <<validator, entry, broadcastBlock>>
    BY <1>0, <1>8 DEF TransferDataToValidator, At, Goto
  <2>2. block'[n][n] = OwnBlock(n)
    <3>1. block[n][n] = OwnBlock(n)
      BY <1>3, <2>1 DEF Completing
    <3>2. own[n] => OwnBlock(n) = PendingBlock({n})
      BY DEF OwnBlock
    <3> QED
      BY <1>0, <1>8, <3>1, <3>2 DEF TransferDataToValidator
  <2> QED
    BY <1>0, <1>1, <1>3, <2>1, <2>2 DEF Unelected, Needed, Elected, Completing
<1>9. CASE WaitForContributorsData(n)
  <2> DEFINE merged == MergeContributors(known[n], contributing[n], block[n], n)
  <2>0. pc[n] = "collect" /\ UNCHANGED <<validator, entry>>
    BY <1>9 DEF WaitForContributorsData, At
  <2>1. \/ /\ "yes" \in Collected(n) /\ Goto(n, "broadcast")
           /\ broadcastBlock' = [broadcastBlock EXCEPT ![n] = merged]
        \/ UNCHANGED <<pc, block, broadcastBlock>>
    BY <1>9 DEF WaitForContributorsData, CvWait
  <2>2. CASE /\ "yes" \in Collected(n) /\ Goto(n, "broadcast")
             /\ broadcastBlock' = [broadcastBlock EXCEPT ![n] = merged]
    <3>1. Completed(merged)
      BY <2>0, <2>2, MergeCompleted
    <3>2. broadcastBlock'[n] = merged
      BY <1>0, <2>2
    <3>3. Completed(broadcastBlock[n])'
      <4> HIDE DEF merged
      <4>1. ASSUME NEW b, Completed(b), broadcastBlock'[n] = b
            PROVE  Completed(broadcastBlock[n])'
        BY <1>1, <4>1 DEF Completed
      <4> QED
        BY <3>1, <3>2, <4>1
    <3> HIDE DEF merged
    <3> QED
      BY <1>0, <1>1, <1>3, <2>0, <2>2, <3>3 DEF Goto, Unelected, Needed, Elected, Completing
  <2>3. CASE UNCHANGED <<pc, block, broadcastBlock>>
    BY <1>0, <1>1, <1>3, <2>0, <2>3 DEF Unelected, Needed, Elected, Completing
  <2> QED
    BY <2>1, <2>2, <2>3
<1>10. CASE WaitForBroadcast(n) \/ WaitForBroadcastCv(n)
  <2>0. /\ pc[n] \in {"await", "awaitCv"} /\ UNCHANGED <<validator, entry, block>>
    BY <1>10 DEF WaitForBroadcast, WaitForBroadcastCv, At
  <2>1. \/ resolved[n][validator[n]] /\ TakeBroadcastBlock(n) /\ Goto(n, "store")
        \/ pc'[n] \in {"await", "awaitCv"} /\ UNCHANGED broadcastBlock
    BY <1>0, <1>10, <2>0 DEF WaitForBroadcast, WaitForBroadcastCv, CvWait, Goto
  <2>2. CASE resolved[n][validator[n]] /\ TakeBroadcastBlock(n) /\ Goto(n, "store")
    <3>1. validator[n] \in Node \ {n}
      BY <1>0, <1>3, <2>0 DEF Elected
    <3>2. Completed(block[n][validator[n]])
      BY <2>2, <3>1 DEF BlockInv, Storage
    <3>3. broadcastBlock'[n] = block[n][validator[n]]
      BY <1>0, <2>2 DEF TakeBroadcastBlock
    <3>4. ASSUME NEW b, Completed(b), broadcastBlock'[n] = b
          PROVE  Completed(broadcastBlock[n])'
      BY <1>1, <3>4 DEF Completed
    <3>5. Completed(broadcastBlock[n])'
      BY <3>2, <3>3, <3>4
    <3> QED
      BY <1>0, <1>1, <1>3, <2>0, <2>2, <3>5 DEF Goto, Unelected, Needed, Elected, Completing
  <2>3. CASE pc'[n] \in {"await", "awaitCv"} /\ UNCHANGED broadcastBlock
    BY <1>0, <1>1, <1>3, <2>0, <2>3 DEF Unelected, Needed, Elected, Completing
  <2> QED
    BY <2>1, <2>2, <2>3
<1>11. CASE SaveCompleteBlock(n)
  <2>1. /\ pc[n] = "store" /\ pc'[n] = "publish"
        /\ UNCHANGED <<validator, broadcastBlock>> /\ entry'[n] = "saved"
    BY <1>0, <1>11 DEF SaveCompleteBlock, At, Goto
  <2> QED
    BY <1>0, <1>1, <1>2, <1>3, <2>1 DEF Unelected, Needed, Elected, Completing
<1> QED
  BY <1>0, <1>4, <1>5, <1>6, <1>7, <1>8, <1>9, <1>10, <1>11, PlainMove DEF SlotThread

\* Every step keeps what Thread says of every node.
LEMMA ThreadStep ==
  ASSUME BlockInv, BallotInv', NEW n \in Node, Step(n), NEW m \in Node PROVE Thread(m)'
<1>0. /\ TypeOK /\ Forward
      /\ Thread(n) /\ Thread(m)
  BY ForwardStep DEF BlockInv, BallotInv, RemovalInv
<1>1. /\ own' = own
      /\ OwnBlock(m)' = OwnBlock(m)
      /\ Completed(broadcastBlock[m]) /\ broadcastBlock'[m] = broadcastBlock[m]
           => Completed(broadcastBlock[m])'
  <2>1. \A b : Completed(b) => Completed(b)'
    BY <1>0, ForwardKeeps
  <2> QED
    BY <1>0, <2>1, ForwardKeeps DEF Forward, Completed
<1>2. CASE m # n
  BY <1>0, <1>1, <1>2, Elsewhere DEF Thread
<1>3. CASE m = n /\ SlotThread(n)
  BY <1>3, ThreadOwn
<1>4. CASE m = n /\ (EventLoop(n) \/ Timer(n) \/ SpuriousWake(n))
  <2>1. /\ UNCHANGED <<pc, validator, broadcastBlock, entry>>
        /\ block'[n][n] = block[n][n]
    BY <1>4, ThreadOthers
  <2>2. n \in known[n] => n \in known'[n]
    BY <1>0, Grows
  <2>3. pc[n] \in Needed => \E a \in known'[n] : contributing'[n][a] = "yes"
    BY <1>0, SomebodyStep DEF Thread, Needed, Elected, SaveCompleteBlock, At
  <2> QED
    BY <1>0, <1>1, <1>4, <2>1, <2>2, <2>3 DEF Thread
<1> QED
  BY <1>2, <1>3, <1>4 DEF Step

\* The invariant of the block holds at the start of a slot.
LEMMA BlockInit == Init => BlockInv
<1> SUFFICES ASSUME Init PROVE BlockInv
  OBVIOUS
<1>1. BallotInv /\ RoundInv
  BY BallotInit, ElectionInit DEF ElectionInv
<1>2. Parcels
  BY DEF Init, Parcels
<1>3. Storage
  BY DEF Init, Storage, Stored
<1>4. \A n \in Node : Thread(n)
  BY DEF Init, Thread, Needed, Elected, Completing
<1> QED
  BY <1>1, <1>2, <1>3, <1>4 DEF BlockInv

\* Every step keeps the invariant of the block.
LEMMA BlockNext == BlockInv /\ [Next]_vars => BlockInv'
<1> SUFFICES ASSUME BlockInv, [Next]_vars PROVE BlockInv'
  OBVIOUS
<1>0. BallotInv' /\ RoundInv'
  BY BallotNext, ElectionNext DEF BlockInv, BallotInv, ElectionInv
<1>1. CASE UNCHANGED vars
  <2>1. \A b : Completed(b)' = Completed(b)
    BY <1>1 DEF vars, Completed, Contributors, Whole, Agreeing, CollisionFree
  <2>2. \A s \in Node : Parcel(s)' = Parcel(s)
    BY <1>1, <2>1 DEF vars, Parcel, Delegates
  <2>3. Parcels'
    BY <1>1, <2>2 DEF vars, BlockInv, Parcels
  <2>4. Storage'
    <3> SUFFICES ASSUME NEW n \in Node, NEW a \in Node, a # n
                 PROVE  /\ Stored(a, block[n][a])'
                        /\ resolved'[n][a] => validator'[a] = a /\ Completed(block[n][a])'
      BY DEF Storage
    <3>1. /\ Stored(a, block[n][a])
          /\ resolved[n][a] => validator[a] = a /\ Completed(block[n][a])
      BY DEF BlockInv, Storage
    <3>2. Completed(block[n][a])' = Completed(block[n][a])
      BY <1>1 DEF vars, Completed, Contributors, Whole, Agreeing, CollisionFree
    <3> QED
      BY <1>1, <3>1, <3>2 DEF vars, Stored, Delegates
  <2>5. \A n \in Node : Thread(n)'
    BY <1>1, <2>1 DEF vars, BlockInv, Thread, OwnBlock, Completed
  <2> QED
    BY <1>0, <2>3, <2>4, <2>5 DEF BlockInv
<1>2. ASSUME NEW n \in Node, Step(n) PROVE BlockInv'
  BY <1>0, <1>2, ParcelsStep, StorageStep, ThreadStep DEF BlockInv
<1> QED
  BY <1>1, <1>2 DEF Next

\* A node with data never takes its own pending block for a placeholder: it knows itself,
\* and it has told itself that it contributes.
THEOREM OwnBlocksKept == Spec => []OwnBlockKept
<1>1. BlockInv => OwnBlockKept
  BY DEF BlockInv, Thread, OwnBlockKept
<1> QED
  BY <1>1, BlockInit, BlockNext, PTL DEF Spec

\* Whatever is lost, and however the elections go, the block that a node writes is one that
\* a validator has completed, with data of contributors.
THEOREM SavedBlocksCompleted == Spec => []SavedIsCompleted
<1>1. BlockInv => SavedIsCompleted
  BY DEF BlockInv, Thread, Completing, Completed, SavedIsCompleted
<1> QED
  BY <1>1, BlockInit, BlockNext, PTL DEF Spec

\* In a later slot without collisions the block that a node writes holds the data of every
\* contributor, each once.
THEOREM BlocksComplete == Spec => []CompleteBlock
<1>1. BlockInv => CompleteBlock
  BY DEF BlockInv, Thread, Completing, Completed, Agreeing, CompleteBlock, WholeBlock, Whole
<1> QED
  BY <1>1, BlockInit, BlockNext, PTL DEF Spec

-----------------------------------------------------------------------------
(* A later slot in which no two nodes can draw the same value, or of two nodes *)
(* whatever they draw, implements the promise of SlotAgreement.                *)

Drawn == \A n \in Node : drawn[n] \subseteq Draws[n]

AgreementInv == BlockInv /\ Drawn

\* Nodes that draw from disjoint sets never collide.
LEMMA NeverCollide ==
  ASSUME Drawn,
         \/ \A n, m \in Node : n # m => Draws[n] \cap Draws[m] = {}
         \/ Cardinality(Node) = 2
  PROVE  Agreeing
  BY DEF Drawn, CollisionFree, Agreeing

\* A node draws what its generator gives.
LEMMA DrawnStep ==
  ASSUME TypeOK, Drawn, NEW n \in Node, Step(n) PROVE Drawn'
<1>1. CASE SendElectionValue(n)
  BY <1>1 DEF SendElectionValue, Drawn, TypeOK, NetworkOK
<1>2. CASE UNCHANGED drawn
  BY <1>2 DEF Drawn
<1> QED
  BY <1>1, <1>2, DrawStep

\* Three handlers write the entry of the slot, and three the block that is saved.
LEMMA OutcomeFrame ==
  ASSUME TypeOK, NEW n \in Node, Step(n)
  PROVE  /\ \/ entry'[n] = entry[n]
            \/ pc[n] = "save" /\ entry'[n] = "pending"
            \/ RemovePendingBlockIfNoOneIsContributing(n) /\ entry'[n] = "removed"
            \/ SaveCompleteBlock(n) /\ entry'[n] = "saved"
         /\ broadcastBlock'[n] = broadcastBlock[n] \/ pc[n] \in {"collect", "await", "awaitCv"}
<1> USE DEF TypeOK, ThreadsOK, StoreOK
<1>1. CASE Timer(n) \/ SpuriousWake(n) \/ EventLoop(n)
  BY <1>1, Zenon DEF EventLoop, AddContext, SetContribution, FillElectionValue,
     AddContributorBlock, AddBroadcastBlock, CheckCondition, StoreSynchronized, NotifyAll,
     Timer, InitConditions, InitContexts, SpuriousWake
<1>2. CASE SavePendingBlock(n)
  BY <1>2 DEF SavePendingBlock, At
<1>3. CASE RemovePendingBlockIfNoOneIsContributing(n)
  BY <1>3 DEF RemovePendingBlockIfNoOneIsContributing, EndIdleSlot
<1>4. CASE SaveCompleteBlock(n)
  BY <1>4 DEF SaveCompleteBlock
<1>5. CASE WaitForContributorsData(n) \/ WaitForBroadcast(n) \/ WaitForBroadcastCv(n)
  BY <1>5 DEF WaitForContributorsData, WaitForBroadcast, WaitForBroadcastCv, At
<1>6. CASE NominateValidator(n) \/ TransferDataToValidator(n)
  BY <1>6 DEF NominateValidator, TransferDataToValidator
<1> QED
  BY <1>1, <1>2, <1>3, <1>4, <1>5, <1>6, PlainMove DEF Step, SlotThread

\* The slot starts as SlotAgreement starts.
LEMMA AgreementInit == Init => Agreement!Init
<1> SUFFICES ASSUME Init PROVE Agreement!Init
  OBVIOUS
<1>1. Contributors \in SUBSET Node
  BY DEF Contributors
<1>2. \A n \in Node : OutcomeOf(n) = Agreement!Open
  BY DEF Init, OutcomeOf, Agreement!Open, Agreement!EmptyBlock, Agreement!PendingBlock,
     EmptyBlock, PendingBlock
<1> QED
  BY <1>1, <1>2, Zenon DEF Agreement!Init

\* A step of a node ends the slot as SlotAgreement allows, or changes no outcome.
LEMMA AgreementStep ==
  ASSUME AgreementInv, BlockInv', LaterSlot, Agreeing,
         NEW n \in Node, Step(n)
  PROVE  Agreement!Next \/ UNCHANGED Agreement!vars
<1> DEFINE out == [m \in Node |-> OutcomeOf(m)]
<1>0. /\ TypeOK /\ Thread(n) /\ Thread(n)' /\ Contributors' = Contributors
      /\ RemovalAgreement'
  BY ForwardStep, ForwardKeeps DEF AgreementInv, BlockInv, BallotInv, RemovalInv
<1>1. \A m \in Node : m # n => OutcomeOf(m)' = OutcomeOf(m)
  BY <1>0, Elsewhere DEF OutcomeOf
<1>2. ASSUME OutcomeOf(n)' = OutcomeOf(n) PROVE UNCHANGED Agreement!vars
  <2>1. \A m \in Node : OutcomeOf(m)' = OutcomeOf(m)
    BY <1>1, <1>2
  <2>2. out' = out
    BY <2>1, Zenon
  <2> QED
    BY <1>0, <2>2 DEF Agreement!vars
<1>3. ASSUME OutcomeOf(n) = Agreement!Open,
             OutcomeOf(n)' = IF Contributors = {} THEN Agreement!Removed ELSE Agreement!Saved
      PROVE  Agreement!Next
  <2>1. out' = [out EXCEPT ![n] = IF Contributors = {} THEN Agreement!Removed
                                                       ELSE Agreement!Saved]
    <3> DEFINE e == IF Contributors = {} THEN Agreement!Removed ELSE Agreement!Saved
    <3>1. OutcomeOf(n)' = e
      BY <1>3
    <3>2. \A m \in Node : OutcomeOf(m)' = IF m = n THEN e ELSE OutcomeOf(m)
      BY <1>1, <3>1
    <3>3. out' = [m \in Node |-> OutcomeOf(m)']
      OBVIOUS
    <3> HIDE DEF e
    <3>4. [m \in Node |-> OutcomeOf(m)'] = [out EXCEPT ![n] = e]
      BY <3>2
    <3> QED
      BY <3>3, <3>4 DEF e
  <2>2. out[n] = Agreement!Open
    BY <1>3
  <2>3. Agreement!End(n)
    BY <1>0, <2>1, <2>2 DEF Agreement!End
  <2> QED
    BY <2>3 DEF Agreement!Next
<1>4. CASE /\ entry'[n] = entry[n] \/ (pc[n] = "save" /\ entry'[n] = "pending")
  <2>1. entry[n] # entry'[n] => entry[n] \notin {"removed", "saved"}
    BY <1>0, <1>4 DEF Thread
  <2>2. entry[n] = "saved" => broadcastBlock'[n] = broadcastBlock[n]
    BY <1>0, OutcomeFrame DEF Thread
  <2>3. OutcomeOf(n)' = OutcomeOf(n)
    BY <1>4, <2>1, <2>2 DEF OutcomeOf, EmptyBlock, PendingBlock
  <2> QED
    BY <1>2, <2>3
<1>5. CASE RemovePendingBlockIfNoOneIsContributing(n) /\ entry'[n] = "removed"
  <2>1. pc[n] = "remove"
    BY <1>5 DEF RemovePendingBlockIfNoOneIsContributing, At
  <2>2. OutcomeOf(n) = Agreement!Open
    BY <1>0, <2>1 DEF Thread, OutcomeOf, Agreement!Open, Agreement!EmptyBlock,
       Agreement!PendingBlock, EmptyBlock, PendingBlock
  <2>3. Contributors = {}
    BY <1>0, <1>5 DEF RemovalAgreement, LaterSlot
  <2>4. OutcomeOf(n)' = Agreement!Removed
    BY <1>5 DEF OutcomeOf, Agreement!Removed, Agreement!EmptyBlock, Agreement!PendingBlock,
       EmptyBlock, PendingBlock
  <2> QED
    BY <1>3, <2>2, <2>3, <2>4
<1>6. CASE SaveCompleteBlock(n) /\ entry'[n] = "saved"
  <2>1. pc[n] = "store"
    BY <1>6 DEF SaveCompleteBlock, At
  <2>2. OutcomeOf(n) = Agreement!Open
    BY <1>0, <2>1 DEF Thread, OutcomeOf, Agreement!Open, Agreement!EmptyBlock,
       Agreement!PendingBlock, EmptyBlock, PendingBlock
  <2>3. Completed(broadcastBlock[n]) /\ broadcastBlock'[n] = broadcastBlock[n]
    BY <1>0, <1>6, <2>1 DEF Thread, Completing, SaveCompleteBlock
  <2>4. Contributors # {} /\ broadcastBlock[n] = Whole
    BY <2>3 DEF Completed
  <2>5. OutcomeOf(n)' = Agreement!Saved
    BY <1>6, <2>3, <2>4 DEF OutcomeOf, Agreement!Saved, Whole
  <2> QED
    BY <1>3, <2>2, <2>4, <2>5
<1> QED
  BY <1>0, <1>4, <1>5, <1>6, OutcomeFrame

\* When contexts has an entry for every node, and no two nodes can draw the same value or there
\* are but two, every behaviour of the slot is one of SlotAgreement: whatever is lost, delayed
\* or interleaved, the nodes that end the slot end it in the same way.
THEOREM AgreementImplemented ==
  ASSUME LaterSlot,
         \/ \A n, m \in Node : n # m => Draws[n] \cap Draws[m] = {}
         \/ Cardinality(Node) = 2
  PROVE  Spec => AgreementSpec
<1>1. Init => AgreementInv
  BY BlockInit DEF AgreementInv, Drawn, Init
<1>2. AgreementInv /\ [Next]_vars => AgreementInv'
  <2> SUFFICES ASSUME AgreementInv, [Next]_vars PROVE Drawn'
    BY BlockNext DEF AgreementInv
  <2>1. CASE UNCHANGED vars
    BY <2>1 DEF vars, AgreementInv, Drawn
  <2>2. ASSUME NEW n \in Node, Step(n) PROVE Drawn'
    BY <2>2, DrawnStep DEF AgreementInv, BlockInv, BallotInv, RemovalInv
  <2> QED
    BY <2>1, <2>2 DEF Next
<1>3. AgreementInv /\ AgreementInv' /\ [Next]_vars => [Agreement!Next]_(Agreement!vars)
  <2> SUFFICES ASSUME AgreementInv, AgreementInv', [Next]_vars
               PROVE  Agreement!Next \/ UNCHANGED Agreement!vars
    OBVIOUS
  <2>1. CASE UNCHANGED vars
    BY <2>1 DEF vars, Agreement!vars, Contributors, OutcomeOf
  <2>2. ASSUME NEW n \in Node, Step(n) PROVE Agreement!Next \/ UNCHANGED Agreement!vars
    <3>1. Agreeing
      BY NeverCollide DEF AgreementInv
    <3> QED
      BY <2>2, <3>1, AgreementStep DEF AgreementInv
  <2> QED
    BY <2>1, <2>2 DEF Next
<1> QED
  BY <1>1, <1>2, <1>3, AgreementInit, PTL DEF Spec, AgreementSpec, Agreement!Spec
-----------------------------------------------------------------------------
(* The order of a later slot: what a node knows at each handler, and what that *)
(* says about the other nodes.                                                 *)

NotDrawnYet == {"save", "announce", "inspect", "remove", "removed"}

EveryoneHasDrawn == \A a \in Node : drawn[a] # {}

\* Between the inspection and clearSlot a node has an answer of every node.
Answered(n) ==
  pc[n] \notin {"save", "announce", "inspect", "publish", "done"} =>
    \A a \in Node : contributing[n][a] # "unset"

\* Between the election and clearSlot a node has a value of every node.
Voted(n) ==
  /\ pc[n] \in {"nominate", "store"} \cup Elected => \A a \in Node : value[n][a] # 0
  /\ pc[n] \in Completing \cup Elected => validator[n] # NoNode

\* Who marks a validator has a value of every node, and so has every node drawn.  Who has
\* not repeated the election has drawn at most once.
Draw(n) ==
  /\ drawn[n] # {} => pc[n] \notin NotDrawnYet
  /\ validator[n] # NoNode => EveryoneHasDrawn
  /\ purges[n] = 0 => /\ \A v, w \in drawn[n] : v = w
                      /\ pc[n] \in BeforeElection => drawn[n] = {}
  /\ pc[n] = "electRetest" =>
       \/ Present(n) /\ Unique(n)
       \/ \E m \in Node \ {n} : purges[m] > 0

OrderInv ==
  BlockInv /\ (LaterSlot => \A n \in Node : Answered(n) /\ Voted(n) /\ Draw(n))

\* A node keeps the answers until clearSlot.
LEMMA AnsweredStep ==
  ASSUME LaterSlot, OrderInv, NEW n \in Node, Step(n), NEW m \in Node PROVE Answered(m)'
<1>0. TypeOK /\ Answered(m) /\ known[n] = Node
  BY DEF OrderInv, BlockInv, BallotInv, RemovalInv, KnowsAll
<1>1. CASE m # n
  BY <1>0, <1>1, Elsewhere DEF Answered
<1>2. CASE m = n
  <2>1. Confirmed(n) => \A a \in Node : contributing[n][a] # "unset"
    BY <1>0 DEF Confirmed, AreAllContributorsConfirmed
  <2>2. SaveCompleteBlock(n) => pc'[n] = "publish"
    BY <1>0 DEF SaveCompleteBlock, Goto, TypeOK, ThreadsOK
  <2>3. pc'[n] \notin {"save", "announce", "inspect", "publish", "done"} =>
          \/ pc[n] \notin {"save", "announce", "inspect", "publish", "done"}
          \/ Confirmed(n)
    BY <1>0, MoveStep DEF Moves, PlainMoves
  <2> QED
    BY <1>0, <1>2, <2>1, <2>2, <2>3, Grows DEF Answered
<1> QED
  BY <1>1, <1>2

\* A value that arrives is one that its sender has drawn.
LEMMA FilledValue ==
  ASSUME BlockInv, NEW n \in Node, FillElectionValue(n)
  PROVE  \E s \in Node \ {n} : \E v \in drawn[s] \ {0} :
           value' = [value EXCEPT ![n][s] = v]
<1>1. PICK s \in Node : /\ Arrived(n, s, "ELECTION")
                        /\ value' = [value EXCEPT ![n][s] = Head(chan[s][n]).value]
                        /\ Consume(n, s)
  BY DEF FillElectionValue
<1>2. s # n
  BY <1>1 DEF Arrived, BlockInv, Parcels
<1>3. Head(chan[s][n]) \in Honest(s)
  BY <1>1, ConsumeHonest DEF Arrived, BlockInv, BallotInv, RemovalInv
<1>4. Head(chan[s][n]).value \in drawn[s] \ {0}
  BY <1>1, <1>3 DEF Arrived, Honest, Message
<1> QED
  BY <1>1, <1>2, <1>4

\* Nobody draws twice without a re-election, and who marks a validator has seen that every
\* node has drawn.
LEMMA DrawKept ==
  ASSUME LaterSlot, OrderInv, NEW n \in Node, Step(n), NEW m \in Node PROVE Draw(m)'
<1>0. /\ TypeOK /\ Draw(m) /\ known[m] = Node /\ known'[m] = Node /\ Forward
      /\ \A a \in Node : purges[a] \in Nat
  <2>1. KnowsAll /\ KnowsAll'
    BY KnownKept DEF OrderInv, BlockInv, BallotInv, RemovalInv
  <2> QED
    BY <2>1, ForwardStep DEF OrderInv, BlockInv, BallotInv, RemovalInv, KnowsAll, TypeOK,
       NetworkOK, LaterSlot
<1>1. \A a \in Node : purges[a] > 0 => purges'[a] > 0
  <2> TAKE a \in Node
  <2>1. purges \in [Node -> Nat]
    BY <1>0 DEF TypeOK, NetworkOK
  <2>2. CASE purges' = [purges EXCEPT ![n] = purges[n] + 1]
    BY <2>1, <2>2
  <2> QED
    BY <1>0, <2>2, PurgeStep
<1>2. ASSUME SendElectionValue(n)
      PROVE  /\ pc[n] = "elect" /\ pc'[n] = "electLoop" /\ UNCHANGED purges
             /\ \E v : drawn'[n] = drawn[n] \cup {v}
  <2>1. PICK v \in Draws[n] : drawn' = [drawn EXCEPT ![n] = @ \cup {v}]
    BY <1>2 DEF SendElectionValue
  <2>2. drawn'[n] = drawn[n] \cup {v}
    BY <1>0, <2>1 DEF TypeOK, NetworkOK
  <2> QED
    BY <1>0, <1>2, <2>2 DEF SendElectionValue, At, Goto, TypeOK, ThreadsOK
<1>3. drawn'[m] # {} => pc'[m] \notin NotDrawnYet
  <2>1. CASE m # n
    BY <1>0, <2>1, Elsewhere DEF Draw
  <2>2. CASE m = n
    BY <1>0, <1>2, <2>2, DrawStep, MoveStep DEF Draw, NotDrawnYet, Moves, PlainMoves
  <2> QED
    BY <2>1, <2>2
<1>4. validator'[m] # NoNode => EveryoneHasDrawn'
  <2>1. EveryoneHasDrawn => EveryoneHasDrawn'
    BY <1>0 DEF EveryoneHasDrawn, Forward
  <2>2. CASE NominateValidator(n) /\ m = n
    <3>1. \A a \in Node : value[n][a] # 0
      BY <2>2 DEF NominateValidator, At, OrderInv, BlockInv, BallotInv, OneBallot
    <3>2. \A a \in Node : drawn[a] # {}
      BY <3>1 DEF OrderInv, BlockInv, BallotInv, RemovalInv, Honesty
    <3> QED
      BY <2>1, <3>2 DEF EveryoneHasDrawn
  <2>3. CASE validator'[m] = validator[m]
    BY <1>0, <2>1, <2>3 DEF Draw
  <2> QED
    BY <1>0, <2>2, <2>3, MarkStep, Elsewhere
<1>5. purges'[m] = 0 => /\ \A v, w \in drawn'[m] : v = w
                        /\ pc'[m] \in BeforeElection => drawn'[m] = {}
  <2>1. CASE m # n
    BY <1>0, <2>1, Elsewhere DEF Draw
  <2>2. CASE m = n
    <3> SUFFICES ASSUME purges'[n] = 0
                 PROVE  /\ \A v, w \in drawn'[n] : v = w
                        /\ pc'[n] \in BeforeElection => drawn'[n] = {}
      BY <2>2
    <3>1. UNCHANGED purges
      BY <1>0, PurgeStep DEF TypeOK, NetworkOK
    <3>2. purges[n] = 0
      BY <3>1
    <3>3. CASE SendElectionValue(n)
      <4>1. drawn[n] = {}
        BY <1>0, <1>2, <2>2, <3>2, <3>3 DEF Draw, BeforeElection
      <4> QED
        BY <1>2, <3>3, <4>1 DEF BeforeElection
    <3>4. CASE UNCHANGED drawn
      <4>1. pc'[n] \in BeforeElection => pc[n] \in BeforeElection
        <5>1. ~RemoveDuplicates(n)
          BY <1>0, <3>1 DEF RemoveDuplicates, TypeOK, NetworkOK
        <5>2. pc[n] # "purge" \/ pc'[n] # "elect"
          BY <1>0, <5>1, OnlyPurgeLeaves
        <5> QED
          BY <1>0, <5>2, MoveStep DEF Moves, PlainMoves, BeforeElection
      <4> QED
        BY <1>0, <2>2, <3>2, <3>4, <4>1 DEF Draw
    <3> QED
      BY <1>0, <3>3, <3>4, DrawStep
  <2> QED
    BY <2>1, <2>2
<1>6. pc'[m] = "electRetest" => \/ (Present(m) /\ Unique(m))'
                                \/ \E k \in Node \ {m} : purges'[k] > 0
  <2> SUFFICES ASSUME pc'[m] = "electRetest", \A k \in Node \ {m} : purges[k] = 0
               PROVE  (Present(m) /\ Unique(m))'
    BY <1>0, <1>1
  <2>1. Present(m) /\ Unique(m)
    <3>1. CASE pc[m] = "electRetest"
      BY <1>0, <3>1 DEF Draw
    <3>2. CASE pc[m] # "electRetest"
      BY <1>0, <3>2, MoveStep, Elsewhere
    <3> QED
      BY <3>1, <3>2
  <2>2. value'[m] = value[m]
    <3>1. CASE m # n
      BY <1>0, <3>1, Elsewhere
    <3>2. CASE m = n
      <4>1. ~SendElectionValue(n) /\ ~RemoveDuplicates(n) /\ ~SaveCompleteBlock(n)
        BY <1>0, <3>2 DEF SendElectionValue, RemoveDuplicates, SaveCompleteBlock, Goto,
           TypeOK, ThreadsOK
      <4>2. CASE FillElectionValue(n)
        <5>0. PICK s \in Node \ {n} : \E v \in drawn[s] \ {0} :
                value' = [value EXCEPT ![n][s] = v]
          BY <4>2, FilledValue DEF OrderInv
        <5>1. PICK v \in drawn[s] \ {0} : value' = [value EXCEPT ![n][s] = v]
          BY <5>0
        <5>2. value[n][s] # 0
          BY <1>0, <2>1, <3>2 DEF Present, AreAllElectionValuesPresent
        <5>3. value[n][s] \in drawn[s] /\ purges[s] = 0
          BY <3>2, <5>2 DEF OrderInv, BlockInv, BallotInv, RemovalInv, Honesty
        <5>4. value[n][s] = v
          BY <5>1, <5>3 DEF OrderInv, Draw
        <5> QED
          BY <1>0, <3>2, <5>1, <5>4 DEF TypeOK, StoreOK
      <4> QED
        BY <1>0, <4>1, <4>2, ValueStep
    <3> QED
      BY <3>1, <3>2
  <2> QED
    BY <1>0, <2>1, <2>2 DEF Present, Unique, AreAllElectionValuesPresent,
       IsElectionValueUnique
<1> QED
  BY <1>3, <1>4, <1>5, <1>6 DEF Draw

\* A node keeps the values from its nomination until clearSlot.
LEMMA VotedStep ==
  ASSUME LaterSlot, OrderInv, NEW n \in Node, Step(n), NEW m \in Node PROVE Voted(m)'
<1> USE DEF TypeOK, ThreadsOK, StoreOK
<1>0. TypeOK /\ Voted(m) /\ Forward
  BY ForwardStep DEF OrderInv, BlockInv, BallotInv, RemovalInv
<1>1. CASE m # n
  BY <1>0, <1>1, Elsewhere DEF Voted
<1>2. CASE m = n
  <2>1. pc[n] = "nominate" => \A a \in Node : value[n][a] # 0
    BY DEF OrderInv, BlockInv, BallotInv, OneBallot
  <2>2. OneBallot'
    BY BallotNext DEF OrderInv, BlockInv, BallotInv, Next
  <2>3. pc'[n] = "nominate" => \A a \in Node : value'[n][a] # 0
    BY <2>2 DEF OneBallot, LaterSlot
  <2>4. pc'[n] \in {"store"} \cup Elected => pc[n] \in {"nominate", "store"} \cup Elected
    BY <1>0, MoveStep DEF Moves, PlainMoves, Elected
  <2>5. \A a \in Node : value[n][a] # 0 /\ pc'[n] \in {"store"} \cup Elected => value'[n][a] # 0
    <3>1. CASE FillElectionValue(n)
      <4>0. PICK s \in Node \ {n} : \E v \in drawn[s] \ {0} :
              value' = [value EXCEPT ![n][s] = v]
        BY <3>1, FilledValue DEF OrderInv
      <4> QED
        BY <1>0, <4>0
    <3>2. CASE SendElectionValue(n) \/ RemoveDuplicates(n) \/ SaveCompleteBlock(n)
      BY <1>0, <3>2 DEF SendElectionValue, RemoveDuplicates, SaveCompleteBlock, Goto, Elected
    <3> QED
      BY <1>0, <3>1, <3>2, ValueStep
  <2>6. pc'[n] \in Completing \cup Elected => validator'[n] # NoNode
    <3>1. CASE NominateValidator(n)
      <4>1. TypeOK'
        BY BallotNext DEF OrderInv, BlockInv, BallotInv, RemovalInv, Next
      <4>2. pc'[n] = "relay"
        BY <1>0, <3>1 DEF NominateValidator, Goto
      <4> QED
        BY <4>1, <4>2, NodeAssumption DEF Elected
    <3>2. CASE UNCHANGED validator
      <4>1. pc'[n] \in Completing \cup Elected =>
              pc[n] \in Completing \cup Elected \/ NominateValidator(n)
        <5>1. pc[n] = "nominate" /\ pc'[n] = "relay" => NominateValidator(n)
          BY <1>0, NominateMoves
        <5> QED
          BY <1>0, <5>1, MoveStep DEF Moves, PlainMoves, Completing, Elected
      <4> QED
        BY <1>0, <1>2, <3>1, <3>2, <4>1 DEF Voted
    <3> QED
      BY <1>0, <3>1, <3>2, MarkStep
  <2> QED
    BY <1>0, <1>2, <2>1, <2>3, <2>4, <2>5, <2>6 DEF Voted
<1> QED
  BY <1>1, <1>2

\* The order of the slot holds at its start.
LEMMA OrderInit == Init => OrderInv
<1> SUFFICES ASSUME Init PROVE OrderInv
  OBVIOUS
<1>1. BlockInv
  BY BlockInit
<1>2. \A n \in Node : Answered(n) /\ Voted(n) /\ Draw(n)
  BY DEF Init, Answered, Voted, Draw, Elected, Completing
<1> QED
  BY <1>1, <1>2 DEF OrderInv

\* Every step keeps the order of the slot.
LEMMA OrderNext == OrderInv /\ [Next]_vars => OrderInv'
<1> SUFFICES ASSUME OrderInv, [Next]_vars PROVE OrderInv'
  OBVIOUS
<1>0. BlockInv'
  BY BlockNext DEF OrderInv
<1>1. CASE UNCHANGED vars
  BY <1>0, <1>1 DEF vars, OrderInv, LaterSlot, Answered, Voted, Draw, EveryoneHasDrawn, Present,
     Unique
<1>2. ASSUME NEW n \in Node, Step(n) PROVE OrderInv'
  BY <1>0, <1>2, AnsweredStep, VotedStep, DrawKept DEF OrderInv, LaterSlot
<1> QED
  BY <1>1, <1>2 DEF Next

-----------------------------------------------------------------------------
(* Why a process dies only as CrashExplained says, in a later slot.            *)

\* What the thread does before it needs the SlotSychronizationContext.
Beginning == {"save", "announce", "inspect"}

\* The timer makes the SlotSychronizationContext, and no thread that has not found it gets
\* past its first wait; it is there until clearSlot.
Equipped(n) ==
  timer[n] # "conditions" \/ pc[n] \notin Beginning => cond[n] \/ Cleared(n)

\* The event loop works on a message that only a node which is ready for it gets.
LoopReady(n) ==
  /\ loop[n].stage \in {"addContext", "confirmed", "store", "notify"} => cond[n] \/ Cleared(n)
  /\ loop[n].stage = "collected" => EveryoneHasDrawn

CrashInv ==
  /\ OrderInv
  /\ \A n \in Node : Equipped(n) /\ LoopReady(n)
  /\ CrashExplained

\* cond and timer change in four steps.
LEMMA SyncStep ==
  ASSUME TypeOK, NEW n \in Node, Step(n)
  PROVE  /\ \/ timer'[n] = timer[n] /\ (cond'[n] = cond[n] \/ cond'[n])
            \/ timer'[n] # timer[n] /\ timer[n] # "done" /\ cond'[n] = cond[n]
                                    /\ timer[n] # "conditions"
            \/ timer[n] = "conditions" /\ cond'[n]
            \/ timer'[n] = timer[n] /\ SaveCompleteBlock(n) /\ pc'[n] = "publish"
         /\ AddContext(n) => cond'[n]
<1> USE DEF TypeOK, ThreadsOK
<1>1. CASE Timer(n)
  <2>1. ~AddContext(n)
    BY <1>1 DEF Timer, InitConditions, InitContexts, AddContext
  <2> QED
    BY <1>1, <2>1 DEF Timer, InitConditions, InitContexts
<1>2. CASE AddContext(n)
  BY <1>2 DEF AddContext
<1>3. CASE SaveCompleteBlock(n)
  <2>1. ~AddContext(n)
    BY <1>3 DEF AddContext, SaveCompleteBlock, At, Goto
  <2> QED
    BY <1>3, <2>1 DEF SaveCompleteBlock, Goto
<1>4. CASE ~(Timer(n) \/ AddContext(n) \/ SaveCompleteBlock(n))
  <2>1. UNCHANGED <<cond, timer>>
    BY <1>4, Zenon DEF Step, SpuriousWake, EventLoop, SetContribution, FillElectionValue,
       AddContributorBlock, AddBroadcastBlock, CheckCondition, StoreSynchronized, NotifyAll,
       SlotThread, SavePendingBlock, NotifyNodesAboutContribution, WaitForNodesInspection,
       RemovePendingBlockIfNoOneIsContributing, EndIdleSlot, SendElectionValue,
       TestElectionLoop, WaitForNodesElection, RemoveDuplicates, RetestElectionLoop,
       NominateValidator, TransferDataToValidator, WaitForContributorsData, Broadcast,
       WaitForBroadcast, WaitForBroadcastCv, PublishBlock, Park
  <2> QED
    BY <1>4, <2>1
<1> QED
  BY <1>1, <1>2, <1>3, <1>4

\* The thread leaves its first wait with the SlotSychronizationContext.
LEMMA BeginStep ==
  ASSUME TypeOK, NEW n \in Node, Step(n), pc[n] \in Beginning, pc'[n] \notin Beginning
  PROVE  cond[n] /\ cond'[n] = cond[n]
<1> USE DEF TypeOK, ThreadsOK, Beginning
<1>1. <<pc[n], pc'[n]>> = <<"inspect", "remove">>
  BY MoveStep DEF Moves, PlainMoves
<1>2. CASE WaitForNodesInspection(n)
  BY <1>1, <1>2 DEF WaitForNodesInspection
<1>3. CASE ~WaitForNodesInspection(n)
  <2>1. pc'[n] = pc[n] \/ pc[n] # "inspect"
    BY <1>3, Zenon DEF Step, SpuriousWake, EventLoop, AddContext, SetContribution,
       FillElectionValue, AddContributorBlock, AddBroadcastBlock, CheckCondition,
       StoreSynchronized, NotifyAll, Timer, InitConditions, InitContexts,
       SlotThread, SavePendingBlock, NotifyNodesAboutContribution, At,
       RemovePendingBlockIfNoOneIsContributing, SendElectionValue, TestElectionLoop,
       WaitForNodesElection, RemoveDuplicates, RetestElectionLoop, NominateValidator,
       TransferDataToValidator, WaitForContributorsData, Broadcast, WaitForBroadcast,
       WaitForBroadcastCv, SaveCompleteBlock, PublishBlock, Park, threadVars
  <2> QED
    BY <1>1, <2>1
<1> QED
  BY <1>2, <1>3

\* A node stays equipped.
LEMMA EquippedStep ==
  ASSUME CrashInv, NEW n \in Node, Step(n), NEW m \in Node
  PROVE  Equipped(m)'
<1>0. TypeOK /\ Equipped(m)
  BY DEF CrashInv, OrderInv, BlockInv, BallotInv, RemovalInv
<1>1. CASE m # n
  BY <1>0, <1>1, Elsewhere DEF Equipped, Cleared
<1>2. CASE m = n
  <2>1. Cleared(n) => Cleared(n)'
    BY <1>0, MoveStep DEF Moves, PlainMoves, Cleared
  <2>2. pc[n] \notin Beginning => pc'[n] \notin Beginning
    BY <1>0, MoveStep DEF Moves, PlainMoves, Beginning
  <2>3. CASE pc[n] \in Beginning /\ pc'[n] \notin Beginning
    BY <1>0, <1>2, <2>3, BeginStep DEF Equipped
  <2>4. CASE ~(pc[n] \in Beginning /\ pc'[n] \notin Beginning)
    BY <1>0, <1>2, <2>1, <2>2, <2>4, SyncStep DEF Equipped, Cleared
  <2> QED
    BY <2>3, <2>4
<1> QED
  BY <1>1, <1>2

\* Who marks a validator has drawn, and who has drawn has its SlotSychronizationContext until
\* clearSlot.
LEMMA DrawnReady ==
  ASSUME LaterSlot, CrashInv, NEW n \in Node, drawn[n] # {}
  PROVE  cond[n] \/ Cleared(n)
<1>1. pc[n] \notin NotDrawnYet
  BY DEF CrashInv, OrderInv, Draw
<1> QED
  BY <1>1 DEF CrashInv, Equipped, NotDrawnYet, Beginning

\* A block arrives only from a node that has marked a validator.
LEMMA BlockArrives ==
  ASSUME LaterSlot, CrashInv, NEW n \in Node, NEW s \in Node, NEW op, Arrived(n, s, op),
         op \in {"UPLOADING", "BROADCAST"}
  PROVE  EveryoneHasDrawn
<1> DEFINE q == chan[s][n]
           S == Parcel(s)
<1>1. q \in Seq(S) /\ q # <<>> /\ Head(q).op = op
  BY DEF CrashInv, OrderInv, BlockInv, Parcels, Arrived
<1>2. Head(q) \in S
  <2> HIDE DEF q, S
  <2> QED
    BY <1>1
<1>3. validator[s] # NoNode
  <2> HIDE DEF q
  <2> QED
    BY <1>1, <1>2, NodeAssumption DEF Parcel, Delegates
<1> QED
  BY <1>3 DEF CrashInv, OrderInv, Draw

\* What the event loop of a later slot works on finds its SlotSychronizationContext, unless
\* the slot has been cleared.
LEMMA LoopStep ==
  ASSUME LaterSlot, CrashInv, NEW n \in Node, Step(n), NEW m \in Node PROVE LoopReady(m)'
<1> USE DEF TypeOK, ThreadsOK
<1>0. /\ TypeOK /\ LoopReady(m) /\ known[n] = Node /\ Forward
  BY ForwardStep DEF CrashInv, OrderInv, BlockInv, BallotInv, RemovalInv, KnowsAll
<1>1. EveryoneHasDrawn => EveryoneHasDrawn'
  BY <1>0 DEF EveryoneHasDrawn, Forward
<1>2. CASE m # n
  BY <1>0, <1>1, <1>2, Elsewhere DEF LoopReady, Cleared
<1>3. cond[n] \/ Cleared(n) => cond'[n] \/ Cleared(n)'
  <2>1. Cleared(n) => Cleared(n)'
    BY <1>0, MoveStep DEF Moves, PlainMoves, Cleared
  <2> QED
    BY <1>0, <2>1, SyncStep DEF Cleared
<1>4. EveryoneHasDrawn => cond[n] \/ Cleared(n)
  BY DrawnReady DEF EveryoneHasDrawn
<1>5. CASE m = n /\ loop'[n] = loop[n]
  BY <1>0, <1>1, <1>3, <1>5 DEF LoopReady
<1>6. CASE m = n /\ loop'[n] # loop[n]
  <2>0. EventLoop(n)
    <3>1. Timer(n) \/ SpuriousWake(n) \/ SlotThread(n) => UNCHANGED loop
      BY Zenon DEF SlotThread, SavePendingBlock, NotifyNodesAboutContribution,
         WaitForNodesInspection, RemovePendingBlockIfNoOneIsContributing, SendElectionValue,
         TestElectionLoop, WaitForNodesElection, RemoveDuplicates, RetestElectionLoop,
         NominateValidator, TransferDataToValidator, WaitForContributorsData, Broadcast,
         WaitForBroadcast, WaitForBroadcastCv, SaveCompleteBlock, PublishBlock, Park, Timer,
         InitConditions, InitContexts, SpuriousWake
    <3> QED
      BY <1>6, <3>1 DEF Step
  <2>1. CASE AddContext(n)
    <3>1. loop'[n].stage = "addContext"
      BY <1>0, <2>1 DEF AddContext
    <3> QED
      BY <1>0, <1>6, <2>1, <3>1, SyncStep DEF LoopReady
  <2>2. CASE SetContribution(n)
    BY <1>0, <1>3, <1>6, <2>2 DEF SetContribution, Work, LoopReady
  <2>3. CASE FillElectionValue(n)
    BY <1>0, <1>6, <2>3 DEF FillElectionValue, Work, LoopReady
  <2>4. CASE AddContributorBlock(n)
    <3>1. EveryoneHasDrawn
      BY <2>4, BlockArrives DEF AddContributorBlock
    <3> QED
      BY <1>0, <1>1, <1>6, <2>4, <3>1 DEF AddContributorBlock, Work, LoopReady
  <2>5. CASE AddBroadcastBlock(n)
    <3>1. EveryoneHasDrawn
      BY <2>5, BlockArrives DEF AddBroadcastBlock
    <3> QED
      BY <1>0, <1>3, <1>4, <1>6, <2>5, <3>1 DEF AddBroadcastBlock, Work, LoopReady
  <2>6. CASE CheckCondition(n)
    <3>1. loop'[n].stage \in {"store", "idle"}
      BY <1>0, <1>6, <2>6 DEF CheckCondition, Work, Crash
    <3>2. loop'[n].stage = "store" => \/ loop[n].stage \in {"confirmed", "collected"}
                                      \/ Present(n)
      BY <1>0, <1>6, <2>6 DEF CheckCondition, Work, Crash
    <3>3. Present(n) => drawn[n] # {}
      <4>1. Present(n) => value[n][n] # 0
        BY <1>0 DEF Present, AreAllElectionValuesPresent
      <4> QED
        BY <4>1 DEF CrashInv, OrderInv, BlockInv, BallotInv, RemovalInv, Honesty
    <3>4. loop'[n].stage = "store" => cond[n] \/ Cleared(n)
      BY <1>0, <1>4, <1>6, <3>2, <3>3, DrawnReady DEF LoopReady
    <3> QED
      BY <1>3, <1>6, <3>1, <3>4 DEF LoopReady
  <2>7. CASE StoreSynchronized(n)
    <3>1. loop[n].stage = "store" /\ loop'[n].stage = "notify"
      BY <1>0, <1>6, <2>7 DEF StoreSynchronized, Work
    <3> QED
      BY <1>0, <1>3, <1>6, <3>1 DEF LoopReady
  <2>8. CASE NotifyAll(n)
    <3>1. loop'[n].stage = "idle"
      BY <1>0, <1>6, <2>8 DEF NotifyAll, Work
    <3> QED
      BY <1>6, <3>1 DEF LoopReady
  <2> QED
    BY <2>0, <2>1, <2>2, <2>3, <2>4, <2>5, <2>6, <2>7, <2>8 DEF EventLoop
<1> QED
  BY <1>2, <1>5, <1>6

\* The steps that end a process.
LEMMA FaultStep ==
  ASSUME TypeOK, NEW n \in Node, Step(n), fault'[n] # fault[n]
  PROVE  \/ /\ pc[n] = "inspect" /\ ~cond[n]
            /\ fault'[n] = "nullSync" /\ pc'[n] = pc[n] /\ timer'[n] = timer[n]
         \/ pc[n] = "remove" /\ "throw" \in IsAnyNodeContributing(known[n], contributing[n])
         \/ /\ pc[n] = "electRetest" /\ ~(Present(n) /\ Unique(n))
            /\ fault'[n] = "relock"
         \/ pc[n] = "collect" /\ "throw" \in Collected(n)
         \/ /\ loop[n].stage = "collected" /\ "throw" \in Collected(n)
            /\ fault'[n] # "relock" /\ pc'[n] = pc[n]
         \/ /\ loop[n].stage \in {"store", "notify"} /\ ~cond[n]
            /\ fault'[n] # "relock" /\ pc'[n] = pc[n]
<1> USE DEF TypeOK, ThreadsOK
<1>1. CASE WaitForNodesInspection(n)
  BY <1>1 DEF WaitForNodesInspection, At, Crash, timerVars
<1>2. CASE RemovePendingBlockIfNoOneIsContributing(n)
  BY <1>2 DEF RemovePendingBlockIfNoOneIsContributing, At
<1>3. CASE RetestElectionLoop(n)
  BY <1>3 DEF RetestElectionLoop, Crash, At
<1>4. CASE WaitForContributorsData(n)
  BY <1>4 DEF WaitForContributorsData, At
<1>5. CASE CheckCondition(n)
  BY <1>5 DEF CheckCondition, Crash
<1>6. CASE StoreSynchronized(n) \/ NotifyAll(n)
  BY <1>6 DEF StoreSynchronized, NotifyAll, Crash
<1>7. CASE ~(\/ WaitForNodesInspection(n) \/ RemovePendingBlockIfNoOneIsContributing(n)
             \/ RetestElectionLoop(n) \/ WaitForContributorsData(n) \/ CheckCondition(n)
             \/ StoreSynchronized(n) \/ NotifyAll(n))
  <2>1. UNCHANGED fault
    BY <1>7, Zenon DEF Step, Timer, InitConditions, InitContexts, SpuriousWake, EventLoop,
       AddContext, SetContribution, FillElectionValue, AddContributorBlock,
       AddBroadcastBlock, SlotThread, SavePendingBlock, NotifyNodesAboutContribution,
       SendElectionValue, TestElectionLoop, WaitForNodesElection, RemoveDuplicates,
       NominateValidator, TransferDataToValidator, Broadcast, WaitForBroadcast,
       WaitForBroadcastCv, SaveCompleteBlock, PublishBlock, Park
  <2> QED
    BY <2>1
<1> QED
  BY <1>1, <1>2, <1>3, <1>4, <1>5, <1>6, <1>7

\* A step ends a process only as CrashExplained says.
LEMMA CrashStep ==
  ASSUME LaterSlot, CrashInv, NEW n \in Node, Step(n) PROVE CrashExplained'
<1>0. /\ TypeOK /\ Equipped(n) /\ Answered(n) /\ Draw(n) /\ LoopReady(n)
      /\ known[n] = Node
      /\ fault[n] = "none"
  BY DEF CrashInv, OrderInv, BlockInv, BallotInv, RemovalInv, KnowsAll, Step
<1>1. \A a \in Node : purges[a] > 0 => purges'[a] > 0
  <2> TAKE a \in Node
  <2>1. purges \in [Node -> Nat]
    BY <1>0 DEF TypeOK, NetworkOK
  <2>2. CASE purges' = [purges EXCEPT ![n] = purges[n] + 1]
    BY <2>1, <2>2
  <2> QED
    BY <1>0, <2>2, PurgeStep
<1> SUFFICES ASSUME NEW m \in Node
             PROVE  /\ fault'[m] = "relock" => \E k \in Node \ {m} : purges'[k] > 0
                    /\ fault'[m] = "nullSync" => Overtaken(m)' \/ Cleared(m)'
                    /\ fault'[m] \notin {"none", "relock", "nullSync"} => Cleared(m)'
  BY Zenon DEF CrashExplained
<1>c. /\ fault[m] = "relock" => \E k \in Node \ {m} : purges[k] > 0
      /\ fault[m] = "nullSync" => Overtaken(m) \/ Cleared(m)
      /\ fault[m] \notin {"none", "relock", "nullSync"} => Cleared(m)
  BY Zenon DEF CrashInv, CrashExplained
<1>2. CASE m # n
  <2>1. /\ fault'[m] = fault[m]
        /\ Overtaken(m)' = Overtaken(m)
        /\ Cleared(m)' = Cleared(m)
    BY <1>0, <1>2, Elsewhere DEF Overtaken, Cleared
  <2>2. (\E k \in Node \ {m} : purges[k] > 0) => \E k \in Node \ {m} : purges'[k] > 0
    BY <1>1
  <2> QED
    BY <1>c, <2>1, <2>2
<1>3. CASE m = n
  <2>1. "throw" \in IsAnyNodeContributing(known[n], contributing[n]) \/ "throw" \in Collected(n)
           => \E a \in Node : contributing[n][a] = "unset"
    BY <1>0 DEF IsAnyNodeContributing, Collected, IsAllContributorsDataCollected
  <2>2. CASE fault'[n] = fault[n]
    BY <1>0, <1>3, <2>2
  <2>3. CASE /\ pc[n] = "inspect" /\ ~cond[n]
             /\ fault'[n] = "nullSync" /\ pc'[n] = pc[n] /\ timer'[n] = timer[n]
    BY <1>0, <1>3, <2>3 DEF Equipped, Overtaken, Cleared
  <2>4. CASE pc[n] \in {"remove", "collect"} /\ \E a \in Node : contributing[n][a] = "unset"
    BY <1>0, <2>4 DEF Answered
  <2>5. CASE /\ pc[n] = "electRetest" /\ ~(Present(n) /\ Unique(n))
             /\ fault'[n] = "relock"
    BY <1>0, <1>1, <1>3, <2>5 DEF Draw
  <2>6. CASE /\ loop[n].stage = "collected" /\ \E a \in Node : contributing[n][a] = "unset"
             /\ fault'[n] # "relock" /\ pc'[n] = pc[n]
    <3>1. drawn[n] # {}
      BY <1>0, <2>6 DEF LoopReady, EveryoneHasDrawn
    <3> QED
      BY <1>0, <1>3, <2>6, <3>1 DEF Draw, NotDrawnYet, Answered, Cleared
  <2>7. CASE /\ loop[n].stage \in {"store", "notify"} /\ ~cond[n]
             /\ fault'[n] # "relock" /\ pc'[n] = pc[n]
    BY <1>0, <1>3, <2>7 DEF LoopReady, Cleared
  <2> QED
    BY <1>0, <1>3, <2>1, <2>2, <2>3, <2>4, <2>5, <2>6, <2>7, FaultStep
<1> QED
  BY <1>2, <1>3

\* The invariant of the crashes holds at the start of a slot.
LEMMA CrashInit == Init => CrashInv
<1> SUFFICES ASSUME Init PROVE CrashInv
  OBVIOUS
<1>1. OrderInv
  BY OrderInit
<1>2. \A n \in Node : Equipped(n) /\ LoopReady(n)
  BY DEF Init, Equipped, LoopReady, Beginning
<1>3. CrashExplained
  BY DEF Init, CrashExplained
<1> QED
  BY <1>1, <1>2, <1>3 DEF CrashInv

\* In a later slot every step keeps the invariant of the crashes.
LEMMA CrashNext ==
  ASSUME LaterSlot
  PROVE  CrashInv /\ [Next]_vars => CrashInv'
<1> SUFFICES ASSUME CrashInv, [Next]_vars PROVE CrashInv'
  OBVIOUS
<1>0. OrderInv'
  BY OrderNext DEF CrashInv
<1>1. CASE UNCHANGED vars
  <2>1. \A n \in Node : Equipped(n)' /\ LoopReady(n)'
    BY <1>1 DEF vars, CrashInv, Equipped, LoopReady, EveryoneHasDrawn, Beginning,
       Cleared
  <2>2. CrashExplained'
    BY <1>1 DEF vars, CrashInv, CrashExplained, Overtaken, Cleared
  <2> QED
    BY <1>0, <2>1, <2>2 DEF CrashInv
<1>2. ASSUME NEW n \in Node, Step(n) PROVE CrashInv'
  BY <1>0, <1>2, EquippedStep, LoopStep, CrashStep DEF CrashInv
<1> QED
  BY <1>1, <1>2 DEF Next

\* In a later slot a process dies only in one of three ways, whatever is lost and whichever
\* callback of the timer comes first: it locks a mutex twice because another node has gone
\* back to the election, its slot's thread comes to the first wait before initConditions, or
\* its event loop meets a slot that the thread has cleared.
THEOREM CrashesExplained ==
  ASSUME LaterSlot
  PROVE  Spec => []CrashExplained
<1>1. CrashInv => CrashExplained
  BY DEF CrashInv
<1> QED
  BY <1>1, CrashInit, CrashNext, PTL DEF Spec
-----------------------------------------------------------------------------
(* Why no message is left when a node clears a later slot without collisions.  *)

Operations == {"INSPECTION", "ELECTION", "UPLOADING", "BROADCAST"}

\* What the messages of a queue are about, and that there is one of each kind.
Ops(q) == {q[i].op : i \in DOMAIN q}

Distinct(q) == \A i, j \in DOMAIN q : q[i].op = q[j].op => i = j

\* s has sent its message of this kind, if it ever does.
Sent(s, op) ==
  /\ op = "INSPECTION" => pc[s] \notin {"save", "announce"}
  /\ op = "ELECTION" => drawn[s] # {}
  /\ op = "UPLOADING" => pc[s] \notin Unelected \cup {"relay"}
  /\ op = "BROADCAST" => pc[s] \in {"store", "publish", "done"}

\* n has stored, or has stored and cleared, what such a message from s says.
Got(n, s, op) ==
  /\ op = "INSPECTION" => contributing[n][s] # "unset" \/ Cleared(n)
  /\ op = "ELECTION" => value[n][s] # 0 \/ Cleared(n)
  /\ op = "UPLOADING" => \/ block[n][s].data # {}
                         \/ pc[n] \in Completing /\ validator[n] = n /\ own[s]
  /\ op = "BROADCAST" => \/ resolved[n][s]
                         \/ pc[n] \in {"store", "publish", "done"} /\ validator[n] = s

\* A message is on its way once, from when it is sent until it is stored.
Link(s, n) ==
  /\ Distinct(chan[s][n])
  /\ \A op \in Ops(chan[s][n]) : /\ Sent(s, op) /\ ~Got(n, s, op)
                                 /\ op = "UPLOADING" => validator[s] = n
  /\ \A op \in Operations : Got(n, s, op) => Sent(s, op)

Traffic == LaterSlot /\ CollisionFree => \A s, n \in Node : s # n => Link(s, n)

TrafficInv == OrderInv /\ Traffic

\* A message of a kind that is not in a queue yet joins it.
LEMMA AppendOps ==
  ASSUME NEW q \in Seq(Message), NEW message \in Message, Distinct(q),
         message.op \notin Ops(q)
  PROVE  /\ Distinct(Append(q, message))
         /\ Ops(Append(q, message)) = Ops(q) \cup {message.op}
<1> DEFINE p == Append(q, message)
<1>1. /\ DOMAIN p = DOMAIN q \cup {Len(q) + 1} /\ Len(q) + 1 \notin DOMAIN q
      /\ p[Len(q) + 1] = message /\ \A i \in DOMAIN q : p[i] = q[i]
  OBVIOUS
<1> HIDE DEF p
<1> QED
  BY <1>1 DEF Distinct, Ops, p

\* The first message leaves a queue, and none of its kind stays.
LEMMA TailOps ==
  ASSUME NEW q \in Seq(Message), q # <<>>, Distinct(q)
  PROVE  /\ Distinct(Tail(q))
         /\ Ops(Tail(q)) \subseteq Ops(q) \ {Head(q).op}
         /\ Head(q).op \in Ops(q)
<1> DEFINE p == Tail(q)
<1>1. /\ \A i \in DOMAIN p : i + 1 \in DOMAIN q /\ p[i] = q[i + 1] /\ i + 1 # 1
      /\ DOMAIN p \subseteq Nat
      /\ 1 \in DOMAIN q /\ Head(q) = q[1]
  OBVIOUS
<1> HIDE DEF p
<1> QED
  BY <1>1 DEF Distinct, Ops, p

\* A message that has been sent stays sent.
LEMMA SentKept ==
  ASSUME OrderInv, NEW k \in Node, Step(k), NEW s \in Node, NEW op \in Operations, Sent(s, op)
  PROVE  Sent(s, op)'
<1>0. TypeOK /\ Forward
  BY ForwardStep DEF OrderInv, BlockInv, BallotInv, RemovalInv
<1>1. drawn[s] # {} => drawn'[s] # {}
  BY <1>0 DEF Forward
<1>2. pc'[s] = pc[s] \/ <<pc[s], pc'[s]>> \in Moves
  BY <1>0, MoveStep, Elsewhere
<1> QED
  BY <1>1, <1>2 DEF Sent, Moves, PlainMoves, Unelected

\* The handlers from which the slot's thread gets to clearSlot, or to the block.
LEMMA FinishStep ==
  ASSUME OrderInv, NEW n \in Node, Step(n)
  PROVE  /\ Cleared(n)' /\ ~Cleared(n) => pc[n] = "store"
         /\ pc'[n] \in Completing /\ pc[n] \notin Completing =>
              \/ pc[n] = "collect" /\ "yes" \in Collected(n)
              \/ pc[n] \in {"await", "awaitCv"} /\ resolved[n][validator[n]]
         /\ pc'[n] \in Completing => validator'[n] = validator[n]
<1> USE DEF TypeOK, ThreadsOK
<1>0. TypeOK
  BY DEF OrderInv, BlockInv, BallotInv, RemovalInv
<1>1. Cleared(n)' /\ ~Cleared(n) => pc[n] = "store"
  BY <1>0, MoveStep DEF Cleared, Moves, PlainMoves
<1>2. pc'[n] \in Completing /\ pc[n] \notin Completing =>
              \/ pc[n] = "collect" /\ "yes" \in Collected(n)
              \/ pc[n] \in {"await", "awaitCv"} /\ resolved[n][validator[n]]
  <2> SUFFICES ASSUME pc'[n] \in Completing, pc[n] \notin Completing
               PROVE  \/ pc[n] = "collect" /\ "yes" \in Collected(n)
                      \/ pc[n] \in {"await", "awaitCv"} /\ resolved[n][validator[n]]
    OBVIOUS
  <2>1. pc[n] \in {"collect", "await", "awaitCv"}
    BY <1>0, MoveStep DEF Moves, PlainMoves, Completing
  <2>2. CASE WaitForContributorsData(n)
    BY <1>0, <2>1, <2>2 DEF WaitForContributorsData, CvWait, At, Goto, Completing
  <2>3. CASE WaitForBroadcast(n)
    BY <1>0, <2>1, <2>3 DEF WaitForBroadcast, At, Goto, Completing
  <2>4. CASE WaitForBroadcastCv(n)
    BY <1>0, <2>1, <2>4 DEF WaitForBroadcastCv, CvWait, At, Goto, Completing
  <2>5. CASE /\ SlotThread(n) /\ ~WaitForContributorsData(n) /\ ~WaitForBroadcast(n)
             /\ ~WaitForBroadcastCv(n)
    BY <1>0, <2>1, <2>5 DEF SlotThread, SavePendingBlock, NotifyNodesAboutContribution,
       WaitForNodesInspection, RemovePendingBlockIfNoOneIsContributing, SendElectionValue,
       TestElectionLoop, WaitForNodesElection, RemoveDuplicates, RetestElectionLoop,
       NominateValidator, TransferDataToValidator, Broadcast, SaveCompleteBlock,
       PublishBlock, Park, At, Completing
  <2>6. CASE ~SlotThread(n)
    <3>1. UNCHANGED pc
      BY <2>6, Zenon DEF Step, EventLoop, AddContext, SetContribution, FillElectionValue,
         AddContributorBlock, AddBroadcastBlock, CheckCondition, StoreSynchronized,
         NotifyAll, Timer, InitConditions, InitContexts, SpuriousWake
    <3> QED
      BY <3>1
  <2> QED
    BY <2>2, <2>3, <2>4, <2>5, <2>6
<1>3. pc'[n] \in Completing => validator'[n] = validator[n]
  <2>1. NominateValidator(n) => pc'[n] \notin Completing
    BY <1>0 DEF NominateValidator, Goto, Completing
  <2> QED
    BY <1>0, <2>1, MarkStep
<1> QED
  BY <1>1, <1>2, <1>3

\* n takes the message at the head of its queue from s.
Took(n, s, op) == chan[s][n] # <<>> /\ Consume(n, s) /\ Head(chan[s][n]).op = op

\* The answers, the values and the blocks of another node change with its messages, or are
\* given up.
LEMMA ContributingStep ==
  ASSUME TypeOK, NEW n \in Node, Step(n), NEW s \in Node \ {n}
  PROVE  contributing'[n][s] \in {contributing[n][s], "unset"} \/ Took(n, s, "INSPECTION")
<1> USE DEF TypeOK, StoreOK
<1>1. CASE SetContribution(n)
  <2>1. CASE loop[n].from = s
    BY <1>1, <2>1 DEF SetContribution, Took, NetworkOK, InHand, Arrived
  <2>2. CASE loop[n].from # s
    BY <1>1, <2>2 DEF SetContribution
  <2> QED
    BY <2>1, <2>2
<1>2. CASE NotifyNodesAboutContribution(n) \/ SaveCompleteBlock(n)
  BY <1>2 DEF NotifyNodesAboutContribution, SaveCompleteBlock
<1>3. CASE ~(SetContribution(n) \/ NotifyNodesAboutContribution(n) \/ SaveCompleteBlock(n))
  <2>1. UNCHANGED contributing
    BY <1>3, Zenon DEF Step, Timer, InitConditions, InitContexts, SpuriousWake, EventLoop,
       AddContext, FillElectionValue, AddContributorBlock, AddBroadcastBlock,
       CheckCondition, StoreSynchronized, NotifyAll, SlotThread, SavePendingBlock,
       WaitForNodesInspection, RemovePendingBlockIfNoOneIsContributing, SendElectionValue,
       TestElectionLoop, WaitForNodesElection, RemoveDuplicates, RetestElectionLoop,
       NominateValidator, TransferDataToValidator, WaitForContributorsData, Broadcast,
       WaitForBroadcast, WaitForBroadcastCv, PublishBlock, Park
  <2> QED
    BY <2>1
<1> QED
  BY <1>1, <1>2, <1>3

\* A value another node has drawn is stored by taking its ELECTION message, or reset.
LEMMA ElectionStep ==
  ASSUME TypeOK, NEW n \in Node, Step(n), NEW s \in Node \ {n}
  PROVE  value'[n][s] \in {value[n][s], 0} \/ Took(n, s, "ELECTION")
<1> USE DEF TypeOK, StoreOK
<1>1. CASE FillElectionValue(n)
  <2>1. PICK t \in Node : /\ Arrived(n, t, "ELECTION")
                          /\ value' = [value EXCEPT ![n][t] = Head(chan[t][n]).value]
                          /\ Consume(n, t)
    BY <1>1 DEF FillElectionValue
  <2>2. CASE t = s
    BY <2>1, <2>2 DEF Took, Arrived
  <2>3. CASE t # s
    BY <2>1, <2>3
  <2> QED
    BY <2>2, <2>3
<1>2. CASE SendElectionValue(n)
  <2>1. PICK v \in Draws[n] : value' = [value EXCEPT ![n][n] = v]
    BY <1>2 DEF SendElectionValue
  <2> QED
    BY <2>1
<1>3. CASE SaveCompleteBlock(n)
  BY <1>3 DEF SaveCompleteBlock
<1>4. CASE RemoveDuplicates(n)
  BY <1>4 DEF RemoveDuplicates, RemoveElectionValueDuplicates
<1> QED
  BY <1>1, <1>2, <1>3, <1>4, ValueStep

\* The data of another node, and its block, are stored by taking its UPLOADING or BROADCAST message.
LEMMA DataStep ==
  ASSUME TypeOK, NEW n \in Node, Step(n), NEW s \in Node \ {n}
  PROVE  /\ \/ block'[n][s].data \in {block[n][s].data, {}}
            \/ Took(n, s, "UPLOADING") \/ Took(n, s, "BROADCAST")
         /\ resolved'[n][s] => resolved[n][s] \/ Took(n, s, "BROADCAST")
<1> USE DEF TypeOK, StoreOK
<1>1. CASE AddContributorBlock(n)
  <2>1. PICK t \in Node : /\ Arrived(n, t, "UPLOADING")
                          /\ block' = [block EXCEPT ![n][t] = Head(chan[t][n]).block]
                          /\ Consume(n, t)
    BY <1>1 DEF AddContributorBlock
  <2>2. resolved' = resolved
    BY <1>1 DEF AddContributorBlock
  <2>3. CASE t = s
    BY <2>1, <2>2, <2>3 DEF Took, Arrived
  <2>4. CASE t # s
    BY <2>1, <2>2, <2>4
  <2> QED
    BY <2>3, <2>4
<1>2. CASE AddBroadcastBlock(n)
  <2>1. PICK t \in Node : /\ Arrived(n, t, "BROADCAST")
                          /\ block' = [block EXCEPT ![n][t] = Head(chan[t][n]).block]
                          /\ resolved' = [resolved EXCEPT ![n][t] = TRUE]
                          /\ Consume(n, t)
    BY <1>2 DEF AddBroadcastBlock
  <2>2. CASE t = s
    BY <2>1, <2>2 DEF Took, Arrived
  <2>3. CASE t # s
    BY <2>1, <2>3
  <2> QED
    BY <2>2, <2>3
<1>3. CASE ~AddContributorBlock(n) /\ ~AddBroadcastBlock(n)
  <2>1. CASE SlotThread(n)
    <3>1. CASE \/ SavePendingBlock(n) \/ TransferDataToValidator(n)
               \/ WaitForContributorsData(n)
      <4>1. block'[n][s] = block[n][s] /\ resolved'[n][s] = resolved[n][s]
        <5>1. CASE SavePendingBlock(n)
          BY <5>1 DEF SavePendingBlock
        <5>2. CASE TransferDataToValidator(n)
          BY <5>2 DEF TransferDataToValidator
        <5>3. CASE WaitForContributorsData(n)
          <6> DEFINE merged == MergeContributors(known[n], contributing[n], block[n], n)
          <6>1. \/ UNCHANGED <<block, resolved>>
                \/ /\ block' = [block EXCEPT ![n][n] = merged]
                   /\ resolved' = [resolved EXCEPT ![n][n] = TRUE]
            BY <5>3 DEF WaitForContributorsData
          <6> HIDE DEF merged
          <6> QED
            BY <6>1
        <5> QED
          BY <3>1, <5>1, <5>2, <5>3
      <4> QED
        BY <4>1
    <3>2. CASE SaveCompleteBlock(n)
      <4>1. block'[n][s] = EmptyBlock /\ ~resolved'[n][s]
        BY <3>2 DEF SaveCompleteBlock
      <4> QED
        BY <4>1 DEF EmptyBlock, PendingBlock
    <3>3. CASE ~(\/ SavePendingBlock(n) \/ TransferDataToValidator(n)
                 \/ WaitForContributorsData(n) \/ SaveCompleteBlock(n))
      <4>1. UNCHANGED <<block, resolved>>
        BY <2>1, <3>3, Zenon DEF SlotThread, NotifyNodesAboutContribution,
           WaitForNodesInspection, RemovePendingBlockIfNoOneIsContributing,
           SendElectionValue, TestElectionLoop, WaitForNodesElection, RemoveDuplicates,
           RetestElectionLoop, NominateValidator, Broadcast, WaitForBroadcast,
           WaitForBroadcastCv, PublishBlock, Park
      <4> QED
        BY <4>1
    <3> QED
      BY <3>1, <3>2, <3>3
  <2>2. CASE ~SlotThread(n)
    <3>1. UNCHANGED <<block, resolved>>
      BY <1>3, <2>2, Zenon DEF Step, Timer, InitConditions, InitContexts, SpuriousWake,
         EventLoop, AddContext, SetContribution, FillElectionValue, CheckCondition,
         StoreSynchronized, NotifyAll
    <3> QED
      BY <3>1
  <2> QED
    BY <2>1, <2>2
<1> QED
  BY <1>1, <1>2, <1>3

\* What a node has got it had got before, or it takes the message now.  The block that a
\* validator broadcasts stands for its data too.
LEMMA GotStep ==
  ASSUME LaterSlot, OrderInv, NEW n \in Node, Step(n), NEW s \in Node \ {n},
         NEW op \in Operations, Got(n, s, op)'
  PROVE  \/ Got(n, s, op) \/ Took(n, s, op)
         \/ op = "UPLOADING" /\ Took(n, s, "BROADCAST")
<1>0. /\ TypeOK /\ Forward /\ Answered(n) /\ Voted(n) /\ Thread(n) /\ Honesty
      /\ known[n] = Node
  BY ForwardStep DEF OrderInv, BlockInv, BallotInv, RemovalInv, KnowsAll
<1>1. CASE op = "INSPECTION"
  <2>1. CASE ~Cleared(n) /\ Cleared(n)'
    <3>1. pc[n] = "store"
      BY <2>1, FinishStep
    <3> QED
      BY <1>0, <1>1, <3>1 DEF Answered, Got
  <2>2. CASE Cleared(n) \/ ~Cleared(n)'
    BY <1>0, <1>1, <2>2, ContributingStep DEF Got
  <2> QED
    BY <2>1, <2>2
<1>2. CASE op = "ELECTION"
  <2>1. CASE ~Cleared(n) /\ Cleared(n)'
    <3>1. pc[n] = "store"
      BY <2>1, FinishStep
    <3> QED
      BY <1>0, <1>2, <3>1 DEF Voted, Got
  <2>2. CASE Cleared(n) \/ ~Cleared(n)'
    BY <1>0, <1>2, <2>2, ElectionStep DEF Got
  <2> QED
    BY <2>1, <2>2
<1>3. CASE op = "UPLOADING"
  <2>1. CASE block'[n][s].data # {}
    BY <1>0, <1>3, <2>1, DataStep DEF Got
  <2>2. CASE pc'[n] \in Completing /\ validator'[n] = n /\ own'[s]
    <3>1. validator[n] = n /\ own[s]
      BY <1>0, <2>2, FinishStep DEF Forward
    <3>2. CASE pc[n] \in Completing
      BY <1>3, <3>1, <3>2 DEF Got
    <3>3. CASE pc[n] = "collect" /\ "yes" \in Collected(n)
      <4>1. contributing[n][s] = "yes"
        BY <1>0, <3>1, <3>3 DEF Answered, Honesty, Answer
      <4>2. block[n][s].data # {}
        BY <1>0, <3>3, <4>1 DEF Collected, IsAllContributorsDataCollected
      <4> QED
        BY <1>3, <4>2 DEF Got
    <3>4. CASE pc[n] \in {"await", "awaitCv"}
      BY <1>0, <3>1, <3>4 DEF Thread
    <3> QED
      BY <2>2, <3>2, <3>3, <3>4, FinishStep
  <2> QED
    BY <1>3, <2>1, <2>2 DEF Got
<1>4. CASE op = "BROADCAST"
  <2>1. CASE resolved'[n][s]
    BY <1>0, <1>4, <2>1, DataStep DEF Got
  <2>2. CASE pc'[n] \in {"store", "publish", "done"} /\ validator'[n] = s
    <3>1. validator[n] = s
      BY <2>2, FinishStep DEF Completing
    <3>2. CASE pc[n] \in {"store", "publish", "done"}
      BY <1>4, <3>1, <3>2 DEF Got
    <3>3. CASE pc[n] \in {"collect", "broadcast"}
      BY <1>0, <3>1, <3>3 DEF Thread
    <3>4. CASE pc[n] \in {"await", "awaitCv"} /\ resolved[n][validator[n]]
      BY <1>4, <3>1, <3>4 DEF Got
    <3> QED
      BY <2>2, <3>2, <3>3, <3>4, FinishStep DEF Completing
  <2> QED
    BY <1>4, <2>1, <2>2 DEF Got
<1> QED
  BY <1>1, <1>2, <1>3, <1>4 DEF Operations

\* The messages of a queue are of these kinds.
LEMMA OpsKinds ==
  ASSUME TypeOK, NEW s \in Node, NEW n \in Node PROVE Ops(chan[s][n]) \subseteq Operations
<1> DEFINE q == chan[s][n]
<1>1. q \in Seq(Message)
  BY DEF TypeOK, NetworkOK
<1>2. \A i \in DOMAIN q : q[i] \in Message
  <2> HIDE DEF q
  <2> QED
    BY <1>1
<1>3. \A message \in Message : message.op \in Operations
  BY DEF Message, Operations
<1> QED
  BY <1>2, <1>3 DEF Ops

\* The receiver of a link moves.
LEMMA ReceiverStep ==
  ASSUME LaterSlot, OrderInv, NEW n \in Node, Step(n), NEW s \in Node \ {n}, Link(s, n)
  PROVE  Link(s, n)'
<1> DEFINE q == chan[s][n]
           S == Parcel(s)
<1>0. TypeOK /\ q \in Seq(Message) /\ q \in Seq(S) /\ Ops(q) \subseteq Operations
  BY OpsKinds DEF OrderInv, BlockInv, BallotInv, RemovalInv, TypeOK, NetworkOK, Parcels
<1>1. validator'[s] = validator[s]
  BY <1>0, Elsewhere
<1>2. CASE q # <<>> /\ Consume(n, s)
  <2>1. chan'[s][n] = Tail(q)
    BY <1>0, <1>2 DEF Consume, TypeOK, NetworkOK
  <2>2. /\ Distinct(Tail(q)) /\ Ops(Tail(q)) \subseteq Ops(q) \ {Head(q).op}
        /\ Head(q).op \in Ops(q)
    <3>1. Distinct(q)
      BY DEF Link
    <3> HIDE DEF q
    <3> QED
      BY <1>0, <1>2, <3>1, TailOps
  <2>3. \A op \in Operations : Took(n, s, op) <=> Head(q).op = op
    BY <1>2 DEF Took
  <2>4. "UPLOADING" \notin Ops(q) \/ "BROADCAST" \notin Ops(q)
    <3>1. \A i \in DOMAIN q : q[i] \in Parcel(s)
      <4> HIDE DEF q, S
      <4>1. \A i \in DOMAIN q : q[i] \in S
        BY <1>0
      <4> QED
        BY <4>1 DEF S
    <3>2. "UPLOADING" \in Ops(q) => Delegates(s)
      BY <3>1 DEF Ops, Parcel
    <3>3. "BROADCAST" \in Ops(q) => validator[s] = s
      BY <3>1 DEF Ops, Parcel
    <3> QED
      BY <3>2, <3>3 DEF Delegates
  <2>5. ASSUME NEW op \in Operations, Got(n, s, op)'
        PROVE  /\ Sent(s, op)'
               /\ op \notin Ops(q) \ {Head(q).op}
    <3>1. \/ Got(n, s, op) \/ Head(q).op = op
          \/ op = "UPLOADING" /\ Head(q).op = "BROADCAST"
      BY <2>3, <2>5, GotStep DEF Operations
    <3>2. Sent(s, op)
      <4>1. Sent(s, "BROADCAST") => Sent(s, "UPLOADING")
        BY DEF Sent, Unelected
      <4> QED
        BY <2>2, <3>1, <4>1 DEF Link
    <3>3. Sent(s, op)'
      BY <3>2, SentKept
    <3> QED
      BY <2>2, <2>4, <3>1, <3>3 DEF Link
  <2>6. ASSUME NEW op \in Ops(Tail(q))
        PROVE  Sent(s, op)' /\ ~Got(n, s, op)' /\ (op = "UPLOADING" => validator'[s] = n)
    BY <1>0, <1>1, <2>2, <2>5, SentKept DEF Link
  <2> HIDE DEF q
  <2> QED
    BY <2>1, <2>2, <2>5, <2>6 DEF Link
<1>3. CASE ~(q # <<>> /\ Consume(n, s))
  <2>1. chan'[s][n] = q
    <3>1. ASSUME NEW t \in Node, chan[t][n] # <<>>, Consume(n, t) PROVE chan'[s][n] = q
      BY <1>0, <1>3, <3>1 DEF Consume, TypeOK, NetworkOK
    <3>2. ASSUME NEW message, NEW receivers, Publish(n, message, receivers)
          PROVE  chan'[s][n] = q
      BY <1>0, <3>2 DEF Publish, TypeOK, NetworkOK
    <3> QED
      BY <1>0, <3>1, <3>2, PublishStep
  <2>2. \A op \in Operations : ~Took(n, s, op)
    BY <1>3 DEF Took
  <2>3. ASSUME NEW op \in Operations, Got(n, s, op)' PROVE Got(n, s, op) /\ Sent(s, op)'
    <3>1. Got(n, s, op)
      BY <2>2, <2>3, GotStep DEF Operations
    <3> QED
      BY <3>1, SentKept DEF Link
  <2>4. ASSUME NEW op \in Ops(q)
        PROVE  Sent(s, op)' /\ ~Got(n, s, op)' /\ (op = "UPLOADING" => validator'[s] = n)
    BY <1>0, <1>1, <2>3, SentKept DEF Link
  <2> HIDE DEF q
  <2> QED
    BY <2>1, <2>3, <2>4 DEF Link, q
<1> QED
  BY <1>2, <1>3

\* The sender of a link moves.  What it sends it has not sent before.
LEMMA SenderStep ==
  ASSUME LaterSlot, CollisionFree, OrderInv, NEW s \in Node, Step(s), NEW n \in Node \ {s},
         Link(s, n)
  PROVE  Link(s, n)'
<1> DEFINE q == chan[s][n]
<1> USE DEF TypeOK, ThreadsOK
<1>0. TypeOK /\ q \in Seq(Message) /\ Ops(q) \subseteq Operations /\ Forward
  BY OpsKinds, ForwardStep DEF OrderInv, BlockInv, BallotInv, RemovalInv, NetworkOK
<1>1. \A op \in Operations : Got(n, s, op)' = Got(n, s, op)
  BY <1>0, Elsewhere DEF Got, Cleared, Forward
<1>2. ASSUME NEW op \in Ops(q)
      PROVE  /\ Sent(s, op)' /\ ~Got(n, s, op)'
             /\ op = "UPLOADING" => validator[s] = n /\ validator'[s] = n
  <2>1. Sent(s, op) /\ ~Got(n, s, op) /\ (op = "UPLOADING" => validator[s] = n)
    BY DEF Link
  <2>2. op = "UPLOADING" => validator'[s] = validator[s]
    <3>1. op = "UPLOADING" => pc[s] # "nominate"
      BY <2>1 DEF Sent, Unelected
    <3> QED
      BY <1>0, <3>1, MarkStep DEF NominateValidator, At
  <2> QED
    BY <1>0, <1>1, <2>1, <2>2, SentKept
<1>3. \A op \in Operations : Got(n, s, op)' => Sent(s, op)'
  BY <1>1, SentKept DEF Link
<1>4. CASE chan'[s][n] = q
  <2>1. Distinct(q)
    BY DEF Link
  <2> HIDE DEF q
  <2> QED
    BY <1>2, <1>3, <1>4, <2>1 DEF Link
<1>5. ASSUME NEW message \in Message, ~Sent(s, message.op), Sent(s, message.op)',
             message.op = "UPLOADING" => validator'[s] = n,
             chan'[s][n] = Append(q, message)
      PROVE  Link(s, n)'
  <2>1. message.op \in Operations /\ message.op \notin Ops(q) /\ Distinct(q)
    BY <1>5 DEF Message, Operations, Link
  <2>2. ~Got(n, s, message.op)'
    BY <1>1, <1>5, <2>1 DEF Link
  <2>3. Distinct(chan'[s][n]) /\ Ops(chan'[s][n]) = Ops(q) \cup {message.op}
    <3> HIDE DEF q
    <3> QED
      BY <1>0, <1>5, <2>1, AppendOps
  <2> HIDE DEF q
  <2> QED
    BY <1>2, <1>3, <1>5, <2>2, <2>3 DEF Link
<1>6. ASSUME NEW message, NEW receivers, Publish(s, message, receivers)
      PROVE  \/ chan'[s][n] = q
             \/ n \in receivers /\ chan'[s][n] = Append(q, message)
  BY <1>0, <1>6 DEF Publish, NetworkOK
<1>7. CASE UNCHANGED chan \/ \E t \in Node : chan[t][s] # <<>> /\ Consume(s, t)
  <2>1. chan'[s][n] = q
    <3>1. ASSUME NEW t \in Node, Consume(s, t) PROVE chan'[s][n] = q
      BY <1>0, <3>1 DEF Consume, NetworkOK
    <3> QED
      BY <1>7, <3>1
  <2> QED
    BY <1>4, <2>1
<1>8. CASE /\ NotifyNodesAboutContribution(s)
           /\ Publish(s, [op |-> "INSPECTION", isContributing |-> own[s]], Node \ {s})
  <2> DEFINE message == [op |-> "INSPECTION", isContributing |-> own[s]]
  <2>1. message \in Message /\ message.op = "INSPECTION"
    BY <1>0 DEF Message
  <2>2. ~Sent(s, "INSPECTION") /\ Sent(s, "INSPECTION")'
    BY <1>0, <1>8 DEF NotifyNodesAboutContribution, At, Goto, Sent
  <2>3. chan'[s][n] = q \/ chan'[s][n] = Append(q, message)
    BY <1>6, <1>8
  <2> HIDE DEF q, message
  <2> QED
    BY <1>4, <1>5, <2>1, <2>2, <2>3 DEF q
<1>9. CASE /\ SendElectionValue(s)
           /\ \E v \in Draws[s] : Publish(s, [op |-> "ELECTION", value |-> v], Node \ {s})
  <2>1. PICK v \in Draws[s] : Publish(s, [op |-> "ELECTION", value |-> v], Node \ {s})
    BY <1>9
  <2> DEFINE message == [op |-> "ELECTION", value |-> v]
  <2>2. message \in Message /\ message.op = "ELECTION"
    BY DrawsAssumption DEF Message
  <2>3. ~Sent(s, "ELECTION")
    <3>1. drawn[s] = {}
      BY <1>9 DEF SendElectionValue, At, OrderInv, BlockInv, BallotInv, OneBallot,
         BeforeElection
    <3> QED
      BY <3>1 DEF Sent
  <2>4. Sent(s, "ELECTION")'
    BY <1>0, <1>9 DEF SendElectionValue, NetworkOK, Sent
  <2>5. chan'[s][n] = q \/ chan'[s][n] = Append(q, message)
    BY <1>6, <2>1
  <2> HIDE DEF q, message
  <2> QED
    BY <1>4, <1>5, <2>2, <2>3, <2>4, <2>5 DEF q
<1>10. CASE /\ TransferDataToValidator(s) /\ validator[s] # s /\ own[s]
            /\ Publish(s, [op |-> "UPLOADING", block |-> PendingBlock({s})], {validator[s]})
  <2> DEFINE message == [op |-> "UPLOADING", block |-> PendingBlock({s})]
  <2>1. message \in Message /\ message.op = "UPLOADING"
    BY DEF Message, Block, BlockOf, PendingBlock
  <2>2. ~Sent(s, "UPLOADING") /\ Sent(s, "UPLOADING")' /\ validator'[s] = validator[s]
    BY <1>0, <1>10 DEF TransferDataToValidator, At, Goto, Sent, Unelected
  <2>3. \/ chan'[s][n] = q
        \/ n = validator[s] /\ chan'[s][n] = Append(q, message)
    BY <1>6, <1>10
  <2> HIDE DEF q, message
  <2> QED
    BY <1>4, <1>5, <2>1, <2>2, <2>3 DEF q
<1>11. CASE /\ Broadcast(s)
            /\ Publish(s, [op |-> "BROADCAST", block |-> broadcastBlock[s]], Node \ {s})
  <2> DEFINE message == [op |-> "BROADCAST", block |-> broadcastBlock[s]]
  <2>1. message \in Message /\ message.op = "BROADCAST"
    BY <1>0 DEF Message, StoreOK
  <2>2. ~Sent(s, "BROADCAST") /\ Sent(s, "BROADCAST")'
    BY <1>0, <1>11 DEF Broadcast, At, Goto, Sent
  <2>3. chan'[s][n] = q \/ chan'[s][n] = Append(q, message)
    BY <1>6, <1>11
  <2> HIDE DEF q, message
  <2> QED
    BY <1>4, <1>5, <2>1, <2>2, <2>3 DEF q
<1> QED
  BY <1>0, <1>7, <1>8, <1>9, <1>10, <1>11, PublishStep

\* A third node moves.
LEMMA BystanderStep ==
  ASSUME OrderInv, NEW k \in Node, Step(k), NEW s \in Node \ {k}, NEW n \in Node \ {k},
         Link(s, n)
  PROVE  Link(s, n)'
<1>0. TypeOK /\ Forward
  BY ForwardStep DEF OrderInv, BlockInv, BallotInv, RemovalInv
<1>1. chan'[s][n] = chan[s][n]
  <2>1. ASSUME NEW t \in Node, Consume(k, t) PROVE chan'[s][n] = chan[s][n]
    BY <1>0, <2>1 DEF Consume, TypeOK, NetworkOK
  <2>2. ASSUME NEW message, NEW receivers, Publish(k, message, receivers)
        PROVE  chan'[s][n] = chan[s][n]
    BY <1>0, <2>2 DEF Publish, TypeOK, NetworkOK
  <2> QED
    BY <1>0, <2>1, <2>2, PublishStep
<1>2. validator'[s] = validator[s]
  BY <1>0, Elsewhere
<1>3. \A op : Sent(s, op)' = Sent(s, op) /\ Got(n, s, op)' = Got(n, s, op)
  BY <1>0, Elsewhere DEF Sent, Got, Cleared, Forward
<1> QED
  BY <1>1, <1>2, <1>3 DEF Link

\* No message is on its way at the start of a slot, and nobody has got one.
LEMMA TrafficInit == Init => TrafficInv
<1> SUFFICES ASSUME Init PROVE TrafficInv
  OBVIOUS
<1>1. OrderInv
  BY OrderInit
<1>2. ASSUME NEW s \in Node, NEW n \in Node, s # n PROVE Link(s, n)
  <2>1. chan[s][n] = <<>>
    BY DEF Init
  <2>2. Distinct(<<>>) /\ Ops(<<>>) = {}
    BY DEF Distinct, Ops
  <2>3. \A op \in Operations : ~Got(n, s, op)
    BY DEF Init, Got, Operations, Cleared, Completing, EmptyBlock, PendingBlock
  <2> QED
    BY <2>1, <2>2, <2>3 DEF Link
<1> QED
  BY <1>1, <1>2 DEF TrafficInv, Traffic

\* Every step keeps each message on its way once.
LEMMA TrafficNext == TrafficInv /\ [Next]_vars => TrafficInv'
<1> SUFFICES ASSUME TrafficInv, [Next]_vars PROVE TrafficInv'
  OBVIOUS
<1>0. OrderInv /\ OrderInv'
  BY OrderNext DEF TrafficInv
<1>1. CASE UNCHANGED vars
  <2>1. \A s, n \in Node : Link(s, n)' = Link(s, n)
    BY <1>1 DEF vars, Link, Sent, Got, Cleared
  <2>2. CollisionFree' = CollisionFree
    BY <1>1 DEF vars, CollisionFree
  <2> QED
    BY <1>0, <2>1, <2>2 DEF TrafficInv, Traffic, LaterSlot
<1>2. ASSUME NEW k \in Node, Step(k) PROVE TrafficInv'
  <2> SUFFICES ASSUME LaterSlot, CollisionFree', NEW s \in Node, NEW n \in Node, s # n
               PROVE  Link(s, n)'
    BY <1>0 DEF TrafficInv, Traffic, LaterSlot
  <2>1. CollisionFree
    BY <1>0, <1>2, ForwardStep DEF OrderInv, Forward, CollisionFree
  <2>2. Link(s, n)
    BY <2>1 DEF TrafficInv, Traffic
  <2> QED
    BY <1>0, <1>2, <2>1, <2>2, ReceiverStep, SenderStep, BystanderStep
<1> QED
  BY <1>1, <1>2 DEF Next

\* In a later slot without collisions nothing is on its way to a node that has cleared the
\* slot, whatever is lost: clearSlot forgets no message that is still to come.
THEOREM NothingAfterClear == Spec => []NoTrafficAfterClear
<1>1. TrafficInv => NoTrafficAfterClear
  <2> SUFFICES ASSUME TrafficInv, LaterSlot, CollisionFree, NEW n \in Node, NEW s \in Node,
                      Cleared(n), chan[s][n] # <<>>
               PROVE  FALSE
    BY DEF NoTrafficAfterClear
  <2>0. /\ OrderInv /\ TypeOK /\ Thread(n) /\ Thread(s) /\ Voted(n)
        /\ \A m \in Node : chan[m][m] = <<>>
    BY DEF TrafficInv, OrderInv, BlockInv, BallotInv, RemovalInv, Parcels
  <2>1. s # n /\ Link(s, n)
    BY <2>0 DEF TrafficInv, Traffic
  <2> DEFINE q == chan[s][n]
             S == Parcel(s)
  <2>2. q \in Seq(S) /\ q # <<>>
    BY <2>0 DEF OrderInv, BlockInv, Parcels
  <2>3. Head(q) \in S /\ 1 \in DOMAIN q /\ Head(q) = q[1]
    <3> HIDE DEF q, S
    <3> QED
      BY <2>2
  <2>4. PICK op \in Ops(q) : op = Head(q).op
    <3> HIDE DEF q
    <3> QED
      BY <2>3 DEF Ops
  <2>5. Sent(s, op) /\ ~Got(n, s, op) /\ op \in Operations
    BY <2>0, <2>1, OpsKinds DEF Link
  <2>6. op \notin {"INSPECTION", "ELECTION"}
    BY <2>5 DEF Got
  <2>7. validator[n] # NoNode
    BY <2>0 DEF Voted, Completing, Cleared
  <2>8. validator[s] # NoNode => validator[s] = validator[n]
    BY <2>0, <2>7, OneWinner DEF OrderInv, BlockInv, BallotInv, OneBallot, RemovalInv
  <2>9. CASE op = "UPLOADING"
    <3>1. own[s] /\ validator[s] = n
      <4>1. Head(q).op = "UPLOADING" => own[s]
        BY <2>3 DEF Parcel
      <4> QED
        BY <2>1, <2>4, <2>9, <4>1 DEF Link
    <3>2. validator[n] = n
      BY <2>8, <3>1, NodeAssumption
    <3> QED
      BY <2>5, <2>9, <3>1, <3>2 DEF Got, Completing, Cleared
  <2>10. CASE op = "BROADCAST"
    <3>1. validator[s] = s
      BY <2>3, <2>4, <2>10 DEF Parcel
    <3>2. validator[n] = s
      BY <2>8, <3>1, NodeAssumption
    <3> QED
      BY <2>5, <2>10, <3>2 DEF Got, Cleared
  <2> QED
    BY <2>5, <2>6, <2>9, <2>10 DEF Operations
<1> QED
  BY <1>1, TrafficInit, TrafficNext, PTL DEF Spec
=============================================================================
