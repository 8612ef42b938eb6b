------------------------ MODULE SlotConsensusProofs ------------------------
(***************************************************************************)
(* Type correctness of SlotConsensus.  The lemmas about the operators of    *)
(* ConsensusStorage come first, then one lemma for the initial state and    *)
(* one for each thread of a node, with one step per action.                 *)
(***************************************************************************)
EXTENDS SlotProperties, TLAPS

USE DEF timerVars, threadVars, storeVars, syncVars, netVars, history

\* mergeContributors makes a block.
LEMMA MergeType ==
  ASSUME NEW K \in SUBSET Node, NEW c \in [Node -> Contribution],
         NEW bl \in [Node -> Block], NEW v \in Node
  PROVE  MergeContributors(K, c, bl, v) \in Block
  BY DEF MergeContributors, Block, BlockOf

\* markValidator marks one of the addresses that have an entry.
LEMMA MarkType ==
  ASSUME NEW K, NEW val
  PROVE  MarkValidator(K, val) \subseteq K
  BY DEF MarkValidator

\* removeElectionValueDuplicates keeps the values natural numbers.
LEMMA PurgeType ==
  ASSUME NEW K \in SUBSET Node, NEW val \in [Node -> Nat]
  PROVE  RemoveElectionValueDuplicates(K, val) \in [Node -> Nat]
  BY DEF RemoveElectionValueDuplicates

\* Every variable starts in its range.
LEMMA InitType == Init => TypeOK
<1> SUFFICES ASSUME Init PROVE TypeOK
  OBVIOUS
<1>1. ThreadsOK
  BY DEF Init, ThreadsOK, Handlers, Stages, Elected
<1>2. StoreOK
  BY StartAssumption DEF Init, StoreOK, Contribution, Block, BlockOf, EmptyBlock, PendingBlock
<1>3. NetworkOK
  BY DEF Init, NetworkOK, InHand
<1> QED
  BY <1>1, <1>2, <1>3 DEF TypeOK

\* Channel::publish appends a message to the queues it reaches and disturbs no message
\* that an event loop is working on.
LEMMA PublishType ==
  ASSUME TypeOK, NEW n \in Node, NEW message \in Message, NEW receivers \in SUBSET Node,
         Publish(n, message, receivers), UNCHANGED loop
  PROVE  /\ chan' \in [Node -> [Node -> Seq(Message)]]
         /\ lost' \in SUBSET (Node \X Node)
         /\ InHand'
<1>1. PICK failed \in SUBSET receivers :
        /\ lost' = lost \cup ({n} \X failed)
        /\ chan' = [chan EXCEPT ![n] =
             [m \in Node |-> IF m \in receivers \ failed
                             THEN Append(chan[n][m], message) ELSE chan[n][m]]]
  BY DEF Publish
<1>2. \A m \in Node : Append(chan[n][m], message) \in Seq(Message)
  BY DEF TypeOK, NetworkOK
<1>3. chan' \in [Node -> [Node -> Seq(Message)]]
  BY <1>1, <1>2 DEF TypeOK, NetworkOK
<1>4. lost' \in SUBSET (Node \X Node)
  BY <1>1 DEF TypeOK, NetworkOK
<1>5. \A s, m \in Node : chan[s][m] # <<>> =>
        chan'[s][m] # <<>> /\ Head(chan'[s][m]) = Head(chan[s][m])
  <2> TAKE s, m \in Node
  <2> HAVE chan[s][m] # <<>>
  <2>1. chan'[s][m] = chan[s][m] \/ chan'[s][m] = Append(chan[s][m], message)
    BY <1>1 DEF TypeOK, NetworkOK
  <2>2. chan[s][m] \in Seq(Message)
    BY DEF TypeOK, NetworkOK
  <2> QED
    BY <2>1, <2>2
<1>6. InHand'
  BY <1>5 DEF TypeOK, NetworkOK, InHand, Arrived
<1> QED
  BY <1>3, <1>4, <1>6

\* The callback of the timer keeps every variable in its range.
LEMMA TimerType ==
  ASSUME TypeOK, NEW n \in Node, Timer(n) PROVE TypeOK'
<1>1. CASE InitConditions(n)
  <2>1. ThreadsOK'
    BY <1>1 DEF InitConditions, TypeOK, ThreadsOK, Handlers, Stages, Elected
  <2>2. StoreOK'
    BY <1>1 DEF InitConditions, TypeOK, ThreadsOK, StoreOK
  <2>3. NetworkOK'
    BY <1>1 DEF InitConditions, TypeOK, NetworkOK, InHand, Arrived
  <2> QED
    BY <2>1, <2>2, <2>3 DEF TypeOK
<1>2. CASE InitContexts(n)
  <2>1. ThreadsOK'
    BY <1>2 DEF InitContexts, TypeOK, ThreadsOK, Handlers, Stages, Elected
  <2>2. StoreOK'
    BY <1>2 DEF InitContexts, TypeOK, ThreadsOK, StoreOK
  <2>3. NetworkOK'
    BY <1>2 DEF InitContexts, TypeOK, NetworkOK, InHand, Arrived
  <2> QED
    BY <2>1, <2>2, <2>3 DEF TypeOK
<1> QED
  BY <1>1, <1>2 DEF Timer

\* The handlers of the slot's thread keep every variable in its range.
LEMMA SlotThreadType ==
  ASSUME TypeOK, NEW n \in Node, SlotThread(n) PROVE TypeOK'
<1>1. CASE SavePendingBlock(n)
  <2>1. ThreadsOK'
    BY <1>1 DEF SavePendingBlock, TypeOK, ThreadsOK, Handlers, Elected, At, Goto
  <2>2. StoreOK'
    BY <1>1 DEF SavePendingBlock, TypeOK, StoreOK, Block, BlockOf, PendingBlock, Contribution
  <2>3. NetworkOK'
    BY <1>1 DEF SavePendingBlock, TypeOK, NetworkOK, InHand, Arrived
  <2> QED
    BY <2>1, <2>2, <2>3 DEF TypeOK
<1>2. CASE NotifyNodesAboutContribution(n)
  <2>1. ThreadsOK'
    BY <1>2 DEF NotifyNodesAboutContribution, TypeOK, ThreadsOK, StoreOK, At, Goto, Handlers,
       Elected
  <2>2. StoreOK'
    BY <1>2 DEF NotifyNodesAboutContribution, TypeOK, StoreOK, Contribution
  <2>3. NetworkOK'
    <3>1. [op |-> "INSPECTION", isContributing |-> own[n]] \in Message
      BY DEF TypeOK, ThreadsOK, Message
    <3>2. Publish(n, [op |-> "INSPECTION", isContributing |-> own[n]], Node \ {n})
      BY <1>2 DEF NotifyNodesAboutContribution
    <3>3. UNCHANGED <<loop, drawn, purges>>
      BY <1>2 DEF NotifyNodesAboutContribution
    <3>4. /\ chan' \in [Node -> [Node -> Seq(Message)]]
          /\ lost' \in SUBSET (Node \X Node)
          /\ InHand'
      BY <3>1, <3>2, <3>3, PublishType
    <3> QED
      BY <3>3, <3>4 DEF TypeOK, NetworkOK
  <2> QED
    BY <2>1, <2>2, <2>3 DEF TypeOK
<1>3. CASE WaitForNodesInspection(n)
  <2>0. \/ Crash(n, "nullSync") /\ UNCHANGED <<pc, wait, synced>>
        \/ Goto(n, "remove") /\ synced' = [synced EXCEPT ![n] = FALSE] /\ UNCHANGED fault
        \/ wait' = [wait EXCEPT ![n] = "gap"] /\ UNCHANGED <<pc, synced, fault>>
    BY <1>3, Zenon DEF WaitForNodesInspection, CvWait
  <2>1. ThreadsOK'
    <3>1. CASE Crash(n, "nullSync") /\ UNCHANGED <<pc, wait, synced>>
      BY <1>3, <3>1 DEF WaitForNodesInspection, TypeOK, ThreadsOK, Crash
    <3>2. CASE Goto(n, "remove") /\ synced' = [synced EXCEPT ![n] = FALSE] /\ UNCHANGED fault
      BY <1>3, <3>2 DEF WaitForNodesInspection, TypeOK, ThreadsOK, Handlers, Elected, Goto
    <3>3. CASE wait' = [wait EXCEPT ![n] = "gap"] /\ UNCHANGED <<pc, synced, fault>>
      BY <1>3, <3>3 DEF WaitForNodesInspection, TypeOK, ThreadsOK
    <3> QED
      BY <2>0, <3>1, <3>2, <3>3
  <2>2. StoreOK'
    BY <1>3 DEF WaitForNodesInspection, TypeOK, StoreOK
  <2>3. NetworkOK'
    BY <1>3 DEF WaitForNodesInspection, TypeOK, NetworkOK, InHand, Arrived
  <2> QED
    BY <2>1, <2>2, <2>3 DEF TypeOK
<1>4. CASE RemovePendingBlockIfNoOneIsContributing(n)
  <2>1. ThreadsOK'
    BY <1>4 DEF RemovePendingBlockIfNoOneIsContributing, TypeOK, ThreadsOK, Handlers,
       Elected, At, Goto, Crash, EndIdleSlot
  <2>2. StoreOK'
    BY <1>4 DEF RemovePendingBlockIfNoOneIsContributing, TypeOK, StoreOK, Contribution
  <2>3. NetworkOK'
    BY <1>4 DEF RemovePendingBlockIfNoOneIsContributing, TypeOK, NetworkOK, InHand, Arrived
  <2> QED
    BY <2>1, <2>2, <2>3 DEF TypeOK
<1>5. CASE SendElectionValue(n)
  <2> PICK v \in Draws[n] :
        /\ value' = [value EXCEPT ![n][n] = v]
        /\ drawn' = [drawn EXCEPT ![n] = @ \cup {v}]
        /\ Publish(n, [op |-> "ELECTION", value |-> v], Node \ {n})
    BY <1>5 DEF SendElectionValue
  <2> v \in Nat \ {0}
    BY DrawsAssumption
  <2>1. ThreadsOK'
    BY <1>5 DEF SendElectionValue, TypeOK, ThreadsOK, StoreOK, At, Goto, Handlers, Stages, Elected
  <2>2. StoreOK'
    BY <1>5 DEF SendElectionValue, TypeOK, StoreOK, Block, BlockOf, PendingBlock, Contribution
  <2>3. NetworkOK'
    <3>1. [op |-> "ELECTION", value |-> v] \in Message
      BY DEF Message
    <3>2. UNCHANGED <<loop, purges>>
      BY <1>5 DEF SendElectionValue
    <3>3. /\ chan' \in [Node -> [Node -> Seq(Message)]]
          /\ lost' \in SUBSET (Node \X Node)
          /\ InHand'
      BY <3>1, <3>2, PublishType
    <3> QED
      BY <3>2, <3>3 DEF TypeOK, NetworkOK
  <2> QED
    BY <2>1, <2>2, <2>3 DEF TypeOK
<1>6. CASE TestElectionLoop(n)
  <2>1. ThreadsOK'
    BY <1>6 DEF TestElectionLoop, TypeOK, ThreadsOK, Handlers, Elected, At, Goto
  <2>2. StoreOK'
    BY <1>6 DEF TestElectionLoop, TypeOK, StoreOK
  <2>3. NetworkOK'
    BY <1>6 DEF TestElectionLoop, TypeOK, NetworkOK, InHand, Arrived
  <2> QED
    BY <2>1, <2>2, <2>3 DEF TypeOK
<1>7. CASE WaitForNodesElection(n)
  <2>1. ThreadsOK'
    BY <1>7 DEF WaitForNodesElection, TypeOK, ThreadsOK, Handlers, Elected, At, Goto, CvWait
  <2>2. StoreOK'
    BY <1>7 DEF WaitForNodesElection, TypeOK, StoreOK
  <2>3. NetworkOK'
    BY <1>7 DEF WaitForNodesElection, TypeOK, NetworkOK, InHand, Arrived
  <2> QED
    BY <2>1, <2>2, <2>3 DEF TypeOK
<1>8. CASE RemoveDuplicates(n)
  <2>1. ThreadsOK'
    BY <1>8 DEF RemoveDuplicates, TypeOK, ThreadsOK, StoreOK, At, Goto, Handlers, Stages, Elected
  <2>2. StoreOK'
    <3>1. RemoveElectionValueDuplicates(known[n], value[n]) \in [Node -> Nat]
      BY PurgeType DEF TypeOK, StoreOK
    <3> QED
      BY <1>8, <3>1 DEF RemoveDuplicates, TypeOK, StoreOK
  <2>3. NetworkOK'
    BY <1>8 DEF RemoveDuplicates, TypeOK, NetworkOK, InHand, Arrived
  <2> QED
    BY <2>1, <2>2, <2>3 DEF TypeOK
<1>9. CASE RetestElectionLoop(n)
  <2>1. ThreadsOK'
    BY <1>9 DEF RetestElectionLoop, TypeOK, ThreadsOK, Handlers, Elected, At, Goto, Crash
  <2>2. StoreOK'
    BY <1>9 DEF RetestElectionLoop, TypeOK, StoreOK
  <2>3. NetworkOK'
    BY <1>9 DEF RetestElectionLoop, TypeOK, NetworkOK, InHand, Arrived
  <2> QED
    BY <2>1, <2>2, <2>3 DEF TypeOK
<1>10. CASE NominateValidator(n)
  <2>0. PICK w \in MarkValidator(known[n], value[n]) : validator' = [validator EXCEPT ![n] = w]
    BY <1>10 DEF NominateValidator
  <2> w \in Node
    BY MarkType DEF TypeOK, StoreOK
  <2>1. ThreadsOK'
    BY <1>10, <2>0 DEF NominateValidator, TypeOK, ThreadsOK, StoreOK, At, Goto, Handlers, Elected
  <2>2. StoreOK'
    BY <1>10, <2>0 DEF NominateValidator, TypeOK, StoreOK
  <2>3. NetworkOK'
    BY <1>10 DEF NominateValidator, TypeOK, NetworkOK, InHand, Arrived
  <2> QED
    BY <2>1, <2>2, <2>3 DEF TypeOK
<1>11. CASE TransferDataToValidator(n)
  <2>0. \/ UNCHANGED <<block, resolved>>
        \/ /\ block' = [block EXCEPT ![n][n] = PendingBlock({n})]
           /\ resolved' = [resolved EXCEPT ![n][n] = TRUE]
    BY <1>11 DEF TransferDataToValidator
  <2>9. PendingBlock({n}) \in Block
    BY DEF PendingBlock, Block, BlockOf
  <2>7. /\ block \in [Node -> [Node -> Block]]
        /\ resolved \in [Node -> [Node -> BOOLEAN]]
    BY DEF TypeOK, StoreOK
  <2>8. /\ block' \in [Node -> [Node -> Block]]
        /\ resolved' \in [Node -> [Node -> BOOLEAN]]
    <3>1. CASE UNCHANGED <<block, resolved>>
      BY <3>1, <2>7
    <3>2. CASE /\ block' = [block EXCEPT ![n][n] = PendingBlock({n})]
               /\ resolved' = [resolved EXCEPT ![n][n] = TRUE]
      <4>1. block' \in [Node -> [Node -> Block]]
        BY <3>2, <2>7, <2>9
      <4>2. resolved' \in [Node -> [Node -> BOOLEAN]]
        BY <3>2, <2>7
      <4> QED
        BY <4>1, <4>2
    <3> QED
      BY <2>0, <3>1, <3>2
  <2>1. ThreadsOK'
    BY <1>11 DEF TransferDataToValidator, TypeOK, ThreadsOK, StoreOK, At, Goto, Handlers, Elected
  <2>2. StoreOK'
    BY <1>11, <2>8 DEF TransferDataToValidator, TypeOK, StoreOK, Block, BlockOf,
       PendingBlock, Contribution
  <2>3. NetworkOK'
    <3>1. [op |-> "UPLOADING", block |-> PendingBlock({n})] \in Message
      BY DEF Message, Block, BlockOf, PendingBlock
    <3>2. {validator[n]} \subseteq Node
      BY <1>11 DEF TransferDataToValidator, At, TypeOK, ThreadsOK, Elected
    <3>3. \/ UNCHANGED netVars
          \/ Publish(n, [op |-> "UPLOADING", block |-> PendingBlock({n})], {validator[n]})
      BY <1>11 DEF TransferDataToValidator
    <3>4. UNCHANGED <<loop, drawn, purges>>
      BY <1>11 DEF TransferDataToValidator
    <3>5. CASE UNCHANGED netVars
      BY <3>4, <3>5 DEF TypeOK, NetworkOK, InHand, Arrived
    <3>6. CASE Publish(n, [op |-> "UPLOADING", block |-> PendingBlock({n})], {validator[n]})
      <4>1. /\ chan' \in [Node -> [Node -> Seq(Message)]]
            /\ lost' \in SUBSET (Node \X Node)
            /\ InHand'
        BY <3>1, <3>2, <3>4, <3>6, PublishType
      <4> QED
        BY <3>4, <4>1 DEF TypeOK, NetworkOK
    <3> QED
      BY <3>3, <3>5, <3>6
  <2> QED
    BY <2>1, <2>2, <2>3 DEF TypeOK
<1>12. CASE WaitForContributorsData(n)
  <2>0. PICK answer \in Collected(n) :
       \/ /\ answer = "yes"
          /\ LET merged == MergeContributors(known[n], contributing[n], block[n], n)
             IN  /\ block' = [block EXCEPT ![n][n] = merged]
                 /\ broadcastBlock' = [broadcastBlock EXCEPT ![n] = merged]
          /\ resolved' = [resolved EXCEPT ![n][n] = TRUE]
          /\ synced' = [synced EXCEPT ![n] = FALSE]
          /\ Goto(n, "broadcast")
          /\ UNCHANGED fault
       \/ /\ answer = "no"
          /\ CvWait(n, FALSE, "broadcast")
          /\ UNCHANGED <<block, broadcastBlock, resolved, synced, fault>>
       \/ /\ answer = "throw"
          /\ Crash(n, "badOptional")
          /\ UNCHANGED <<pc, wait, block, broadcastBlock, resolved, synced>>
    BY <1>12 DEF WaitForContributorsData
  <2> DEFINE merged == MergeContributors(known[n], contributing[n], block[n], n)
  <2>1. ThreadsOK'
    <3>1. CASE Goto(n, "broadcast") /\ synced' = [synced EXCEPT ![n] = FALSE] /\ UNCHANGED fault
      BY <1>12, <3>1 DEF WaitForContributorsData, TypeOK, ThreadsOK, Handlers, Elected, At, Goto
    <3>2. CASE CvWait(n, FALSE, "broadcast") /\ UNCHANGED <<synced, fault>>
      BY <1>12, <3>2 DEF WaitForContributorsData, TypeOK, ThreadsOK, Elected, CvWait
    <3>3. CASE Crash(n, "badOptional") /\ UNCHANGED <<pc, wait, synced>>
      BY <1>12, <3>3 DEF WaitForContributorsData, TypeOK, ThreadsOK, Elected, Crash
    <3> QED
      BY <2>0, <3>1, <3>2, <3>3
  <2>2. StoreOK'
    <3>1. merged \in Block
      BY MergeType DEF TypeOK, StoreOK
    <3>2. CASE /\ block' = [block EXCEPT ![n][n] = merged]
               /\ broadcastBlock' = [broadcastBlock EXCEPT ![n] = merged]
               /\ resolved' = [resolved EXCEPT ![n][n] = TRUE]
      <4> HIDE DEF merged
      <4> QED
        BY <1>12, <3>1, <3>2 DEF WaitForContributorsData, TypeOK, StoreOK
    <3>3. CASE UNCHANGED <<block, broadcastBlock, resolved>>
      BY <1>12, <3>3 DEF WaitForContributorsData, TypeOK, StoreOK
    <3> QED
      BY <2>0, <3>2, <3>3
  <2>3. NetworkOK'
    BY <1>12 DEF WaitForContributorsData, TypeOK, NetworkOK, InHand, Arrived
  <2> QED
    BY <2>1, <2>2, <2>3 DEF TypeOK
<1>13. CASE Broadcast(n)
  <2>1. ThreadsOK'
    BY <1>13 DEF Broadcast, TypeOK, ThreadsOK, StoreOK, At, Goto, Handlers, Stages, Elected
  <2>2. StoreOK'
    BY <1>13 DEF Broadcast, TypeOK, StoreOK, Block, BlockOf, PendingBlock, Contribution
  <2>3. NetworkOK'
    <3>1. [op |-> "BROADCAST", block |-> broadcastBlock[n]] \in Message
      BY DEF Message, TypeOK, StoreOK
    <3>2. Publish(n, [op |-> "BROADCAST", block |-> broadcastBlock[n]], Node \ {n})
      BY <1>13 DEF Broadcast
    <3>3. UNCHANGED <<loop, drawn, purges>>
      BY <1>13 DEF Broadcast
    <3>4. /\ chan' \in [Node -> [Node -> Seq(Message)]]
          /\ lost' \in SUBSET (Node \X Node)
          /\ InHand'
      BY <3>1, <3>2, <3>3, PublishType
    <3> QED
      BY <3>3, <3>4 DEF TypeOK, NetworkOK
  <2> QED
    BY <2>1, <2>2, <2>3 DEF TypeOK
<1>14. CASE WaitForBroadcast(n)
  <2> validator[n] \in Node
    BY <1>14 DEF WaitForBroadcast, At, TypeOK, ThreadsOK, Elected
  <2> block[n][validator[n]] \in Block
    BY DEF TypeOK, StoreOK
  <2>0. \/ TakeBroadcastBlock(n) /\ Goto(n, "store")
        \/ Goto(n, "awaitCv") /\ UNCHANGED <<broadcastBlock, synced>>
    BY <1>14, Zenon DEF WaitForBroadcast
  <2>1. ThreadsOK'
    BY <1>14, <2>0 DEF WaitForBroadcast, TakeBroadcastBlock, TypeOK, ThreadsOK, StoreOK,
       Handlers, Elected, At, Goto
  <2>2. StoreOK'
    BY <1>14, <2>0 DEF WaitForBroadcast, TakeBroadcastBlock, TypeOK, StoreOK
  <2>3. NetworkOK'
    BY <1>14 DEF WaitForBroadcast, TypeOK, NetworkOK, InHand, Arrived
  <2> QED
    BY <2>1, <2>2, <2>3 DEF TypeOK
<1>15. CASE WaitForBroadcastCv(n)
  <2> validator[n] \in Node
    BY <1>15 DEF WaitForBroadcastCv, At, TypeOK, ThreadsOK, Elected
  <2> block[n][validator[n]] \in Block
    BY DEF TypeOK, StoreOK
  <2>0. \/ TakeBroadcastBlock(n) /\ Goto(n, "store")
        \/ /\ wait' = [wait EXCEPT ![n] = "gap"]
           /\ UNCHANGED <<pc, broadcastBlock, synced>>
    BY <1>15 DEF WaitForBroadcastCv, CvWait
  <2>1. ThreadsOK'
    <3>1. CASE TakeBroadcastBlock(n) /\ Goto(n, "store")
      BY <1>15, <3>1 DEF WaitForBroadcastCv, TakeBroadcastBlock, Goto, TypeOK, ThreadsOK,
         Handlers, Elected
    <3>2. CASE wait' = [wait EXCEPT ![n] = "gap"] /\ UNCHANGED <<pc, broadcastBlock, synced>>
      BY <1>15, <3>2 DEF WaitForBroadcastCv, TypeOK, ThreadsOK, Elected
    <3> QED
      BY <2>0, <3>1, <3>2
  <2>2. StoreOK'
    BY <1>15, <2>0 DEF WaitForBroadcastCv, TakeBroadcastBlock, TypeOK, StoreOK
  <2>3. NetworkOK'
    BY <1>15 DEF WaitForBroadcastCv, TypeOK, NetworkOK, InHand, Arrived
  <2> QED
    BY <2>1, <2>2, <2>3 DEF TypeOK
<1>16. CASE SaveCompleteBlock(n)
  <2>1. ThreadsOK'
    BY <1>16 DEF SaveCompleteBlock, TypeOK, ThreadsOK, Handlers, Elected, At, Goto
  <2>2. StoreOK'
    BY <1>16 DEF SaveCompleteBlock, TypeOK, StoreOK, Block, BlockOf, EmptyBlock,
       PendingBlock, Contribution
  <2>3. NetworkOK'
    BY <1>16 DEF SaveCompleteBlock, TypeOK, NetworkOK, InHand, Arrived
  <2> QED
    BY <2>1, <2>2, <2>3 DEF TypeOK
<1>17. CASE PublishBlock(n)
  <2>1. ThreadsOK'
    BY <1>17 DEF PublishBlock, TypeOK, ThreadsOK, Handlers, Elected, At, Goto
  <2>2. StoreOK'
    BY <1>17 DEF PublishBlock, TypeOK, StoreOK
  <2>3. NetworkOK'
    BY <1>17 DEF PublishBlock, TypeOK, NetworkOK, InHand, Arrived
  <2> QED
    BY <2>1, <2>2, <2>3 DEF TypeOK
<1>18. CASE Park(n)
  <2>1. ThreadsOK'
    BY <1>18 DEF Park, TypeOK, ThreadsOK, Handlers, Elected
  <2>2. StoreOK'
    BY <1>18 DEF Park, TypeOK, StoreOK
  <2>3. NetworkOK'
    BY <1>18 DEF Park, TypeOK, NetworkOK, InHand, Arrived
  <2> QED
    BY <2>1, <2>2, <2>3 DEF TypeOK
<1> QED
  BY <1>1, <1>2, <1>3, <1>4, <1>5, <1>6, <1>7, <1>8, <1>9, <1>10, <1>11, <1>12, <1>13, <1>14,
     <1>15, <1>16, <1>17, <1>18 DEF SlotThread

\* What waits in a queue is a message.
LEMMA ArrivedType ==
  ASSUME TypeOK, NEW n \in Node, NEW s \in Node, chan[s][n] # <<>>
  PROVE  /\ Head(chan[s][n]) \in Message
         /\ Tail(chan[s][n]) \in Seq(Message)
  BY DEF TypeOK, NetworkOK

\* Taking a message disturbs the queues of one node only.
LEMMA ConsumeType ==
  ASSUME TypeOK, NEW n \in Node, NEW s \in Node, chan[s][n] # <<>>, Consume(n, s)
  PROVE  /\ chan' \in [Node -> [Node -> Seq(Message)]]
         /\ known' \in [Node -> SUBSET Node]
         /\ \A t, m \in Node : m # n => chan'[t][m] = chan[t][m]
<1>1. chan' = [chan EXCEPT ![s][n] = Tail(chan[s][n])]
  BY DEF Consume, TypeOK, NetworkOK
<1>2. chan' \in [Node -> [Node -> Seq(Message)]]
  BY <1>1, ArrivedType DEF TypeOK, NetworkOK
<1>3. known' \in [Node -> SUBSET Node]
  BY DEF Consume, TypeOK, StoreOK
<1>4. \A t, m \in Node : m # n => chan'[t][m] = chan[t][m]
  BY <1>1 DEF TypeOK, NetworkOK
<1> QED
  BY <1>2, <1>3, <1>4

\* An event loop that leaves addContext has no message in hand any more.
LEMMA WorkInHand ==
  ASSUME TypeOK, NEW n \in Node, NEW stage \in Stages \ {"addContext"}, Work(n, stage),
         \A t, m \in Node : m # n => chan'[t][m] = chan[t][m]
  PROVE  InHand'
<1>1. \A m \in Node : loop'[m].stage = "addContext" => m # n /\ loop'[m] = loop[m]
  BY DEF Work, TypeOK, ThreadsOK
<1>2. \A m \in Node : loop[m].stage = "addContext" =>
        loop[m].from \in Node /\ Arrived(m, loop[m].from, "INSPECTION")
  BY DEF TypeOK, NetworkOK, InHand
<1> QED
  BY <1>1, <1>2 DEF InHand, Arrived

\* The fields of a message by its operation.
LEMMA MessageFields ==
  ASSUME NEW message \in Message
  PROVE  /\ message.op = "ELECTION" => message.value \in Nat
         /\ message.op \in {"UPLOADING", "BROADCAST"} => message.block \in Block
  BY DEF Message

\* The handler of the consensus queue keeps every variable in its range.
LEMMA EventLoopType ==
  ASSUME TypeOK, NEW n \in Node, EventLoop(n) PROVE TypeOK'
<1>1. CASE AddContext(n)
  <2>0. PICK s \in Node : /\ Arrived(n, s, "INSPECTION")
                        /\ known' = [known EXCEPT ![n] = @ \cup {s}]
                        /\ loop' = [loop EXCEPT ![n] = [stage |-> "addContext", from |-> s]]
    BY <1>1 DEF AddContext
  <2>1. ThreadsOK'
    BY <1>1, <2>0 DEF AddContext, TypeOK, ThreadsOK, Stages, Elected
  <2>2. StoreOK'
    BY <1>1, <2>0 DEF AddContext, TypeOK, StoreOK
  <2>3. NetworkOK'
    <3>1. \A m \in Node : m # n => loop'[m] = loop[m]
      BY <2>0 DEF TypeOK, ThreadsOK
    <3>2. loop'[n].from = s
      BY <2>0 DEF TypeOK, ThreadsOK
    <3>3. UNCHANGED netVars /\ UNCHANGED history
      BY <1>1 DEF AddContext
    <3> QED
      BY <2>0, <3>1, <3>2, <3>3 DEF TypeOK, NetworkOK, InHand, Arrived
  <2> QED
    BY <2>1, <2>2, <2>3 DEF TypeOK
<1>2. CASE SetContribution(n)
  <2> DEFINE s == loop[n].from
  <2>0. s \in Node /\ chan[s][n] # <<>>
    BY <1>2 DEF SetContribution, TypeOK, NetworkOK, InHand, Arrived
  <2>1. ThreadsOK'
    BY <1>2 DEF SetContribution, Work, TypeOK, ThreadsOK, Stages
  <2>2. StoreOK'
    <3>1. known' \in [Node -> SUBSET Node]
      BY <1>2, <2>0, ConsumeType DEF SetContribution
    <3>2. contributing' \in [Node -> [Node -> Contribution]]
      BY <1>2, <2>0 DEF SetContribution, TypeOK, StoreOK, Contribution
    <3> QED
      BY <1>2, <3>1, <3>2 DEF SetContribution, TypeOK, StoreOK
  <2>3. NetworkOK'
    <3>1. /\ chan' \in [Node -> [Node -> Seq(Message)]]
          /\ \A t, m \in Node : m # n => chan'[t][m] = chan[t][m]
      BY <1>2, <2>0, ConsumeType DEF SetContribution, Arrived
    <3>2. Work(n, "confirmed") /\ UNCHANGED <<lost, drawn, purges>>
      BY <1>2 DEF SetContribution
    <3>3. InHand'
      BY <3>1, <3>2, WorkInHand DEF Stages
    <3> QED
      BY <3>1, <3>2, <3>3 DEF TypeOK, NetworkOK
  <2> QED
    BY <2>1, <2>2, <2>3 DEF TypeOK
<1>3. CASE FillElectionValue(n)
  <2>0. PICK s \in Node : /\ Arrived(n, s, "ELECTION")
                        /\ value' = [value EXCEPT ![n][s] = Head(chan[s][n]).value]
                        /\ Consume(n, s)
    BY <1>3 DEF FillElectionValue
  <2>1. ThreadsOK'
    BY <1>3 DEF FillElectionValue, Work, TypeOK, ThreadsOK, Stages
  <2>2. StoreOK'
    <3>1. Head(chan[s][n]).value \in Nat
      BY <2>0, ArrivedType, MessageFields DEF Arrived
    <3>2. value' \in [Node -> [Node -> Nat]]
      BY <2>0, <3>1 DEF TypeOK, StoreOK
    <3>3. known' \in [Node -> SUBSET Node]
      BY <2>0, ConsumeType DEF Arrived
    <3> QED
      BY <1>3, <2>0, <3>2, <3>3 DEF FillElectionValue, TypeOK, StoreOK
  <2>3. NetworkOK'
    <3>1. /\ chan' \in [Node -> [Node -> Seq(Message)]]
          /\ \A t, m \in Node : m # n => chan'[t][m] = chan[t][m]
      BY <1>3, <2>0, ConsumeType DEF FillElectionValue, Arrived
    <3>2. Work(n, "present") /\ UNCHANGED <<lost, drawn, purges>>
      BY <1>3 DEF FillElectionValue
    <3>3. InHand'
      BY <3>1, <3>2, WorkInHand DEF Stages
    <3> QED
      BY <3>1, <3>2, <3>3 DEF TypeOK, NetworkOK
  <2> QED
    BY <2>1, <2>2, <2>3 DEF TypeOK
<1>4. CASE AddContributorBlock(n)
  <2>0. PICK s \in Node : /\ Arrived(n, s, "UPLOADING")
                        /\ block' = [block EXCEPT ![n][s] = Head(chan[s][n]).block]
                        /\ Consume(n, s)
    BY <1>4 DEF AddContributorBlock
  <2>1. ThreadsOK'
    BY <1>4 DEF AddContributorBlock, Work, TypeOK, ThreadsOK, Stages
  <2>2. StoreOK'
    <3>1. Head(chan[s][n]).block \in Block
      BY <2>0, ArrivedType, MessageFields DEF Arrived
    <3>2. block' \in [Node -> [Node -> Block]]
      BY <2>0, <3>1 DEF TypeOK, StoreOK
    <3>3. known' \in [Node -> SUBSET Node]
      BY <2>0, ConsumeType DEF Arrived
    <3> QED
      BY <1>4, <2>0, <3>2, <3>3 DEF AddContributorBlock, TypeOK, StoreOK
  <2>3. NetworkOK'
    <3>1. /\ chan' \in [Node -> [Node -> Seq(Message)]]
          /\ \A t, m \in Node : m # n => chan'[t][m] = chan[t][m]
      BY <1>4, <2>0, ConsumeType DEF AddContributorBlock, Arrived
    <3>2. Work(n, "collected") /\ UNCHANGED <<lost, drawn, purges>>
      BY <1>4 DEF AddContributorBlock
    <3>3. InHand'
      BY <3>1, <3>2, WorkInHand DEF Stages
    <3> QED
      BY <3>1, <3>2, <3>3 DEF TypeOK, NetworkOK
  <2> QED
    BY <2>1, <2>2, <2>3 DEF TypeOK
<1>5. CASE AddBroadcastBlock(n)
  <2>0. PICK s \in Node : /\ Arrived(n, s, "BROADCAST")
                        /\ block' = [block EXCEPT ![n][s] = Head(chan[s][n]).block]
                        /\ resolved' = [resolved EXCEPT ![n][s] = TRUE]
                        /\ Consume(n, s)
    BY <1>5 DEF AddBroadcastBlock
  <2>1. ThreadsOK'
    BY <1>5 DEF AddBroadcastBlock, Work, TypeOK, ThreadsOK, Stages
  <2>2. StoreOK'
    <3>1. Head(chan[s][n]).block \in Block
      BY <2>0, ArrivedType, MessageFields DEF Arrived
    <3>2. block' \in [Node -> [Node -> Block]]
      BY <2>0, <3>1 DEF TypeOK, StoreOK
    <3>3. known' \in [Node -> SUBSET Node]
      BY <2>0, ConsumeType DEF Arrived
    <3> QED
      BY <1>5, <2>0, <3>2, <3>3 DEF AddBroadcastBlock, TypeOK, StoreOK
  <2>3. NetworkOK'
    <3>1. /\ chan' \in [Node -> [Node -> Seq(Message)]]
          /\ \A t, m \in Node : m # n => chan'[t][m] = chan[t][m]
      BY <1>5, <2>0, ConsumeType DEF AddBroadcastBlock, Arrived
    <3>2. Work(n, "store") /\ UNCHANGED <<lost, drawn, purges>>
      BY <1>5 DEF AddBroadcastBlock
    <3>3. InHand'
      BY <3>1, <3>2, WorkInHand DEF Stages
    <3> QED
      BY <3>1, <3>2, <3>3 DEF TypeOK, NetworkOK
  <2> QED
    BY <2>1, <2>2, <2>3 DEF TypeOK
<1>6. CASE CheckCondition(n)
  <2>0. \/ Work(n, "store") /\ UNCHANGED fault
        \/ Work(n, "idle") /\ UNCHANGED fault
        \/ Crash(n, "badOptional") /\ UNCHANGED loop
    BY <1>6, Zenon DEF CheckCondition
  <2>1. ThreadsOK'
    BY <1>6, <2>0 DEF CheckCondition, Work, Crash, TypeOK, ThreadsOK, Stages
  <2>2. StoreOK'
    BY <1>6 DEF CheckCondition, TypeOK, StoreOK
  <2>3. NetworkOK'
    <3>0. UNCHANGED <<chan, lost, drawn, purges>>
      BY <1>6 DEF CheckCondition
    <3>1. CASE Work(n, "store")
      <4>1. InHand'
        BY <3>1, <3>0, WorkInHand DEF Stages
      <4> QED
        BY <3>0, <4>1 DEF TypeOK, NetworkOK
    <3>2. CASE Work(n, "idle")
      <4>1. InHand'
        BY <3>2, <3>0, WorkInHand DEF Stages
      <4> QED
        BY <3>0, <4>1 DEF TypeOK, NetworkOK
    <3>3. CASE UNCHANGED loop
      BY <3>0, <3>3 DEF TypeOK, NetworkOK, InHand, Arrived
    <3> QED
      BY <1>6, <2>0, <3>1, <3>2, <3>3 DEF CheckCondition
  <2> QED
    BY <2>1, <2>2, <2>3 DEF TypeOK
<1>7. CASE StoreSynchronized(n)
  <2>1. ThreadsOK'
    <3>1. CASE synced' = [synced EXCEPT ![n] = TRUE] /\ Work(n, "notify") /\ UNCHANGED fault
      BY <1>7, <3>1 DEF StoreSynchronized, Work, TypeOK, ThreadsOK, Stages
    <3>2. CASE Crash(n, "nullSync") /\ UNCHANGED <<synced, loop>>
      BY <1>7, <3>2 DEF StoreSynchronized, Crash, TypeOK, ThreadsOK
    <3> QED
      BY <1>7, <3>1, <3>2 DEF StoreSynchronized
  <2>2. StoreOK'
    BY <1>7 DEF StoreSynchronized, TypeOK, StoreOK
  <2>3. NetworkOK'
    <3>0. UNCHANGED <<chan, lost, drawn, purges>>
      BY <1>7 DEF StoreSynchronized
    <3>1. CASE Work(n, "notify")
      <4>1. InHand'
        BY <3>1, <3>0, WorkInHand DEF Stages
      <4> QED
        BY <3>0, <4>1 DEF TypeOK, NetworkOK
    <3>2. CASE UNCHANGED loop
      BY <3>0, <3>2 DEF TypeOK, NetworkOK, InHand, Arrived
    <3> QED
      BY <1>7, <3>1, <3>2 DEF StoreSynchronized
  <2> QED
    BY <2>1, <2>2, <2>3 DEF TypeOK
<1>8. CASE NotifyAll(n)
  <2>1. ThreadsOK'
    BY <1>8 DEF NotifyAll, Work, Crash, TypeOK, ThreadsOK, Stages, Elected
  <2>2. StoreOK'
    BY <1>8 DEF NotifyAll, TypeOK, StoreOK
  <2>3. NetworkOK'
    <3>0. UNCHANGED <<chan, lost, drawn, purges>>
      BY <1>8 DEF NotifyAll
    <3>1. CASE Work(n, "idle")
      <4>1. InHand'
        BY <3>1, <3>0, WorkInHand DEF Stages
      <4> QED
        BY <3>0, <4>1 DEF TypeOK, NetworkOK
    <3>2. CASE UNCHANGED loop
      BY <3>0, <3>2 DEF TypeOK, NetworkOK, InHand, Arrived
    <3> QED
      BY <1>8, <3>1, <3>2 DEF NotifyAll
  <2> QED
    BY <2>1, <2>2, <2>3 DEF TypeOK
<1> QED
  BY <1>1, <1>2, <1>3, <1>4, <1>5, <1>6, <1>7, <1>8 DEF EventLoop

\* Every step keeps every variable in its range.
LEMMA TypeStep == TypeOK /\ [Next]_vars => TypeOK'
<1> SUFFICES ASSUME TypeOK, [Next]_vars PROVE TypeOK'
  OBVIOUS
<1>1. CASE UNCHANGED vars
  BY <1>1 DEF vars, TypeOK, ThreadsOK, StoreOK, NetworkOK, InHand, Arrived
<1>2. ASSUME NEW n \in Node, Step(n) PROVE TypeOK'
  <2>1. CASE SpuriousWake(n)
    BY <2>1 DEF SpuriousWake, TypeOK, ThreadsOK, StoreOK, NetworkOK, InHand, Arrived
  <2> QED
    BY <1>2, <2>1, TimerType, SlotThreadType, EventLoopType DEF Step
<1> QED
  BY <1>1, <1>2 DEF Next

\* Every variable stays in its range, whatever is lost and however the threads of the
\* nodes interleave.
THEOREM TypeCorrect == Spec => []TypeOK
  BY InitType, TypeStep, PTL DEF Spec
=============================================================================
