--------------------------- MODULE SlotProperties ---------------------------
(***************************************************************************)
(* The properties of SlotConsensus.                                        *)
(***************************************************************************)
EXTENDS SlotConsensus

Contributors == {n \in Node : own[n]}

\* No two nodes have drawn the same election value.
CollisionFree == \A n, m \in Node : n # m => drawn[n] \cap drawn[m] = {}

\* A slot after the first one: contexts has an entry for every node.
LaterSlot == Known0 = Node

\* The slot's thread of n has erased the slot from the storage.
Cleared(n) == pc[n] \in {"publish", "done"}

\* The predicate that the slot's thread of n waits for.
Ready(n) ==
  \/ pc[n] = "inspect" /\ Confirmed(n)
  \/ pc[n] = "electCv" /\ Present(n)
  \/ pc[n] = "collect" /\ Collected(n) # {"no"}
  \/ pc[n] = "awaitCv" /\ synced[n] /\ resolved[n][validator[n]]

-----------------------------------------------------------------------------
Elected == {"relay", "collect", "broadcast", "await", "awaitCv"}

\* The ranges of the variables of the threads, of the storage and of the network.
ThreadsOK ==
  /\ own \in [Node -> BOOLEAN]
  /\ timer \in [Node -> {"conditions", "contexts", "done"}]
  /\ pc \in [Node -> Handlers]
  /\ wait \in [Node -> {"run", "gap", "parked"}]
  /\ loop \in [Node -> [stage : Stages, from : Node \cup {NoNode}]]
  /\ fault \in [Node -> {"none", "nullSync", "badOptional", "relock"}]
  /\ cond \in [Node -> BOOLEAN]
  /\ synced \in [Node -> BOOLEAN]
  /\ entry \in [Node -> {"none", "pending", "removed", "saved"}]
  /\ \A n \in Node : pc[n] \in Elected => validator[n] \in Node

StoreOK ==
  /\ known \in [Node -> SUBSET Node]
  /\ contributing \in [Node -> [Node -> Contribution]]
  /\ value \in [Node -> [Node -> Nat]]
  /\ block \in [Node -> [Node -> Block]]
  /\ resolved \in [Node -> [Node -> BOOLEAN]]
  /\ validator \in [Node -> Node \cup {NoNode}]
  /\ broadcastBlock \in [Node -> Block]

\* The message whose sender's context the event loop has just made is still there.
InHand ==
  \A n \in Node : loop[n].stage = "addContext" =>
    loop[n].from \in Node /\ Arrived(n, loop[n].from, "INSPECTION")

NetworkOK ==
  /\ InHand
  /\ chan \in [Node -> [Node -> Seq(Message)]]
  /\ lost \in SUBSET (Node \X Node)
  /\ drawn \in [Node -> SUBSET Nat]
  /\ purges \in [Node -> Nat]

\* Every variable stays in its range.
TypeOK == ThreadsOK /\ StoreOK /\ NetworkOK

\* Two nodes that have marked a validator (ConsensusStorage::markValidator) have
\* marked the same one.
OneValidator ==
  \A n, m \in Node :
    validator[n] # NoNode /\ validator[m] # NoNode => validator[n] = validator[m]

\* In a later slot in which no two nodes draw the same election value, the nodes
\* never disagree about the validator, whatever messages are still on the way.
ValidatorAgreement == LaterSlot /\ CollisionFree => OneValidator

\* In a later slot a node removes its placeholder (PendingBlockRemover) only if no
\* node of the network has data for the slot.
RemovalAgreement ==
  LaterSlot => \A n \in Node : entry[n] = "removed" => Contributors = {}

\* The block that CompleteBlockSaver writes is completed and holds the data of
\* every contributor, each exactly once.
WholeBlock ==
  \A n \in Node : entry[n] = "saved" =>
    broadcastBlock[n] = [state |-> "COMPLETED", data |-> Contributors, twice |-> FALSE]

\* In a later slot without collisions every node writes the whole block.
CompleteBlock == LaterSlot /\ CollisionFree => WholeBlock

\* Whatever goes wrong in a slot, the block that CompleteBlockSaver writes is one
\* that a validator has completed, with data of contributors.
SavedIsCompleted ==
  \A n \in Node : entry[n] = "saved" =>
    /\ broadcastBlock[n].state = "COMPLETED"
    /\ broadcastBlock[n].data # {}
    /\ broadcastBlock[n].data \subseteq Contributors

\* Whatever goes wrong in a slot, a node with data never takes its own pending
\* block for a placeholder that nobody needs.
OwnBlockKept == \A n \in Node : entry[n] = "removed" => ~own[n]

\* The slot's thread has come to its first wait before the callback has initialised the
\* conditions.
Overtaken(n) == pc[n] = "inspect" /\ timer[n] = "conditions"

\* In a later slot a process dies only in one of three ways.  ElectionWaiter locks a mutex
\* it owns when another node has gone back to the election in the meantime.  The slot's
\* thread, if the unordered_map of TimerWheel has its callback before that of the storage,
\* overtakes initConditions and finds a null pointer (InspectionWaiter.cpp:20).  Or the
\* event loop, in the middle of a message, meets the storage that the slot's thread has
\* cleared, and the slot is completed here (App.cpp:163, CompleteBlockSaver.cpp:22).  In
\* an idle slot, which nobody clears, only the second can happen.
CrashExplained ==
  LaterSlot => \A n \in Node :
    CASE fault[n] = "none"     -> TRUE
      [] fault[n] = "relock"   -> \E m \in Node \ {n} : purges[m] > 0
      [] fault[n] = "nullSync" -> Overtaken(n) \/ Cleared(n)
      [] OTHER                 -> Cleared(n)

\* In a later slot without collisions no message of the slot is still on its way
\* to a node that has cleared it.
NoTrafficAfterClear ==
  LaterSlot /\ CollisionFree =>
    \A n, s \in Node : Cleared(n) => chan[s][n] = <<>>

-----------------------------------------------------------------------------
\* The slot's thread of n sleeps although what it waits for is there.
Asleep(n) == wait[n] = "parked" /\ Ready(n)

\* n has used up the bound on re-elections.
PurgeBound(n) == pc[n] = "purge" /\ purges[n] = MaxPurges

\* A publish to n has failed.
Deprived(n) == \E s \in Node : <<s, n>> \in lost

\* n has gone back to the election and waits for a value it has removed itself: its sender
\* has drawn, and nothing is on the way from it.
Starved(n) ==
  /\ pc[n] = "electCv" /\ purges[n] > 0
  /\ \E s \in Node : value[n][s] = 0 /\ drawn[s] # {} /\ chan[s][n] = <<>>

\* In a later slot, every slot ends at every node, or it stands still for one of these reasons: a
\* process has died, a thread sleeps through the notification that was meant for it, a
\* publish has failed, or a node waits for a value that its own re-election has removed.
\* Nothing else makes the nodes wait for each other.  Checked for a storage that is
\* initialised before the thread starts.
StallsExplained ==
  <>[](\/ \A n \in Node : Ended(n)
       \/ \E n \in Node :
            fault[n] # "none" \/ Asleep(n) \/ Deprived(n) \/ Starved(n) \/ PurgeBound(n))

\* A node to which a publish failed ends the slot all the same, or some process
\* dies or sleeps through a notification.
RetryOnFailure ==
  \A n \in Node :
    (\E s \in Node : <<s, n>> \in lost) ~>
      (Ended(n) \/ \E m \in Node : fault[m] # "none" \/ Asleep(m))

-----------------------------------------------------------------------------
OutcomeOf(n) ==
  [kind  |-> IF entry[n] \in {"removed", "saved"} THEN entry[n] ELSE "open",
   block |-> IF entry[n] = "saved" THEN broadcastBlock[n] ELSE EmptyBlock]

Agreement == INSTANCE SlotAgreement WITH
  contributors <- Contributors, outcome <- [n \in Node |-> OutcomeOf(n)]

\* Without collisions a later slot implements the promise of SlotAgreement.
AgreementSpec == Agreement!Spec
=============================================================================
