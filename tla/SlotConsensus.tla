--------------------------- MODULE SlotConsensus ---------------------------
(***************************************************************************)
(* One slot of the consensus between the nodes of the network: the chain   *)
(* of handlers SlotHandler::handle runs on a thread of its own, the        *)
(* callback that initialises the slot's storage on the timer's thread      *)
(* (node/src/App.cpp:61-65) and the handler of the node's consensus queue  *)
(* on the event-loop thread (node/src/App.cpp:88-168), at every node.      *)
(*                                                                         *)
(* The threads of a node share its ConsensusStorage and the slot's         *)
(* SlotSychronizationContext (a mutex, a condition variable and the flag   *)
(* isSynchronized).  A step is one critical section of the storage, or a   *)
(* run of them that no step of another thread can tell from one.           *)
(***************************************************************************)
EXTENDS ConsensusStorage, Sequences, FiniteSets

CONSTANTS
  Node,         \* the addresses of the nodes
  NoNode,       \* the empty address
  Draws,        \* Draws[n]: the values RandomNumberGenerator may give node n
  Known0,       \* the addresses of contexts before the slot: Node, or {} in the
                \* first slot after the process has started
  InitOrder,    \* which callback of the timer comes first (TimerWheel keeps
                \* them in an unordered_map): "initFirst" or "spawnFirst"
  ContributorSets, \* the sets of nodes that may have messages to contribute
  MaxPurges,    \* bound: re-elections of one node
  MaxLost       \* bound: links on which a publish fails

ASSUME NodeAssumption == NoNode \notin Node /\ IsFiniteSet(Node)
ASSUME DrawsAssumption == Draws \in [Node -> SUBSET (Nat \ {0})]
ASSUME StartAssumption ==
  /\ Known0 \subseteq Node
  /\ InitOrder \in {"initFirst", "spawnFirst"}
  /\ ContributorSets \subseteq SUBSET Node
  /\ MaxPurges \in Nat
  /\ MaxLost \in Nat

VARIABLES
  \* the node's threads
  own,          \* own[n]: the buffer has a block for n to contribute
  timer,        \* progress of the initialising callback
  pc,           \* the handler the slot's thread is in
  wait,         \* the slot's thread and the condition variable (see Park)
  loop,         \* the stage of the message the event loop works on
  fault,        \* the exception or null dereference that ended the process
  \* the node's ConsensusStorage, for this slot
  known,        \* the addresses that have an entry in contexts
  contributing, \* contributing[n][a]: isContributing of address a at node n
  value,        \* electionValue
  block,        \* block
  resolved,     \* isResolved
  validator,    \* the address whose isValidator is set, NoNode when none is
  cond,         \* conditions has the slot's SlotSychronizationContext
  synced,       \* its isSynchronized
  \* the slot thread's SlotContext and the node's blockchain
  broadcastBlock,
  entry,        \* the slot's entry in the Redis list
  \* the network
  chan,         \* chan[s][n]: messages from s waiting in the queue of n
  lost,         \* the links <<s, n>> on which a publish failed
  \* histories
  drawn,        \* drawn[n]: the election values n has published
  purges        \* purges[n]: how often n has removed duplicates

timerVars  == <<own, timer>>
threadVars == <<pc, wait, broadcastBlock, entry>>
storeVars  == <<known, contributing, value, block, resolved, validator>>
syncVars   == <<cond, synced>>
netVars    == <<chan, lost>>
history    == <<drawn, purges>>
vars == <<timerVars, threadVars, storeVars, syncVars, netVars, history, loop, fault>>

-----------------------------------------------------------------------------
Handlers == {"save", "announce", "inspect", "remove", "elect", "electLoop",
             "electCv", "purge", "electRetest", "nominate", "relay", "collect",
             "broadcast", "await", "awaitCv", "store", "publish", "done",
             "removed"}

Ended(n) == pc[n] \in {"done", "removed"}

Stages == {"idle", "addContext", "confirmed", "present", "collected", "store",
           "notify"}

Block == BlockOf(Node)

Message == [op : {"INSPECTION"}, isContributing : BOOLEAN]
             \cup [op : {"ELECTION"}, value : Nat \ {0}]
             \cup [op : {"UPLOADING", "BROADCAST"}, block : Block]

Confirmed(n) == AreAllContributorsConfirmed(known[n], contributing[n])
Present(n)   == AreAllElectionValuesPresent(known[n], value[n])
Unique(n)    == IsElectionValueUnique(known[n], value[n], n)
Collected(n) == IsAllContributorsDataCollected(known[n], contributing[n], block[n])

-----------------------------------------------------------------------------
Init ==
  /\ own \in [Node -> BOOLEAN] /\ {n \in Node : own[n]} \in ContributorSets
  /\ timer = [n \in Node |-> "conditions"]
  /\ pc = [n \in Node |-> "save"]
  /\ wait = [n \in Node |-> "run"]
  /\ loop = [n \in Node |-> [stage |-> "idle", from |-> NoNode]]
  /\ fault = [n \in Node |-> "none"]
  /\ known = [n \in Node |-> Known0]
  /\ contributing = [n \in Node |-> [a \in Node |-> "unset"]]
  /\ value = [n \in Node |-> [a \in Node |-> 0]]
  /\ block = [n \in Node |-> [a \in Node |-> EmptyBlock]]
  /\ resolved = [n \in Node |-> [a \in Node |-> FALSE]]
  /\ validator = [n \in Node |-> NoNode]
  /\ cond = [n \in Node |-> FALSE]
  /\ synced = [n \in Node |-> FALSE]
  /\ broadcastBlock = [n \in Node |-> EmptyBlock]
  /\ entry = [n \in Node |-> "none"]
  /\ chan = [s \in Node |-> [n \in Node |-> <<>>]]
  /\ lost = {}
  /\ drawn = [n \in Node |-> {}]
  /\ purges = [n \in Node |-> 0]

-----------------------------------------------------------------------------
(* The callback of the timer that initialises the slot. *)

InitConditions(n) ==
  /\ timer[n] = "conditions"
  /\ timer' = [timer EXCEPT ![n] = "contexts"]
  /\ cond' = [cond EXCEPT ![n] = TRUE]
  /\ UNCHANGED <<own, threadVars, storeVars, synced, netVars, history, loop, fault>>

\* try_emplace keeps the entries that are there already.
InitContexts(n) ==
  /\ timer[n] = "contexts"
  /\ timer' = [timer EXCEPT ![n] = "done"]
  /\ known' = [known EXCEPT ![n] = Node]
  /\ UNCHANGED <<own, threadVars, contributing, value, block, resolved, validator,
                 syncVars, netVars, history, loop, fault>>

Timer(n) == InitConditions(n) \/ InitContexts(n)

-----------------------------------------------------------------------------
(* The thread of the slot. *)

At(n, handler) == pc[n] = handler /\ wait[n] = "run"

Goto(n, handler) == pc' = [pc EXCEPT ![n] = handler] /\ UNCHANGED wait

Crash(n, reason) == fault' = [fault EXCEPT ![n] = reason]

\* Channel::publish logs a failed publish and returns: the message is lost on
\* that link and nobody is told.
Publish(n, message, receivers) ==
  \E failed \in SUBSET receivers :
    /\ lost' = lost \cup ({n} \X failed)
    /\ Cardinality(lost') <= MaxLost
    /\ chan' = [chan EXCEPT ![n] =
         [m \in Node |-> IF m \in receivers \ failed
                         THEN Append(chan[n][m], message) ELSE chan[n][m]]]

\* condition.wait(lock, predicate).  The event loop neither changes the data nor
\* notifies under the mutex of the condition variable.  So between the moment the
\* predicate is found false ("gap") and the moment the thread sleeps ("parked")
\* the data may change and a notification may come and go unheard.
CvWait(n, predicate, handler) ==
  \/ predicate /\ Goto(n, handler)
  \/ ~predicate /\ wait' = [wait EXCEPT ![n] = "gap"] /\ UNCHANGED pc

Park(n) ==
  /\ wait[n] = "gap"
  /\ wait' = [wait EXCEPT ![n] = "parked"]
  /\ UNCHANGED <<timerVars, pc, broadcastBlock, entry, storeVars, syncVars, netVars,
                 history, loop, fault>>

SavePendingBlock(n) ==
  /\ At(n, "save")
  /\ InitOrder = "initFirst" => timer[n] = "done"
  /\ entry' = [entry EXCEPT ![n] = "pending"]
  /\ known' = [known EXCEPT ![n] = @ \cup {n}]
  /\ block' = [block EXCEPT ![n][n] = PendingBlock(IF own[n] THEN {n} ELSE {})]
  /\ Goto(n, "announce")
  /\ UNCHANGED <<timerVars, broadcastBlock, contributing, value, resolved, validator,
                 syncVars, netVars, history, loop, fault>>

NotifyNodesAboutContribution(n) ==
  /\ At(n, "announce")
  /\ contributing' = [contributing EXCEPT ![n][n] = IF own[n] THEN "yes" ELSE "no"]
  /\ Publish(n, [op |-> "INSPECTION", isContributing |-> own[n]], Node \ {n})
  /\ Goto(n, "inspect")
  /\ UNCHANGED <<timerVars, broadcastBlock, entry, known, value, block, resolved,
                 validator, syncVars, history, loop, fault>>

\* The early return and the wait test the same predicate and leave in the same
\* way.  Without the slot's SlotSychronizationContext both dereference null.
WaitForNodesInspection(n) ==
  /\ At(n, "inspect")
  /\ \/ /\ ~cond[n]
        /\ Crash(n, "nullSync")
        /\ UNCHANGED <<pc, wait, synced>>
     \/ /\ cond[n]
        /\ CvWait(n, Confirmed(n), "remove")
        /\ synced' = IF Confirmed(n) THEN [synced EXCEPT ![n] = FALSE] ELSE synced
        /\ UNCHANGED fault
  /\ UNCHANGED <<timerVars, broadcastBlock, entry, storeVars, cond, netVars, history, loop>>

EndIdleSlot(n) == entry' = [entry EXCEPT ![n] = "removed"] /\ UNCHANGED cond

\* Nobody contributes: the placeholder leaves the blockchain and the chain of
\* handlers ends, without clearSlot.
RemovePendingBlockIfNoOneIsContributing(n) ==
  /\ At(n, "remove")
  /\ \E answer \in IsAnyNodeContributing(known[n], contributing[n]) :
       \/ answer = "yes" /\ Goto(n, "elect") /\ UNCHANGED <<entry, cond, fault>>
       \/ answer = "no" /\ EndIdleSlot(n) /\ Goto(n, "removed") /\ UNCHANGED fault
       \/ answer = "throw" /\ Crash(n, "badOptional") /\ UNCHANGED <<pc, wait, entry, cond>>
  /\ UNCHANGED <<timerVars, broadcastBlock, storeVars, synced, netVars, history, loop>>

\* ElectionNotifier::notify, as a handler and again after every purge.
SendElectionValue(n) ==
  /\ At(n, "elect")
  /\ \E v \in Draws[n] :
       /\ value' = [value EXCEPT ![n][n] = v]
       /\ drawn' = [drawn EXCEPT ![n] = @ \cup {v}]
       /\ Publish(n, [op |-> "ELECTION", value |-> v], Node \ {n})
  /\ Goto(n, "electLoop")
  /\ UNCHANGED <<timerVars, broadcastBlock, entry, known, contributing, block, resolved,
                 validator, syncVars, purges, loop, fault>>

\* The test of the while loop, with the unique_lock not owned.
TestElectionLoop(n) ==
  /\ At(n, "electLoop")
  /\ Goto(n, IF Present(n) /\ Unique(n) THEN "nominate" ELSE "electCv")
  /\ UNCHANGED <<timerVars, broadcastBlock, entry, storeVars, syncVars, netVars, history,
                 loop, fault>>

\* The wait for the values, and the test that decides about the purge.
WaitForNodesElection(n) ==
  /\ At(n, "electCv")
  /\ CvWait(n, Present(n), IF Unique(n) THEN "electRetest" ELSE "purge")
  /\ UNCHANGED <<timerVars, broadcastBlock, entry, storeVars, syncVars, netVars, history,
                 loop, fault>>

RemoveDuplicates(n) ==
  /\ At(n, "purge")
  /\ purges[n] < MaxPurges
  /\ value' = [value EXCEPT ![n] = RemoveElectionValueDuplicates(known[n], @)]
  /\ synced' = [synced EXCEPT ![n] = FALSE]
  /\ purges' = [purges EXCEPT ![n] = @ + 1]
  /\ Goto(n, "elect")
  /\ UNCHANGED <<timerVars, broadcastBlock, entry, known, contributing, block, resolved,
                 validator, cond, netVars, drawn, loop, fault>>

\* The test of the while loop once more, with the unique_lock still owned: lock()
\* on an owned lock throws system_error.
RetestElectionLoop(n) ==
  /\ At(n, "electRetest")
  /\ \/ Present(n) /\ Unique(n) /\ Goto(n, "nominate") /\ UNCHANGED fault
     \/ ~(Present(n) /\ Unique(n)) /\ Crash(n, "relock") /\ UNCHANGED <<pc, wait>>
  /\ UNCHANGED <<timerVars, broadcastBlock, entry, storeVars, syncVars, netVars, history, loop>>

NominateValidator(n) ==
  /\ At(n, "nominate")
  /\ \E a \in MarkValidator(known[n], value[n]) : validator' = [validator EXCEPT ![n] = a]
  /\ Goto(n, "relay")
  /\ UNCHANGED <<timerVars, broadcastBlock, entry, known, contributing, value, block,
                 resolved, syncVars, netVars, history, loop, fault>>

\* A node that is not the validator skips waitForContributorsData and broadcast.
TransferDataToValidator(n) ==
  /\ At(n, "relay")
  /\ IF validator[n] = n \/ ~own[n]
     THEN UNCHANGED <<block, resolved, netVars>>
     ELSE /\ block' = [block EXCEPT ![n][n] = PendingBlock({n})]
          /\ Publish(n, [op |-> "UPLOADING", block |-> PendingBlock({n})], {validator[n]})
          /\ resolved' = [resolved EXCEPT ![n][n] = TRUE]
  /\ Goto(n, IF validator[n] = n THEN "collect" ELSE "await")
  /\ UNCHANGED <<timerVars, broadcastBlock, entry, known, contributing, value, validator,
                 syncVars, history, loop, fault>>

\* The early return and the wait test the same predicate and leave in the same
\* way.
WaitForContributorsData(n) ==
  /\ At(n, "collect")
  /\ \E answer \in Collected(n) :
       \/ /\ answer = "yes"
          /\ LET merged == MergeContributors(known[n], contributing[n], block[n], n)
             IN  /\ block' = [block EXCEPT ![n][n] = merged]
                 /\ broadcastBlock' = [broadcastBlock EXCEPT ![n] = merged]
          /\ resolved' = [resolved EXCEPT ![n][n] = TRUE]
          /\ synced' = [synced EXCEPT ![n] = FALSE]
          /\ Goto(n, "broadcast")
          /\ UNCHANGED fault
       \/ /\ answer = "no"
          /\ CvWait(n, FALSE, "broadcast")
          /\ UNCHANGED <<block, broadcastBlock, resolved, synced, fault>>
       \/ /\ answer = "throw"
          /\ Crash(n, "badOptional")
          /\ UNCHANGED <<pc, wait, block, broadcastBlock, resolved, synced>>
  /\ UNCHANGED <<timerVars, entry, known, contributing, value, validator, cond, netVars,
                 history, loop>>

\* The validator does not wait for a broadcast.
Broadcast(n) ==
  /\ At(n, "broadcast")
  /\ Publish(n, [op |-> "BROADCAST", block |-> broadcastBlock[n]], Node \ {n})
  /\ Goto(n, "store")
  /\ UNCHANGED <<timerVars, broadcastBlock, entry, storeVars, syncVars, history, loop, fault>>

TakeBroadcastBlock(n) ==
  /\ broadcastBlock' = [broadcastBlock EXCEPT ![n] = block[n][validator[n]]]
  /\ synced' = [synced EXCEPT ![n] = FALSE]

\* The early return looks at isResolved only.
WaitForBroadcast(n) ==
  /\ At(n, "await")
  /\ \/ resolved[n][validator[n]] /\ TakeBroadcastBlock(n) /\ Goto(n, "store")
     \/ /\ ~resolved[n][validator[n]]
        /\ Goto(n, "awaitCv")
        /\ UNCHANGED <<broadcastBlock, synced>>
  /\ UNCHANGED <<timerVars, entry, storeVars, cond, netVars, history, loop, fault>>

\* The wait looks at isSynchronized as well.
WaitForBroadcastCv(n) ==
  /\ At(n, "awaitCv")
  /\ LET arrived == synced[n] /\ resolved[n][validator[n]]
     IN  /\ CvWait(n, arrived, "store")
         /\ \/ arrived /\ TakeBroadcastBlock(n)
            \/ ~arrived /\ UNCHANGED <<broadcastBlock, synced>>
  /\ UNCHANGED <<timerVars, entry, storeVars, cond, netVars, history, loop, fault>>

\* RedisDB::update and clearSlot: the contexts of the slot go back to the default
\* that contexts[a][slot] gives, the entries of the addresses stay.
SaveCompleteBlock(n) ==
  /\ At(n, "store")
  /\ entry' = [entry EXCEPT ![n] = "saved"]
  /\ contributing' = [contributing EXCEPT ![n] = [a \in Node |-> "unset"]]
  /\ value' = [value EXCEPT ![n] = [a \in Node |-> 0]]
  /\ block' = [block EXCEPT ![n] = [a \in Node |-> EmptyBlock]]
  /\ resolved' = [resolved EXCEPT ![n] = [a \in Node |-> FALSE]]
  /\ cond' = [cond EXCEPT ![n] = FALSE]
  /\ synced' = [synced EXCEPT ![n] = FALSE]
  /\ Goto(n, "publish")
  /\ UNCHANGED <<timerVars, broadcastBlock, known, validator, netVars, history, loop, fault>>

PublishBlock(n) ==
  /\ At(n, "publish")
  /\ Goto(n, "done")
  /\ UNCHANGED <<timerVars, broadcastBlock, entry, storeVars, syncVars, netVars, history,
                 loop, fault>>

SlotThread(n) ==
  \/ SavePendingBlock(n)
  \/ NotifyNodesAboutContribution(n)
  \/ WaitForNodesInspection(n)
  \/ RemovePendingBlockIfNoOneIsContributing(n)
  \/ SendElectionValue(n)
  \/ TestElectionLoop(n)
  \/ WaitForNodesElection(n)
  \/ RemoveDuplicates(n)
  \/ RetestElectionLoop(n)
  \/ NominateValidator(n)
  \/ TransferDataToValidator(n)
  \/ WaitForContributorsData(n)
  \/ Broadcast(n)
  \/ WaitForBroadcast(n)
  \/ WaitForBroadcastCv(n)
  \/ SaveCompleteBlock(n)
  \/ PublishBlock(n)
  \/ Park(n)

\* The standard lets a condition variable wake a thread for no reason.
SpuriousWake(n) ==
  /\ wait[n] = "parked"
  /\ wait' = [wait EXCEPT ![n] = "run"]
  /\ UNCHANGED <<timerVars, pc, broadcastBlock, entry, storeVars, syncVars, netVars,
                 history, loop, fault>>

-----------------------------------------------------------------------------
(* The event loop: the handler of the node's consensus queue. *)

\* The messages of one sender arrive in the order it published them, those of
\* different senders in any order.
Arrived(n, s, op) == chan[s][n] # <<>> /\ Head(chan[s][n]).op = op

Work(n, stage) == loop' = [loop EXCEPT ![n] = [stage |-> stage, from |-> NoNode]]

Consume(n, s) ==
  /\ chan' = [chan EXCEPT ![s][n] = Tail(@)]
  /\ known' = [known EXCEPT ![n] = @ \cup {s}]

\* initConditions and addContext, which makes the sender's context with no
\* contribution in it yet.
AddContext(n) ==
  /\ loop[n].stage = "idle"
  /\ \E s \in Node :
       /\ Arrived(n, s, "INSPECTION")
       /\ known' = [known EXCEPT ![n] = @ \cup {s}]
       /\ loop' = [loop EXCEPT ![n] = [stage |-> "addContext", from |-> s]]
  /\ cond' = [cond EXCEPT ![n] = TRUE]
  /\ UNCHANGED <<timerVars, threadVars, contributing, value, block, resolved, validator,
                 synced, netVars, history, fault>>

SetContribution(n) ==
  /\ loop[n].stage = "addContext"
  /\ LET s == loop[n].from
         message == Head(chan[s][n])
     IN  /\ contributing' = [contributing EXCEPT ![n][s] =
                               IF message.isContributing THEN "yes" ELSE "no"]
         /\ Consume(n, s)
  /\ Work(n, "confirmed")
  /\ UNCHANGED <<timerVars, threadVars, value, block, resolved, validator, syncVars, lost,
                 history, fault>>

FillElectionValue(n) ==
  /\ loop[n].stage = "idle"
  /\ \E s \in Node :
       /\ Arrived(n, s, "ELECTION")
       /\ value' = [value EXCEPT ![n][s] = Head(chan[s][n]).value]
       /\ Consume(n, s)
  /\ Work(n, "present")
  /\ UNCHANGED <<timerVars, threadVars, contributing, block, resolved, validator, syncVars,
                 lost, history, fault>>

AddContributorBlock(n) ==
  /\ loop[n].stage = "idle"
  /\ \E s \in Node :
       /\ Arrived(n, s, "UPLOADING")
       /\ block' = [block EXCEPT ![n][s] = Head(chan[s][n]).block]
       /\ Consume(n, s)
  /\ Work(n, "collected")
  /\ UNCHANGED <<timerVars, threadVars, contributing, value, resolved, validator, syncVars,
                 lost, history, fault>>

\* Deviation: the sender is not marked as resolved.
AddBlockOnly(n) ==
  /\ loop[n].stage = "idle"
  /\ \E s \in Node :
       /\ Arrived(n, s, "BROADCAST")
       /\ block' = [block EXCEPT ![n][s] = Head(chan[s][n]).block]
       /\ Consume(n, s)
  /\ Work(n, "store")
  /\ UNCHANGED <<timerVars, threadVars, contributing, value, resolved, validator, syncVars,
                 lost, history, fault>>

AddBroadcastBlock(n) ==
  /\ loop[n].stage = "idle"
  /\ \E s \in Node :
       /\ Arrived(n, s, "BROADCAST")
       /\ block' = [block EXCEPT ![n][s] = Head(chan[s][n]).block]
       /\ resolved' = [resolved EXCEPT ![n][s] = TRUE]
       /\ Consume(n, s)
  /\ Work(n, "store")
  /\ UNCHANGED <<timerVars, threadVars, contributing, value, validator, syncVars, lost,
                 history, fault>>

\* Is what the waiter waits for there?
CheckCondition(n) ==
  /\ \/ /\ loop[n].stage = "confirmed"
        /\ Work(n, IF Confirmed(n) THEN "store" ELSE "idle")
        /\ UNCHANGED fault
     \/ /\ loop[n].stage = "present"
        /\ Work(n, IF Present(n) THEN "store" ELSE "idle")
        /\ UNCHANGED fault
     \/ /\ loop[n].stage = "collected"
        /\ \E answer \in Collected(n) :
             \/ answer = "yes" /\ Work(n, "store") /\ UNCHANGED fault
             \/ answer = "no" /\ Work(n, "idle") /\ UNCHANGED fault
             \/ answer = "throw" /\ Crash(n, "badOptional") /\ UNCHANGED loop
  /\ UNCHANGED <<timerVars, threadVars, storeVars, syncVars, netVars, history>>

\* Each call looks conditions[slot] up again, and clearSlot may have erased it.
StoreSynchronized(n) ==
  /\ loop[n].stage = "store"
  /\ \/ cond[n] /\ synced' = [synced EXCEPT ![n] = TRUE] /\ Work(n, "notify") /\ UNCHANGED fault
     \/ ~cond[n] /\ Crash(n, "nullSync") /\ UNCHANGED <<synced, loop>>
  /\ UNCHANGED <<timerVars, threadVars, storeVars, cond, netVars, history>>

NotifyAll(n) ==
  /\ loop[n].stage = "notify"
  /\ \/ /\ cond[n]
        /\ wait' = [wait EXCEPT ![n] = IF @ = "parked" THEN "run" ELSE @]
        /\ Work(n, "idle")
        /\ UNCHANGED fault
     \/ ~cond[n] /\ Crash(n, "nullSync") /\ UNCHANGED <<wait, loop>>
  /\ UNCHANGED <<timerVars, pc, broadcastBlock, entry, storeVars, syncVars, netVars, history>>

EventLoop(n) ==
  \/ AddContext(n)
  \/ SetContribution(n)
  \/ FillElectionValue(n)
  \/ AddContributorBlock(n)
  \/ AddBroadcastBlock(n)
  \/ CheckCondition(n)
  \/ StoreSynchronized(n)
  \/ NotifyAll(n)

-----------------------------------------------------------------------------
\* An exception that leaves a thread, or a null dereference, ends the process.
Step(n) == fault[n] = "none" /\ (Timer(n) \/ SlotThread(n) \/ EventLoop(n) \/ SpuriousWake(n))

Next == \E n \in Node : Step(n)

\* The operating system runs every thread of a living process now and then;
\* nothing promises a spurious wakeup.
Fairness == \A n \in Node :
  /\ WF_vars(fault[n] = "none" /\ Timer(n))
  /\ WF_vars(fault[n] = "none" /\ SlotThread(n))
  /\ WF_vars(fault[n] = "none" /\ EventLoop(n))

Spec == Init /\ [][Next]_vars

FairSpec == Spec /\ Fairness
=============================================================================
