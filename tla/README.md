# Blockchain-Messaging-System: models and proofs

TLA+ models of the nodes and clients of the system: the consensus of a slot, the
buffers and the list of blocks around it, the timer that drives it, the start of a
node and its sessions with clients; the TLC configurations that check small
instances; and TLAPS proofs of what holds for every value of the constants.

## 1. The system

Clients send messages to a node over AMQP. Every 500 ms (a *slot*) each node
packs the messages it has received into a block, and the nodes agree on one block
with the messages of all of them: they tell each other who has data, elect a
validator by random values, send it their data, and store the block it
broadcasts. The blockchain of a node is a list in Redis.

| Component | State | Operations | Interacts with |
|---|---|---|---|
| `db::ConsensusStorage` | `contexts[address][slot]` (contribution, election value, block, resolved, validator), `conditions[slot]` | about twenty queries and updates, each under one mutex | shared by the three threads below |
| `slot::SlotHandler` and its handlers | `SlotContext`: own block, broadcast block, index in the list, validator | `handle`: twelve handlers in order, ended early when nobody contributes | one detached thread per slot; storage, channels, Redis, buffer, consumer |
| consensus queue handler (`App.cpp:88-168`) | none of its own | INSPECTION, ELECTION, UPLOADING, BROADCAST | event-loop thread; writes the storage, notifies the slot's thread |
| timer callbacks (`App.cpp:61-82`) | none | initialise a slot, start its thread, `redis.save` | the timer's thread; `TimerWheel` runs them in the order of an unordered_map |
| `io::Channel`, `ChannelStore`, `ConnectionStore` | AMQP connections | `publish`, `consume` | a failed publish is logged and forgotten |
| `db::RedisDB` | the list of blocks | append, set by index, remove by value, read, save | all slot threads, the wheel's thread |
| `Buffer` (node) | messages, deque of blocks | `push`, `save`, `pop` | consumer thread and slot threads |
| `Consumer` | client names | declare and consume queues, deliver messages, `publish` blocks to clients | its event loop and the slot threads; AMQP |
| `Timer` | atomics `active` and `counter` | `setTimeout`, `setInterval`, `stop`, destructor | one detached thread per call |
| `TimerWheel`, `Time` | callbacks under a mutex, an interval of one slot | `start`, `stop`, `subscribe`, `unsubscribe` | runs the three callbacks of `App.cpp` in each slot |
| `main` (`App.cpp`) | - | connects to every node (in the background: an error is only logged), starts the loops and the wheel | all of the above; ends and restarts with the process |
| client | `common::Buffer`, a timer | init, send, exit; receive, print every 200 ms | AMQP event loop, timer thread, console |
| serialization, `Text`, configuration, `Producer` | - | formatting, set-up, console | - |

What makes it hard: three threads of a node share the storage of a slot, and the
condition variable's mutex protects none of what its predicate reads; messages of
different senders overtake each other; a publish may fail silently; no wait has a
timeout; an exception that leaves a thread ends the process; each node decides by
what it has heard so far, and all have to decide alike.

What makes each part correct:

* storage: a query answers about all nodes, and an update of one address leaves
  the others alone;
* slot: all nodes that finish a slot finish it in the same way, with the
  completed block that holds the data of all contributors once; a node with data
  never drops it; the slot ends;
* queue handler: it never meets a slot that has been cleared;
* Redis list and buffer: an index keeps pointing at the entry of its slot, a
  completed entry stays as it is, no message is lost or stored twice, and the
  placeholders go when their slots end;
* timer and wheel: at most one thread calls back, a stopped thread is silent, a
  timer that has been set is not stopped by its predecessor, no callback runs
  after `unsubscribe`, and a destructor that waits outlasts every sleep;
* clock: each slot has one pass and one thread, and all who take its number from
  the clock take the same;
* start: a failed connection holds a slot up everywhere or nowhere, and a node that
  is started again gets through what an earlier process has left in the durable queue;
* sessions: what is sent is taken, what is published to a client is printed there
  once.

## 2. Modules

| Module | Role |
|---|---|
| `ConsensusStorage` | the queries and updates of the storage on one slot, as operators without state |
| `SlotConsensus` | one slot at every node: timer callback, slot thread, event loop, network |
| `SlotAgreement` | what a slot promises, in one action |
| `SlotProperties` | invariants, action properties, liveness; the refinement of `SlotAgreement` |
| `MCSlotConsensus` | constants and constraints of the TLC runs |
| `SlotConsensusProofs` | type correctness |
| `SlotAgreementProofs` | agreement on the removal and on the validator, with collisions between two nodes |
| `SlotOutcomeProofs` | what block is saved, the refinement of `SlotAgreement`, why a process dies, nothing after `clearSlot` |
| `SlotPipeline`, `PipelineProperties` | one node over several, overlapping slots: buffer, threads, the list in Redis |
| `PipelineProofs` | what an index points at; what stands in the list; everything that goes wrong needs a shifted list |
| `IntervalTimer`, `TimerProperties` | `Timer` with its owner and its detached threads |
| `TimerWheel`, `WheelProperties` | `TimerWheel` on top of `IntervalTimer` |
| `MCTimers` | one run over a timer alone and under the wheel |
| `TimerProofs` | one armed thread, stopped threads are silent, who can stop a timer, what its destructor waits for; unsubscribed callbacks, passes |
| `SlotClock`, `ClockProperties` | discrete time: the wheel, its callbacks, the slot numbers each takes from the clock |
| `ClockProofs` | which slots a node takes part in, and with how many threads, for any lateness |
| `NodeStart`, `StartProperties` | set-up of a node, its consensus queue, end and restart of its process |
| `StartProofs` | no peer is left out of a completed slot; why a node ends by itself |
| `ClientSession`, `SessionProperties` | clients, broker and the node's `Consumer` |
| `SessionProofs` | no message is forgotten or printed twice |

`TimerWheel` extends `IntervalTimer`: the wheel's owner and thread take the timer's
steps. `MCTimers` chooses at the start whether the timer has an owner of its own or the wheel. The other modules meet at narrow interfaces. `SlotPipeline` ends the consensus
of a slot at any time where `SlotConsensus` says how; `SlotClock` says when the slots
that both start are; `NodeStart` keeps of a slot only which messages have come;
`ClientSession` replaces the blocks by one buffer.

### 2.1 `ConsensusStorage`

`K` is the set of addresses with an entry in the outer map: the code's queries
iterate over that map, not over the configured nodes, and this is where the first
slot after a start differs from the later ones. `all_of` and `any_of` stop early
and `.value()` throws on an empty optional, so three queries return the *set* of
answers the unspecified iteration order allows, `"throw"` among them. Messages of
one contributor travel together, so a block's data is the set of its
contributors, with a flag for data that was inserted twice.

### 2.2 `SlotConsensus`

| Variables | Code |
|---|---|
| `own` | what `Buffer::pop` gives the slot |
| `timer` | how far the callback `App.cpp:61-65` has come |
| `pc`, `wait` | the handler the slot's thread is in; running, about to sleep, asleep |
| `loop` | the message the event loop works on, and how far |
| `fault` | an uncaught exception or null dereference that ended the process |
| `known`, `contributing`, `value`, `block`, `resolved`, `validator` | `contexts` of the slot |
| `cond`, `synced` | `conditions[slot]` is there; its `isSynchronized` |
| `broadcastBlock`, `entry` | `SlotContext::broadcastBlock`; the slot's entry in Redis |
| `chan`, `lost` | the AMQP queues, one per sender and receiver; links on which a publish failed |
| `drawn`, `purges` | histories the properties refer to |

*Granularity.* A step is one critical section of the storage, or several that no
other thread can tell from one. In `NotifyNodesAboutContribution`,
`SendElectionValue` and `Broadcast` the update of the node's own context and the
publish form one step: the other nodes see only the messages, and the event loop
of the node writes other addresses. In `RemovePendingBlock...` the query and the
removal of the placeholder form one: the entry of the slot is the thread's alone.
In `WaitForNodesElection` the predicate and the uniqueness test form one step: the
event loop stores no zero, so a value that arrives between them could as well have
arrived before both. In
the event loop the steps that matter are kept apart, because the
slot's thread can clear the slot between any two of them: store the message, ask
whether everything is there, `isSynchronized.store`, `notify_all`. `InitContexts`
adds the entries of all nodes in one step; with two nodes the intermediate map
holds the node's own address only, which `SavePendingBlock` makes as well.

*Condition variable.* `condition.wait` re-tests its predicate, and neither the
data nor `notify_all` is protected by its mutex. `CvWait` therefore has two steps
between a false predicate and the sleep ("gap", then "parked" by `Park`); a
notification in the gap is lost. `SpuriousWake` is the wakeup the standard allows.

*Exceptions.* `fault` records `bad_optional_access`, the `system_error` of a
second `lock()` on an owned lock, and the null dereference after
`conditions[slot]` has made an empty pointer. All end the process; the other
nodes go on.

*Network.* AMQP keeps the order of one sender's messages; queues of different
senders interleave freely. `Publish` may fail on any subset of its links.

*Order of the callbacks.* `TimerWheel::callbacks` is an unordered_map, so the
callback that starts the slot's thread may come before the one that initialises the
storage. `InitOrder = "spawnFirst"` lets the thread run from the beginning, at any pace
relative to the initialisation, which contains the order `"initFirst"`. `two_nodes` and the
runs of the findings use `"initFirst"`; the safety `two_nodes` checks is proved for both
orders, `StallsExplained` is checked for
`"initFirst"`; `TwoNodes.cfg` with `"spawnFirst"` passes within the time of a run with
`MaxPurges = 0` only.

*Not in the model.* Several slots at once, the contents of messages, restarts.

### 2.3 `SlotAgreement`

The nodes with data are fixed when the slot starts; each node that ends it ends
with the placeholder removed when there are none, and otherwise with one completed
block with the data of all of them. `SlotConsensus` implements it through
`contributors <- Contributors, outcome[n] <- OutcomeOf(n)`.

### 2.4 `SlotPipeline`

| Variables | Code |
|---|---|
| `received`, `messages`, `blocks` | what clients have sent, `Buffer::messages`, `Buffer::blocks` |
| `clock`, `pc`, `block`, `index` | the slot, where its thread is, `SlotContext::block` and `blockIndex` |
| `victim`, `chain`, `fault` | the block `tryRemove` has read, the list in Redis, `bad_optional_access` or Redis' error |
| `shifted`, `lost`, `restarts` | histories: an entry before the last has been removed, messages of a dead process |

A step is one critical section of the buffer or one command of Redis. The thread
of a slot runs `save`, `pop`, `add`, and then either removes its placeholder
(`getByIndex`, then `lrem` of the first equal entry) or sets its index. `Restart`
keeps the list and forgets the rest. A completed block holds at least this node's
messages; those of the other nodes are not followed. `OwnSteps` are the steps a thread
takes by itself; how and whether its consensus ends (`GetByIndex`, `Update`) is left to
the other nodes, and nothing promises that it does.

### 2.5 `IntervalTimer` and `TimerWheel`

| Variables | Code |
|---|---|
| `active`, `counter` | the atomics of `Timer` |
| `kind`, `at` | which call made a thread, and its next access |
| `owner` | ready, in a set that waits for the counter, in the destructor's sleep ("dying"), past it ("waited"), gone without one |
| `wanted`, `doomed` | histories: set and not stopped since; threads that had yet to test `active` when the timer was stopped |
| `mutex`, `callbacks`, `nextId` | the members of `TimerWheel` |
| `todo`, `current` | what a pass over the callbacks has left, and runs |

A step of a thread is one access to an atomic; the owner's critical sections are
one step. The timer has one owner, as everywhere in the code. A sleep has no
length, but for the destructor's: it is a tenth longer than that of the last call's thread,
so it does not end before that thread has woken up (`FinishDestroy`); what threads do when they are
awake, and the threads of other calls, it does not ask about. `WaitOutlastsSleeps` says that the wait
is long enough for every sleep all the same. A callback that is awake may run on after the destructor, and
`~TimerWheel` never waits: it stops the timer itself (`TimerWheel.hpp:72`), and `~Timer` finds it inactive. The
order of callbacks is free (an `unordered_map`).

### 2.6 `SlotClock`

Time counts in units; a slot has `SlotTime` of them. The wheel may wake up
`MaxLate` units late in a period, the thread of a slot may start `MaxDelay` late. The pass and
the thread take the slot's number from the clock independently of each other, as
`App.cpp:62`, `App.cpp:78` and the constructor of `Block` do. What a thread does in its slot
is left to the other modules. The interval sleeps a whole slot after its
callbacks have returned (`Timer.hpp:63-70`), so the lateness of the passes adds up, and with enough
of it a slot has no pass at all. The properties state what holds up to then: their condition is that
the lateness so far (`Drift`), or that of one thread, does not reach the next boundary.
`OneThreadPerSlot` has no such condition: in any pass, two threads of one slot need one that has started
after the slot it was born in.

### 2.7 `NodeStart`

| Variables | Code |
|---|---|
| `malformed`, `connections`, `remoteChannels`, `main` | addresses `ConnectionStore::push` fails on, the two stores, the place in `main` |
| `dead` | nodes the connection to which has failed in the background: `ConnectionHandler::onError` only logs it, the channel stays in its store and what is published there is gone |
| `slot`, `passed`, `live`, `stage` | the time, whether the wheel has run, the slots' threads and how far they are |
| `told`, `sent`, `queue` | this node's messages each peer has got, the peers' messages, the durable queue |
| `hand`, `doing`, `handled`, `conditions` | the message the event loop handles and what it does next, what the storage has |
| `fault`, `forgotten`, `kills` | the end of the process; histories of what an earlier one took part in |

Everybody contributes and one peer is the validator of every slot: the election is
the subject of `SlotConsensus`, and here only the order of INSPECTION, ELECTION and
BROADCAST matters. The handler takes a message in the steps of `SlotConsensus`: store it
(`Take`), ask whether everything is there (`Ask`), and look the conditions up for
`isSynchronized` and for `notify_all` (`Notify`, twice); the slot's thread may complete and clear
the slot between any two. The queue is consumed without acknowledgements, so a message that
kills the process is gone, and so is what the broker has delivered and nobody has handled
when a process ends.

### 2.8 `ClientSession`

| Variables | Code |
|---|---|
| `declared`, `control`, `queues`, `inbox` | the broker: the queues that exist, and what is in them |
| `answers`, `consumed`, `clientNames`, `publishing`, `fault` | the node's `Consumer`: declarations under way, its consumers, the names, the holder of its mutex, a data race that ended it |
| `closed` | the broker has refused a declaration and closed the `Consumer`'s one channel |
| `buffer` | the messages for the next block |
| `state`, `data`, `copy` | a client: its process, `common::Buffer`, what `getData` has returned |
| `dropped`, `lost`, `owed`, `printed`, `late`, `forgotten` | histories: what became of each message; `late` came between `getData` and `clearBuffer`, `forgotten` was in the buffer of a process that exited |

The data race on `clientNames` is a choice: the iteration of `publish` gets away with
it, or the process ends. The broker drops what is published to a queue that is not
declared and keeps durable queues. The consumption starts when the declaration
is answered: AMQP serves one channel's requests in order. A declaration may be refused
(`DeclareError`), that of the control queue at the start too; the callbacks of the errors only log
(`Consumer.cpp:11-14`, `57`), so the node then takes and sends nothing until it is started again.

## 3. Runs

All instances are small, but each is chosen so that its question can be answered
with no: the mutants listed in `PROJECT.json` break every property under the same
configuration.

| Run | Instance | Shows |
|---|---|---|
| `two_nodes` | 2 nodes, later slot, colliding or different election values, 1 re-election each, 1 link may fail, fair | types; agreement on validator and removal; refinement of `SlotAgreement`; why a slot can stand still |
| `two_nodes_first_slot` | 2 nodes, empty `contexts`, callbacks in either order, 1 link may fail | only completed blocks are saved, nobody drops its own data |
| `three_nodes` | 3 nodes, one re-election, callbacks in either order | one validator and whole blocks without collisions; a process dies only on a slot it has completed, by the second `lock()` after another node's re-election, or when the thread overtakes `initConditions`; no message outlives its slot |
| `slot_pipeline` | 3 slots that may all be alive together, 3 messages, 1 restart, fair | every fault of the list needs a shifted list; no message is stored twice; placeholders go with their slots; no message stays in the buffer: it is stored or its slot stands still |
| `timers` | 4 calls of either kind, stops, destructor; the wheel with 3 subscriptions, fair | one armed thread, silence after a stop and after `unsubscribe`, who can stop a timer, a destructor that outlasts the sleeps; calls return, subscribers run again and again |
| `sessions` | 2 clients, 2 queues, 2 inits, 2 sends, 1 restart, 1 exit, any declaration refused, fair | what is sent is accounted for, what is published arrives and is printed once, but for the window between `getData` and `clearBuffer`; stuck queues need a closed channel or a restart |
| `slot_clock` | 7 units a slot, wheel and threads 1 unit late, 8 passes | one pass per slot and one number per slot until the lateness reaches a boundary; the saves; one thread per slot |
| `node_start` | 2 peers, 2 slots, 1 kill, 1 lost connection, any addresses malformed, 1 message waiting while another is handled, fair | no peer is left out of a completed slot; why a node ends by itself; the queue is emptied in the end |
| `two_validators`, `lost_publish`, `past_overridden`, `timer_restarted` | as small as the finding allows | the findings below |

*Bounds of the consensus.* `MaxPurges` bounds re-elections of a node, `MaxLost` the links on which
a publish fails, `Draws` the election values: with `CollidingDraws` node `a` collides with another node
or with none. Two nodes contain all
interleavings of the three threads of a node with another node; three are needed
for messages that overtake each other and for re-elections that only some nodes
take part in. The constraints of the three-node runs are: `OneBusyLoop`, at most
one event loop is in the middle of a message (its interleavings with the slot
threads are all kept); `OnePurge`, one re-election in the network;
`ElectionOnlyAfterPurge`, after it nothing is followed past the election
(`two_validators` stops there altogether, `ElectionOnly`); `OneOvertaker`, the thread of one node
only comes before the initialisation of its storage. What these cut off the run does not
show; the four properties of `three_nodes` are theorems without them. A node
at `PurgeBound` has used up its re-elections and counts as an explained stall.

*Bounds of the other modules.* `Slots`, `LastTick`, `MaxSets`, `MaxSubs`,
`MaxReceived`, `MaxInits`, `MaxSends` bound how long a run lasts, `MaxRestarts`,
`MaxKills` and `MaxExits` how often a process ends. Three slots alive at once are the fewest in
which a third thread uses an index that a removal between two others has shifted;
three calls of a timer let a thread of the first meet the third; two clients are
needed for a registration during another's delivery. With one unit of lateness per period of
seven, three passes are timely with their threads, and eight are enough for the lateness to reach a
boundary, for a slot to be left out and for two threads to meet in one slot. `MaxQueue` holds
back the peers, never the node: one message waits while another is handled, and the peers
publish in any order and at any time, also while the node is down.

Deadlock is not checked: a slot ends by standing still, and it stands still as well
when a thread waits for what does not come, which is what the liveness
properties are about; the other models end when their bounds are used up.

*Fairness.* Weak fairness of the threads of every living process: the operating
system schedules them, and a thread that can go on goes on; a sleep ends. No
fairness of `SpuriousWake`: the standard promises none. The mutex of `Consumer` is
released by `publish` for good once its block is sent, and the wheel's mutex is held by its owner for
single steps only, so weak fairness is enough for whoever waits for them. Nothing is assumed
of a consensus: the four waits have no timeout, so `slot_pipeline` has no fairness for the steps
that need it to have ended, nor `sessions` for the completion of a block (`BeginPublish`); their
properties speak of what happens up to there and from there on. `node_start` assumes that a process that
has died is started again. Nothing a user types, no other restart, and no failure is fair.

### Findings

| Run | What it shows |
|---|---|
| `two_validators` | with three nodes of which two collide, two nodes mark different validators (`ElectionWaiter.cpp:27`) |
| `lost_publish` | after a failed publish the receiver waits for ever (`Channel.cpp:35`) |
| `past_overridden` | overlapping slots overwrite completed blocks after an idle slot's placeholder is removed (`CompleteBlockSaver.cpp:20`) |
| `timer_restarted` | the late `stop()` of a timeout kills the timer set after it, if its owner has called `stop()` during the callback (`Timer.hpp:52`) |

What else can go wrong is stated positively: a property names the only causes, or
the only exception.

* `StallsExplained`: a slot stands still after a process has died, a lost
  notification, a failed publish, or a re-election that has removed a value its
  sender never sends again (`Starved`; `removeElectionValueDuplicates` compares
  every address with itself too and so zeroes every value, `ConsensusStorage.cpp:61-66`).
* `SavedIsCompleted`, `OwnBlockKept`: all that is left in the first slot, in which a node that
  knows just its own address confirms all contributors alone (`ConsensusStorage.cpp:16`).
* `CrashExplained`, `EndExplained`: when a process dies. A slot's thread can see `isResolved` after
  `App.cpp:160`, complete and clear the slot, and the handler then looks up what is gone (`App.cpp:163`); a
  thread that comes before `initConditions` finds a null pointer (`InspectionWaiter.cpp:20`); and after a restart the
  handler meets the last messages of slots whose first an earlier process has handled.
* `NobodyLeftOut`: with a connection that has failed in the background the slot stands still at both ends.
* `IndexSafe`, `OnceUnlessShifted`, `OverrideNeedsShift`, and the condition of `EveryMessagePlaced`:
  what goes wrong in the list goes wrong after a placeholder has left the middle of it.
* `EveryMessageBack` and `PrintedOnce`: a message comes back to every registered client and is printed
  at most once, unless it arrives between `getData` and `clearBuffer` and is cleared unseen
  (`Client.cpp:91-99`: two critical sections; the `scoped_lock` in between declares a variable).
* `SentAccounted`: a message that was sent before the node had declared its queue is
  dropped by the broker (`AmqpHandler.cpp:41` has no return handler).
* `EverySlotHandled`, `OwnSlot`: the conditions on the lateness, see 2.6.
* `StuckExplained`: after a restart nobody takes what is in a client's queue until one of them asks again,
  and after a refused declaration nobody takes anything.

## 4. Proofs

The theorems hold for every value of the constants that meets the assumptions named in the
modules they are about; what a theorem assumes beyond these is said here. Each rests on an
invariant that holds at the start and is kept by every step, with one lemma for each
actor or action; where TLC can enumerate it, the invariant was first checked on a small
instance.

### The consensus of a slot

* `TypeCorrect` (`SlotConsensusProofs`): `Spec => []TypeOK`. `TypeOK` is inductive because it
  contains `InHand`: the message whose sender's context `AddContext` made still
  heads its queue when `SetContribution` takes it.
* `RemovalAgreed` (`SlotAgreementProofs`): `Spec => []RemovalAgreement`. The
  invariant `RemovalInv` adds *honesty*: what is stored about a node and what is
  on the way from it is what the node has said (`Honest(s)` is the set of
  messages `s` may have published), and in a later slot every address has an
  entry. A node that finds only "no" has then heard a "no" from everybody.
* `ValidatorAgreed` (`SlotAgreementProofs`): `Spec => []ValidatorAgreement`. The invariant
  `BallotInv` adds `OneBallot`: without collisions no node comes to the purge,
  so every node draws once; who comes to the nomination has a value of
  everybody; hence all mark a winner of the same ballot, and `OneWinner` shows
  that it has only one. `CollisionFree` speaks of the history of draws, so it
  can only turn from true to false.
* `TwoNodesAgree` (`SlotAgreementProofs`): `Spec => []OneValidator` for a later slot of two
  nodes, whatever they draw, however often they go back to the election and whatever is lost.
  The run `two_validators` shows that three nodes do not have this. `RoundInv` counts: `Rounds(s)` is how
  often `s` has drawn, `Heard(n, s)` how many of its draws `n` has purged, holds or is still to
  receive. The second never exceeds the first, because a loss, or a value overwritten by a later
  one, only makes it smaller; as long as both are equal (`Full`) the last value on the way is the one
  `s` has (`Newest`), and a test that `n` has passed still holds (`Tested`). When a node comes to the
  nomination while the other has nominated, both counts force them into the same round,
  with nothing left to hear of, so they decide by the same two values; a node that nominates
  first leaves the other only its own choice (`Verdict`). With three nodes the argument fails: two of
  them may decide by values that the third has drawn in different rounds.

`SlotOutcomeProofs` continues from `BallotInv` and `RoundInv`; `Agreeing` is the case of no collisions
or of two nodes:

* `OwnBlocksKept`, `SavedBlocksCompleted`, `BlocksComplete`. `BlockInv` describes every block that
  is stored or on the way (`Storage`, `Parcels`): data of one contributor, or a block that a
  validator has completed. `Thread(n)` ties what a thread holds to its place. A validator has
  waited for the data of everybody who contributes, and by honesty it knows who does, so
  in an `Agreeing` slot the block is `Whole`. The first two theorems need neither a later slot
  nor the absence of collisions.
* `AgreementImplemented`: `Spec => AgreementSpec`, for a later slot (`LaterSlot`) whose nodes draw from
  pairwise disjoint sets, or of two nodes. Both assumptions are needed: `SavedIsCompleted` says what is left in a
  first slot, and with colliding draws of three nodes `two_validators` has two validators. The initial
  state maps to no outcomes, and the only steps that do not stutter are those that save a block or
  remove a placeholder; `BlockInv` and `RemovalAgreement` say that they do so alike.
* `CrashesExplained`: `Spec => []CrashExplained`, for a later slot and either order of the callbacks. `OrderInv`
  follows what a node has answered, voted and drawn along its thread; `CrashInv` adds that a thread
  past its first wait has found the synchronisation context the timer has made (`Equipped`) and that the loop, in
  the middle of a message, has its conditions or has been overtaken by `clearSlot` (`LoopReady`).
* `NothingAfterClear`: `Spec => []NoTrafficAfterClear`. `TrafficInv` says of each link that
  it carries a message of a kind at most once (`Distinct`), only what the sender has come to
  (`Sent`) and nothing that the receiver has stored already (`Got`). Before a node clears the slot
  it has waited for everything the others send it, so nothing is left.

### The list of blocks

* `PipelineTypes`, `IndexesSafe`, `OverridesNeedShift` (`PipelineProofs`). `PipelineInv` adds
  that a thread's block carries its own stamp (`OwnInv`), so that the first equal entry
  `lrem` finds is the thread's own, and that what `tryRemove` has read is that block (`VictimInv`).
  The last theorem is an action property and follows step by step.
* `MessagesListedOnce`. `OnceUnlessShifted` looks at the list only; the invariant `WayInv` follows a message
  from the client: before a shift it is in one place of the buffer, the packed blocks, the
  threads that have popped one and the list.
* `PlaceholdersAccounted`. `PlaceInv` says more than `PendingAccounted`: a pending entry
  is where the index of its thread points, so the thread's own last step takes it away;
  `UnbornInv` says that a slot has one thread.

### The timer and the wheel

* `OneThreadArmed`, `StoppedThreadsStaySilent`, `OnlyTimeoutsStop`, `TimerTypes` (`TimerProofs`), from one
  invariant `TimerInv`. `CounterInv`: at most one thread is counted, and the counter is 1 when there
  is one and 0 when there is none; it is inductive because `Start` waits for 0. `DoomedInv`: a thread
  that was stopped in its sleep keeps the counter at 1, so `active` stays false until it has left.
* `UnsubscribedStaysSilent`, `PassesExclude`. Each step of the wheel
  takes a step of the timer or none, so `TimerInv` is part of `WheelInv`; `PassInv` ties
  the mutex to the one thread that is calling back, and `SubsInv` the callbacks to the identifiers
  given out.
* `TimersTyped`, `TimersKeepPromises`: the same of the specification the run `timers`
  checks (`MCSpec`), in which the owner of the timer is the client's or a wheel. `WheelInv` holds
  there too, and `UseInv` says that a timer used on its own has no passes.
* `WaitsOutlastSleeps`, of `MCSpec` too. `CounterInv` says that a thread that has not left the counter is the one of the last
  call, whose delay the destructor has waited for; `EndInv` adds that nobody falls asleep once
  the destructor has stopped the timer.

### The clock

`ClockInv` (`ClockProofs`) places every pass in time: `DueInv` says that the wheel is due between the boundary of its slot
and that plus the lateness so far, `LastInv` that the last pass took its number at most `MaxLate` before it ended. The
lemmas about `div` turn times into numbers of slots.

* `ClockTypes`, `ThreadsOwnTheirSlots`, `DatabaseSaved`: for any length of a slot and any lateness.
* `ThreadsApart`: likewise, and for every pass. `BornInv` says that the threads are born a whole slot apart, since
  the wheel sleeps one after its callbacks, and that a thread takes the slot it was born in or a later one.
* `SlotsHandled`: under `2 * MaxLate <= SlotTime`. The numbers of two passes are taken up to
  `SlotTime + 2 * MaxLate` apart, since the first callback of one pass can run early in it and that of the next late;
  with more than half a slot of lateness TLC finds two slots left out at once. The bound is exact: at half a slot
  the theorem holds.

### The start of a node

* `StartTypes`, `NobodyIsLeftOut`, `EndsExplained` (`StartProofs`). `SetUpInv` ties the stores to the place in
  `main`. `QueueInv` says that each message is published once and is in the queue or handled, and `OrderInv` that the
  peers' messages follow what they have been told: the block of a slot comes only after every peer has got this
  node's contribution. `ConditionsInv` says that a message in the handler's hand belongs to a slot that has
  its conditions, is complete, or was begun by an earlier process; `LastInv` that the block is the last message of its
  slot, so that only its handling can meet a slot that is complete.

### The sessions

* `SessionTypes`, `OwedMessagesReach`, `SentMessagesAccounted`, `MessagesPrintedOnce` (`SessionProofs`).
  The three properties are not inductive. `Flow` says that a message is in one place from when
  it is sent (a queue, the node's buffer, the block that is being published), that what is still to be published to a
  client has not reached it (`Apart`), and that what a client has in its queue or its buffer is there once
  and has not been printed (`Once`). `Noted` says that what has come since `getData` is on record in `late`. `Sortable` shows that the order `mergeContributors` sorts a block into exists, so
  that the client's queue gets each message of the block once.

### What is only model-checked

`PassesExclude` and `TimerTypes` say more than the runs list; the other theorems
state properties that a run checks too. Only TLC checks

* what needs fairness, which is out of the prover's reach: `StallsExplained`, `EveryMessagePlaced`,
  `SetReturns`, `SubscriberRuns`, `EveryMessageBack`, `StuckExplained`, `GetsThrough`.

## 5. Not modelled, and the plan

* Reading the configuration, logging, the parsing of console lines, help texts, serialization: I/O and formatting
  that no property is about. Texts that contain the separator `@` of the protocol are left out of `ClientSession`.
* `Producer`: `App.cpp` never starts it. The client's `getMessages`: it sends nothing, and the command's name
  is compared with input in lower case, so nothing reaches it. `RedisDB::get` and `Buffer::push` of a
  vector: no caller.
* Undefined behaviour of containers and libraries as such: the race of `initContexts` on the
  outer map in the first slot, and AMQP-CPP channels used by a slot's thread while
  a loop runs them. The race on `clientNames` is modelled by its two outcomes.

What a continuation would take up: a composition of `SlotPipeline` with the agreed blocks of several nodes; three nodes with
a failing publish, and a re-election of three nodes followed to the end of the slot.
