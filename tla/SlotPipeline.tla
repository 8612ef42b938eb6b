---------------------------- MODULE SlotPipeline ----------------------------
(***************************************************************************)
(* One node over several slots: the messages its clients send it, the      *)
(* buffer that packs them into blocks (node/src/Buffer.cpp), the list of   *)
(* blocks in Redis (node/src/db/RedisDB.cpp), and the threads of the slots,*)
(* which append a placeholder when they start and complete or remove it    *)
(* when their consensus has ended.  No wait of the consensus has a timeout,*)
(* so the thread of a slot may still run when later slots start.           *)
(*                                                                         *)
(* The consensus between the two is that of SlotConsensus; here it ends at *)
(* any time, idle only for a slot without data of this node.               *)
(***************************************************************************)
EXTENDS SequencesExt

CONSTANTS
  Slots,       \* bound: the number of slots
  MaxReceived, \* bound: the number of messages
  MaxLive,     \* the number of slots whose threads may be alive together
  MaxRestarts  \* bound: restarts of the process

ASSUME SlotsAssumption == Slots \in Nat /\ MaxReceived \in Nat
ASSUME BoundsAssumption == MaxLive \in Nat /\ MaxRestarts \in Nat

VARIABLES
  received,  \* how many messages have arrived; they are numbered by arrival
  messages,  \* Buffer::messages
  blocks,    \* Buffer::blocks
  clock,     \* the number of the current slot
  pc,        \* what the thread started in a slot does next
  block,     \* its SlotContext::block
  index,     \* its SlotContext::blockIndex, counted from 1
  victim,    \* the block TryRemove has read from the list
  chain,     \* the list of blocks in Redis
  fault,     \* the exception that ended the process
  shifted,   \* history: an entry before the last one has been removed
  lost,      \* history: messages in the memory of a process that died
  restarts   \* how often the process has been started again

bufferVars == <<received, messages, blocks>>
threadVars == <<clock, pc, block, index, victim>>
history    == <<lost, restarts>>
vars == <<bufferVars, threadVars, chain, fault, shifted, history>>

Thread == 1..Slots

Message == 1..MaxReceived

\* The thread that makes a block stands for its time stamp, which tells the
\* placeholders of different threads apart.
Block == [by : Thread, slot : 0..Slots, state : {"PENDING", "COMPLETED"},
          data : SUBSET Message]

NoBlock == [by |-> 0, slot |-> 0, state |-> "PENDING", data |-> {}]

Live == {t \in Thread : pc[t] \notin {"new", "ended"}}

\* The threads that have appended their placeholder and not finished with it.
Placed == {t \in Thread : pc[t] \in {"consensus", "remove"}}

-----------------------------------------------------------------------------
Init ==
  /\ received = 0
  /\ messages = {}
  /\ blocks = <<>>
  /\ clock = 0
  /\ pc = [t \in Thread |-> "new"]
  /\ block = [t \in Thread |-> NoBlock]
  /\ index = [t \in Thread |-> 0]
  /\ victim = [t \in Thread |-> NoBlock]
  /\ chain = <<>>
  /\ fault = "none"
  /\ shifted = FALSE
  /\ lost = {}
  /\ restarts = 0

Goto(t, next) == pc' = [pc EXCEPT ![t] = next]

\* The thread of the consumer: Buffer::push.  A slot is left to store the message.
Push ==
  /\ received < MaxReceived
  /\ clock < Slots
  /\ received' = received + 1
  /\ messages' = messages \cup {received + 1}
  /\ UNCHANGED <<blocks, threadVars, chain, fault, shifted, history>>

\* The timer starts the thread of the next slot, whether or not those of the
\* slots before have ended.
StartThread ==
  /\ clock < Slots
  /\ Cardinality(Live) < MaxLive
  /\ clock' = clock + 1
  /\ Goto(clock + 1, "save")
  /\ UNCHANGED <<bufferVars, block, index, victim, chain, fault, shifted, history>>

-----------------------------------------------------------------------------
(* PendingBlockSaver::save. *)

\* Buffer::save.  The constructor of the block takes the slot from the clock.
SaveLeaving(t, rest) ==
  /\ pc[t] = "save"
  /\ messages' = rest
  /\ blocks' = IF messages = {} THEN blocks
               ELSE Append(blocks, [slot |-> clock, data |-> messages])
  /\ Goto(t, "pop")
  /\ UNCHANGED <<received, clock, block, index, victim, chain, fault, shifted, history>>

\* Deviation: the messages stay in the buffer after they have been moved.
SaveCopy(t) == SaveLeaving(t, messages)

Save(t) == SaveLeaving(t, {})

\* Buffer::pop takes the oldest block, which another thread may have saved.
PopFront(t, rest) ==
  /\ pc[t] = "pop"
  /\ LET popped == IF blocks = <<>> THEN [slot |-> clock, data |-> {}] ELSE Head(blocks)
     IN  block' = [block EXCEPT ![t] = [by |-> t, slot |-> popped.slot,
                                        state |-> "PENDING", data |-> popped.data]]
  /\ blocks' = rest
  /\ Goto(t, "add")
  /\ UNCHANGED <<received, messages, clock, index, victim, chain, fault, shifted, history>>

\* Deviation: the oldest block is read and stays.
PopNothing(t) == PopFront(t, blocks)

\* Deviation: without a block of its own the thread keeps the context's first one.
PopOrKeep(t) ==
  \/ blocks # <<>> /\ PopFront(t, Tail(blocks))
  \/ /\ pc[t] = "pop" /\ blocks = <<>>
     /\ Goto(t, "add")
     /\ UNCHANGED <<bufferVars, clock, block, index, victim, chain, fault, shifted, history>>

Pop(t) == PopFront(t, IF blocks = <<>> THEN <<>> ELSE Tail(blocks))

\* saveBlockToDb: RedisDB::add returns the new length of the list.
AddAndKeepIndex(t, i) ==
  /\ pc[t] = "add"
  /\ chain' = Append(chain, block[t])
  /\ index' = [index EXCEPT ![t] = i]
  /\ Goto(t, "consensus")
  /\ UNCHANGED <<bufferVars, clock, block, victim, fault, shifted, history>>

\* Deviation: the length before the append is taken for the index.
SaveBlockToDbOffByOne(t) == AddAndKeepIndex(t, Len(chain))

SaveBlockToDb(t) == AddAndKeepIndex(t, Len(chain) + 1)

-----------------------------------------------------------------------------
(* PendingBlockRemover::tryRemove, when nobody contributes. *)

\* RedisDB::getByIndex; value() throws when the list is too short by now.
GetByIndex(t) ==
  /\ pc[t] = "consensus"
  /\ block[t].data = {}
  /\ \/ /\ index[t] \in DOMAIN chain
        /\ victim' = [victim EXCEPT ![t] = chain[index[t]]]
        /\ Goto(t, "remove")
        /\ UNCHANGED fault
     \/ /\ index[t] \notin DOMAIN chain
        /\ fault' = "badOptional"
        /\ UNCHANGED <<victim, pc>>
  /\ UNCHANGED <<bufferVars, clock, block, index, chain, shifted, history>>

\* Deviation: the placeholder of an idle slot stays in the list.
KeepIdle(t) ==
  /\ pc[t] = "remove"
  /\ Goto(t, "ended")
  /\ UNCHANGED <<bufferVars, clock, block, index, victim, chain, fault, shifted, history>>

\* RedisDB::remove: the first entry that equals the block, if there is one.
RemoveBlock(t) ==
  /\ pc[t] = "remove"
  /\ LET places == {i \in DOMAIN chain : chain[i] = victim[t]}
     IN  \/ /\ places = {}
            /\ UNCHANGED <<chain, shifted>>
         \/ \E i \in places :
              /\ \A j \in places : i <= j
              /\ chain' = RemoveAt(chain, i)
              /\ shifted' = (shifted \/ i < Len(chain))
  /\ Goto(t, "ended")
  /\ UNCHANGED <<bufferVars, clock, block, index, victim, fault, history>>

\* CompleteBlockSaver::save: RedisDB::update throws on an index out of range.
UpdateAt(t, i) ==
  /\ pc[t] = "consensus"
  /\ \/ /\ i \in DOMAIN chain
        /\ chain' = [chain EXCEPT ![i] = [block[t] EXCEPT !.state = "COMPLETED"]]
        /\ Goto(t, "ended")
        /\ UNCHANGED fault
     \/ /\ i \notin DOMAIN chain
        /\ fault' = "outOfRange"
        /\ UNCHANGED <<chain, pc>>
  /\ UNCHANGED <<bufferVars, clock, block, index, victim, shifted, history>>

\* Deviation: the context's index is never set.
UpdateFirst(t) == UpdateAt(t, 1)

Update(t) == UpdateAt(t, index[t])

\* What the thread does without waiting for other nodes.
OwnSteps(t) ==
  \/ Save(t)
  \/ Pop(t)
  \/ SaveBlockToDb(t)
  \/ RemoveBlock(t)

SlotThread(t) ==
  \/ OwnSteps(t)
  \/ GetByIndex(t)
  \/ Update(t)

-----------------------------------------------------------------------------
\* The process ends, by itself or by an exception that leaves a thread, and is
\* started again.  The list is Redis', the buffer and the threads are gone.
Restart ==
  /\ restarts < MaxRestarts
  /\ restarts' = restarts + 1
  /\ lost' = lost \cup messages \cup (UNION {blocks[i].data : i \in DOMAIN blocks})
                  \cup (UNION {block[t].data : t \in Live})
  /\ messages' = {}
  /\ blocks' = <<>>
  /\ pc' = [t \in Thread |-> IF pc[t] = "new" THEN "new" ELSE "ended"]
  /\ fault' = "none"
  /\ UNCHANGED <<received, clock, block, index, victim, chain, shifted>>

Process == Push \/ StartThread \/ \E t \in Thread : SlotThread(t)

Next ==
  \/ fault = "none" /\ Process
  \/ Restart

\* The timer and the threads of a living process run.  Nothing promises that a consensus
\* ends: its four waits have no timeout.
Fairness ==
  /\ WF_vars(fault = "none" /\ StartThread)
  /\ \A t \in Thread : WF_vars(fault = "none" /\ OwnSteps(t))

Spec == Init /\ [][Next]_vars

FairSpec == Spec /\ Fairness
=============================================================================
