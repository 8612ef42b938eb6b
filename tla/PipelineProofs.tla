--------------------------- MODULE PipelineProofs ---------------------------
(***************************************************************************)
(* Proofs about SlotPipeline: what an index into the list of blocks is     *)
(* good for as long as no placeholder has left the middle of the list, for *)
(* any number of slots whose threads overlap in any way.                   *)
(***************************************************************************)
EXTENDS PipelineProperties, SequenceTheorems, TLAPS

\* A thread works on a block of its own.
OwnInv ==
  \A t \in Thread : pc[t] \in {"add", "consensus", "remove"} =>
    /\ block[t] \in Block
    /\ block[t].by = t
    /\ block[t].state = "PENDING"

\* TryRemove has read the thread's own placeholder.
VictimInv == ~shifted => \A t \in Thread : pc[t] = "remove" => victim[t] = block[t]

ListInv == OwnInv /\ VictimInv /\ PointsUnlessShifted /\ FaultNeedsShift

PipelineInv == TypeOK /\ ListInv

-----------------------------------------------------------------------------
\* The fields of a block in the list.
LEMMA BlockFields ==
  \A b \in Block : b.data \subseteq Message /\ b.slot \in 0..Slots /\ b.by \in Thread
BY DEF Block

\* What RemoveAt returns.
LEMMA RemoveAtProperties ==
  ASSUME NEW S, NEW s \in Seq(S), NEW i \in 1..Len(s)
  PROVE  /\ RemoveAt(s, i) \in Seq(S)
         /\ Len(RemoveAt(s, i)) = Len(s) - 1
         /\ \A j \in 1..(Len(s) - 1) : RemoveAt(s, i)[j] = IF j < i THEN s[j] ELSE s[j + 1]
<1> DEFINE front == SubSeq(s, 1, i - 1)
           back == SubSeq(s, i + 1, Len(s))
<1>1. /\ front \in Seq(S) /\ Len(front) = i - 1
      /\ \A j \in 1..(i - 1) : front[j] = s[j]
  BY SubSeqProperties
<1>2. /\ back \in Seq(S) /\ Len(back) = Len(s) - i
      /\ \A j \in 1..(Len(s) - i) : back[j] = s[j + i]
  BY SubSeqProperties
<1> HIDE DEF front, back
<1>3. /\ front \o back \in Seq(S)
      /\ Len(front \o back) = Len(front) + Len(back)
      /\ \A j \in 1..(Len(front) + Len(back)) :
           (front \o back)[j] = IF j <= Len(front) THEN front[j] ELSE back[j - Len(front)]
  BY <1>1, <1>2, ConcatProperties
<1>4. ASSUME NEW j \in 1..(Len(s) - 1)
      PROVE  (front \o back)[j] = IF j < i THEN s[j] ELSE s[j + 1]
  <2>1. Len(s) \in Nat /\ i \in 1..Len(s) /\ j \in 1..(Len(s) - 1)
    BY <1>4
  <2>2. j \in 1..(Len(front) + Len(back))
    BY <1>1, <1>2, <2>1
  <2>3. CASE j < i
    BY <1>1, <1>3, <2>1, <2>2, <2>3
  <2>4. CASE j >= i
    <3>1. ~(j <= Len(front)) /\ j - Len(front) \in 1..(Len(s) - i)
      BY <1>1, <2>1, <2>4
    <3>2. (j - Len(front)) + i = j + 1
      BY <1>1, <2>1
    <3>3. (front \o back)[j] = back[j - Len(front)]
      BY <1>3, <2>2, <3>1
    <3>4. back[j - Len(front)] = s[(j - Len(front)) + i]
      BY <1>2, <3>1
    <3>5. (front \o back)[j] = s[j + 1] /\ ~(j < i)
      BY <2>1, <2>4, <3>2, <3>3, <3>4
    <3> QED
      BY <3>5
  <2>5. j < i \/ j >= i
    BY <2>1
  <2> QED
    BY <2>3, <2>4, <2>5
<1>5. RemoveAt(s, i) = front \o back
  BY DEF RemoveAt, front, back
<1>6. Len(front) + Len(back) = Len(s) - 1
  BY <1>1, <1>2
<1> QED
  BY <1>3, <1>4, <1>5, <1>6

\* The invariant holds when the node starts.
LEMMA InitPipeline == Init => PipelineInv
<1> SUFFICES ASSUME Init PROVE PipelineInv
  OBVIOUS
<1> USE DEF Init
<1>1. TypeOK
  <2>1. received \in 0..MaxReceived /\ clock \in 0..Slots /\ restarts \in 0..MaxRestarts
    BY SlotsAssumption, BoundsAssumption
  <2>2. blocks \in Seq([slot : 0..Slots, data : SUBSET Message]) /\ chain \in Seq(Block)
    OBVIOUS
  <2>3. /\ pc \in [Thread -> {"new", "save", "pop", "add", "consensus", "remove", "ended"}]
        /\ index \in [Thread -> Nat]
    OBVIOUS
  <2>4. block \in [Thread -> Block \cup {NoBlock}] /\ victim \in [Thread -> Block \cup {NoBlock}]
    OBVIOUS
  <2>5. shifted \in BOOLEAN
    BY Zenon
  <2> QED
    BY <2>1, <2>2, <2>3, <2>4, <2>5 DEF TypeOK
<1>2. \A t \in Thread : pc[t] = "new"
  OBVIOUS
<1>3. ListInv
  BY <1>2 DEF ListInv, OwnInv, VictimInv, PointsUnlessShifted, Placed, FaultNeedsShift
<1> QED
  BY <1>1, <1>3 DEF PipelineInv

\* A step that leaves the list and the threads that have placed their block alone.
LEMMA KeepList ==
  ASSUME ListInv, UNCHANGED <<chain, shifted>>,
         fault' # "none" => fault # "none",
         \A t \in Thread :
           pc'[t] \in {"add", "consensus", "remove"} =>
             pc'[t] = pc[t] /\ UNCHANGED <<block[t], index[t], victim[t]>>
  PROVE  ListInv'
BY DEF ListInv, OwnInv, VictimInv, PointsUnlessShifted, Placed, FaultNeedsShift

\* Buffer::save puts one more block into the buffer; the list stays as it is.
LEMMA StepSave == ASSUME PipelineInv, NEW t \in Thread, Save(t) PROVE PipelineInv'
<1> USE DEF Save, SaveLeaving, Goto, PipelineInv
<1>1. blocks' \in Seq([slot : 0..Slots, data : SUBSET Message])
  <2>1. [slot |-> clock, data |-> messages] \in [slot : 0..Slots, data : SUBSET Message]
    BY DEF TypeOK
  <2>2. blocks \in Seq([slot : 0..Slots, data : SUBSET Message])
    BY DEF TypeOK
  <2> QED
    BY <2>1, <2>2, AppendProperties
<1>2. TypeOK'
  BY <1>1 DEF TypeOK, history
<1>3. \A u \in Thread : pc'[u] \in {"add", "consensus", "remove"} => pc'[u] = pc[u]
  BY DEF TypeOK
<1>4. ListInv'
  BY <1>3, KeepList
<1> QED
  BY <1>2, <1>4

\* Buffer::pop gives the thread the oldest block, as a placeholder with the thread's own stamp.
LEMMA StepPop == ASSUME PipelineInv, NEW t \in Thread, Pop(t) PROVE PipelineInv'
<1> USE DEF PipelineInv
<1> DEFINE popped == IF blocks = <<>> THEN [slot |-> clock, data |-> {}] ELSE Head(blocks)
           new == [by |-> t, slot |-> popped.slot, state |-> "PENDING", data |-> popped.data]
<1>1. /\ pc[t] = "pop" /\ pc' = [pc EXCEPT ![t] = "add"] /\ block' = [block EXCEPT ![t] = new]
      /\ blocks' = IF blocks = <<>> THEN <<>> ELSE Tail(blocks)
      /\ UNCHANGED <<received, messages, clock, index, victim, chain, fault, shifted, history>>
  BY DEF Pop, PopFront, Goto
<1>2. popped \in [slot : 0..Slots, data : SUBSET Message]
  <2>1. clock \in 0..Slots /\ blocks \in Seq([slot : 0..Slots, data : SUBSET Message])
    BY DEF TypeOK
  <2>2. CASE blocks = <<>>
    BY <2>1, <2>2
  <2>3. CASE blocks # <<>>
    BY <2>1, <2>3, HeadTailProperties
  <2> QED
    BY <2>2, <2>3
<1>3. new \in Block /\ new.by = t /\ new.state = "PENDING"
  BY <1>2 DEF Block
<1> HIDE DEF popped, new
<1>4. blocks' \in Seq([slot : 0..Slots, data : SUBSET Message])
  BY <1>1 DEF TypeOK
<1>5. /\ pc'[t] = "add" /\ block'[t] = new
      /\ \A u \in Thread : u # t => pc'[u] = pc[u] /\ block'[u] = block[u]
  BY <1>1 DEF TypeOK
<1>6. TypeOK'
  BY <1>1, <1>3, <1>4 DEF TypeOK, history
<1>7. OwnInv'
  BY <1>3, <1>5 DEF ListInv, OwnInv
<1>8. VictimInv' /\ PointsUnlessShifted' /\ FaultNeedsShift'
  BY <1>1, <1>5 DEF ListInv, VictimInv, PointsUnlessShifted, Placed, FaultNeedsShift
<1> QED
  BY <1>6, <1>7, <1>8 DEF ListInv

\* The placeholder goes to the end of the list, and its index is the list's new length.
LEMMA StepSaveBlockToDb ==
  ASSUME PipelineInv, NEW t \in Thread, SaveBlockToDb(t) PROVE PipelineInv'
<1> USE DEF PipelineInv
<1>1. /\ pc[t] = "add" /\ pc' = [pc EXCEPT ![t] = "consensus"]
      /\ chain' = Append(chain, block[t]) /\ index' = [index EXCEPT ![t] = Len(chain) + 1]
      /\ UNCHANGED <<bufferVars, clock, block, victim, fault, shifted, history>>
      /\ chain \in Seq(Block) /\ block[t] \in Block
  BY DEF SaveBlockToDb, AddAndKeepIndex, Goto, TypeOK, ListInv, OwnInv
<1>2. /\ chain' \in Seq(Block) /\ Len(chain') = Len(chain) + 1
      /\ chain'[Len(chain) + 1] = block[t]
      /\ \A i \in 1..Len(chain) : chain'[i] = chain[i]
  BY <1>1
<1>3. /\ pc'[t] = "consensus" /\ index'[t] = Len(chain) + 1
      /\ \A u \in Thread : u # t => pc'[u] = pc[u] /\ index'[u] = index[u]
  BY <1>1 DEF TypeOK
<1>4. TypeOK'
  BY <1>1, <1>2 DEF TypeOK, bufferVars, history
<1>5. OwnInv' /\ VictimInv' /\ FaultNeedsShift'
  BY <1>1, <1>3 DEF ListInv, OwnInv, VictimInv, FaultNeedsShift
<1>6. PointsUnlessShifted'
  <2> SUFFICES ASSUME ~shifted', NEW u \in Placed'
               PROVE  index'[u] \in 1..Len(chain') /\ chain'[index'[u]] = block'[u]
    BY <1>2 DEF PointsUnlessShifted
  <2>1. CASE u = t
    BY <1>1, <1>2, <1>3, <2>1
  <2>2. CASE u # t
    <3>1. u \in Placed /\ index[u] \in 1..Len(chain) /\ chain[index[u]] = block[u]
      BY <1>1, <1>3, <2>2 DEF Placed, ListInv, PointsUnlessShifted
    <3> QED
      BY <1>1, <1>2, <1>3, <2>2, <3>1
  <2> QED
    BY <2>1, <2>2
<1> QED
  BY <1>4, <1>5, <1>6 DEF ListInv

\* tryRemove reads what the index points at, or throws.
LEMMA StepGetByIndex == ASSUME PipelineInv, NEW t \in Thread, GetByIndex(t) PROVE PipelineInv'
<1> USE DEF PipelineInv, GetByIndex, Goto
<1>1. CASE index[t] \in DOMAIN chain
  <2>1. /\ pc' = [pc EXCEPT ![t] = "remove"] /\ victim' = [victim EXCEPT ![t] = chain[index[t]]]
        /\ pc[t] = "consensus" /\ chain[index[t]] \in Block
        /\ UNCHANGED <<bufferVars, clock, block, index, chain, fault, shifted, history>>
    BY <1>1 DEF TypeOK
  <2>2. TypeOK'
    BY <2>1 DEF TypeOK, bufferVars, history
  <2>3. /\ pc'[t] = "remove" /\ victim'[t] = chain[index[t]]
        /\ \A u \in Thread : u # t => pc'[u] = pc[u] /\ victim'[u] = victim[u]
    BY <2>1 DEF TypeOK
  <2>4. OwnInv' /\ PointsUnlessShifted' /\ FaultNeedsShift'
    BY <2>1, <2>3 DEF ListInv, OwnInv, PointsUnlessShifted, Placed, FaultNeedsShift
  <2>5. VictimInv'
    BY <2>1, <2>3 DEF ListInv, VictimInv, PointsUnlessShifted, Placed
  <2> QED
    BY <2>2, <2>4, <2>5 DEF ListInv
<1>2. CASE index[t] \notin DOMAIN chain
  <2>1. fault' = "badOptional" /\ UNCHANGED <<bufferVars, threadVars, chain, shifted, history>>
    BY <1>2 DEF threadVars
  <2>2. TypeOK'
    BY <2>1 DEF TypeOK, bufferVars, threadVars, history
  <2>3. shifted
    BY <1>2 DEF ListInv, PointsUnlessShifted, Placed
  <2>4. ListInv'
    BY <2>1, <2>3
    DEF ListInv, OwnInv, VictimInv, PointsUnlessShifted, Placed, FaultNeedsShift, threadVars
  <2> QED
    BY <2>2, <2>4
<1> QED
  BY <1>1, <1>2

\* The entry RedisDB::remove takes away, when that is not in the middle of the list.
LEMMA RemovedIsOwn ==
  ASSUME PipelineInv, NEW t \in Thread, RemoveBlock(t), ~shifted'
  PROVE  /\ ~shifted
         /\ pc[t] = "remove" /\ index[t] = Len(chain) /\ Len(chain) > 0
         /\ chain[Len(chain)] = block[t]
         /\ chain' = RemoveAt(chain, Len(chain))
<1> USE DEF PipelineInv
<1> DEFINE places == {i \in DOMAIN chain : chain[i] = victim[t]}
<1>1. ~shifted
  BY DEF RemoveBlock
<1>2. /\ pc[t] = "remove" /\ index[t] \in 1..Len(chain) /\ chain[index[t]] = block[t]
      /\ victim[t] = block[t]
  BY <1>1 DEF RemoveBlock, ListInv, VictimInv, PointsUnlessShifted, Placed, TypeOK
<1>3. index[t] \in places
  BY <1>2 DEF TypeOK
<1>4. PICK i \in places : /\ \A j \in places : i <= j
                          /\ chain' = RemoveAt(chain, i)
                          /\ shifted' = (shifted \/ i < Len(chain))
  BY <1>3 DEF RemoveBlock
<1>5. ~(i < Len(chain))
  BY <1>4, Zenon
<1>6. i = Len(chain) /\ i <= index[t]
  BY <1>2, <1>3, <1>4, <1>5 DEF TypeOK
<1> QED
  BY <1>1, <1>2, <1>4, <1>6 DEF TypeOK

\* lrem takes the first equal entry out, which may shift the entries behind it.
LEMMA StepRemoveBlock == ASSUME PipelineInv, NEW t \in Thread, RemoveBlock(t) PROVE PipelineInv'
<1> USE DEF PipelineInv
<1>1. /\ pc[t] = "remove" /\ pc' = [pc EXCEPT ![t] = "ended"]
      /\ UNCHANGED <<bufferVars, clock, block, index, victim, fault, history>>
  BY DEF RemoveBlock, Goto
<1>2. pc'[t] = "ended" /\ \A u \in Thread : u # t => pc'[u] = pc[u]
  BY <1>1 DEF TypeOK
<1>3. chain' \in Seq(Block)
  BY RemoveAtProperties DEF RemoveBlock, TypeOK
<1>4. shifted' \in BOOLEAN /\ (shifted => shifted')
  <2>1. shifted' = shifted \/ \E i \in DOMAIN chain : shifted' = (shifted \/ i < Len(chain))
    BY DEF RemoveBlock
  <2>2. shifted \in BOOLEAN
    BY DEF TypeOK
  <2>3. ASSUME NEW i \in DOMAIN chain, shifted' = (shifted \/ i < Len(chain))
        PROVE  shifted' \in BOOLEAN /\ (shifted => shifted')
    <3>1. CASE shifted \/ i < Len(chain)
      BY <2>3, <3>1, Zenon
    <3>2. CASE ~(shifted \/ i < Len(chain))
      BY <2>3, <3>2, Zenon
    <3> QED
      BY <3>1, <3>2
  <2>4. CASE shifted' = shifted
    BY <2>2, <2>4, Zenon
  <2>5. CASE \E i \in DOMAIN chain : shifted' = (shifted \/ i < Len(chain))
    BY <2>3, <2>5, Zenon
  <2> QED
    BY <2>1, <2>4, <2>5, Zenon
<1>5. TypeOK'
  BY <1>1, <1>3, <1>4 DEF TypeOK, bufferVars, history
<1>6. OwnInv' /\ VictimInv' /\ FaultNeedsShift'
  BY <1>1, <1>2, <1>4 DEF ListInv, OwnInv, VictimInv, FaultNeedsShift
<1>7. PointsUnlessShifted'
  <2> SUFFICES ASSUME ~shifted', NEW u \in Placed'
               PROVE  index'[u] \in DOMAIN chain' /\ chain'[index'[u]] = block'[u]
    BY DEF PointsUnlessShifted
  <2>1. /\ ~shifted /\ Len(chain) > 0 /\ chain \in Seq(Block)
        /\ chain[Len(chain)] = block[t] /\ chain' = RemoveAt(chain, Len(chain))
    BY RemovedIsOwn DEF TypeOK
  <2>2. u \in Placed /\ u # t
    BY <1>2 DEF Placed
  <2>3. index[u] \in 1..Len(chain) /\ chain[index[u]] = block[u] /\ block[u] # block[t]
    BY <1>1, <2>1, <2>2 DEF ListInv, OwnInv, PointsUnlessShifted, Placed
  <2>4. index[u] \in 1..(Len(chain) - 1)
    BY <2>1, <2>3
  <2>5. Len(chain) \in 1..Len(chain)
    BY <2>1
  <2>6. /\ DOMAIN chain' = 1..(Len(chain) - 1)
        /\ \A j \in 1..(Len(chain) - 1) :
             chain'[j] = IF j < Len(chain) THEN chain[j] ELSE chain[j + 1]
    <3>1. /\ chain' \in Seq(Block) /\ Len(chain') = Len(chain) - 1
          /\ \A j \in 1..(Len(chain) - 1) :
               chain'[j] = IF j < Len(chain) THEN chain[j] ELSE chain[j + 1]
      BY <2>1, <2>5, RemoveAtProperties
    <3> QED
      BY <3>1
  <2>7. chain'[index[u]] = chain[index[u]]
    BY <2>1, <2>4, <2>6
  <2> QED
    BY <1>1, <2>3, <2>4, <2>6, <2>7
<1> QED
  BY <1>5, <1>6, <1>7 DEF ListInv

\* The completed block replaces what the index points at, or Redis throws.
LEMMA StepUpdate == ASSUME PipelineInv, NEW t \in Thread, Update(t) PROVE PipelineInv'
<1> USE DEF PipelineInv, Update, UpdateAt, Goto
<1>1. CASE index[t] \in DOMAIN chain
  <2> DEFINE new == [block[t] EXCEPT !.state = "COMPLETED"]
  <2>1. /\ pc[t] = "consensus" /\ pc' = [pc EXCEPT ![t] = "ended"]
        /\ chain' = [chain EXCEPT ![index[t]] = new]
        /\ UNCHANGED <<bufferVars, clock, block, index, victim, fault, shifted, history>>
    BY <1>1
  <2>2. new \in Block
    BY <2>1 DEF ListInv, OwnInv, Block
  <2> HIDE DEF new
  <2>3. chain' \in Seq(Block) /\ DOMAIN chain' = DOMAIN chain
        /\ \A i \in DOMAIN chain : i # index[t] => chain'[i] = chain[i]
    BY <1>1, <2>1, <2>2 DEF TypeOK
  <2>4. pc'[t] = "ended" /\ \A u \in Thread : u # t => pc'[u] = pc[u]
    BY <2>1 DEF TypeOK
  <2>5. TypeOK'
    BY <2>1, <2>3 DEF TypeOK, bufferVars, history
  <2>6. OwnInv' /\ VictimInv' /\ FaultNeedsShift'
    BY <2>1, <2>4 DEF ListInv, OwnInv, VictimInv, FaultNeedsShift
  <2>7. PointsUnlessShifted'
    <3> SUFFICES ASSUME ~shifted', NEW u \in Placed'
                 PROVE  index[u] \in DOMAIN chain /\ chain'[index[u]] = block[u]
      BY <2>1, <2>3 DEF PointsUnlessShifted
    <3>1. u \in Placed /\ t \in Placed /\ u # t
      BY <2>1, <2>4 DEF Placed
    <3>2. /\ index[u] \in DOMAIN chain /\ chain[index[u]] = block[u] /\ chain[index[t]] = block[t]
          /\ block[u] # block[t]
      BY <2>1, <3>1 DEF ListInv, OwnInv, PointsUnlessShifted, Placed
    <3> QED
      BY <2>3, <3>2
  <2> QED
    BY <2>5, <2>6, <2>7 DEF ListInv
<1>2. CASE index[t] \notin DOMAIN chain
  <2>1. fault' = "outOfRange" /\ UNCHANGED <<bufferVars, threadVars, chain, shifted, history>>
    BY <1>2 DEF threadVars
  <2>2. TypeOK'
    BY <2>1 DEF TypeOK, bufferVars, threadVars, history
  <2>3. shifted
    BY <1>2 DEF ListInv, PointsUnlessShifted, Placed
  <2>4. ListInv'
    BY <2>1, <2>3
    DEF ListInv, OwnInv, VictimInv, PointsUnlessShifted, Placed, FaultNeedsShift, threadVars
  <2> QED
    BY <2>2, <2>4
<1> QED
  BY <1>1, <1>2

\* A message of a client goes into the buffer.
LEMMA StepPush == ASSUME PipelineInv, Push PROVE PipelineInv'
<1>1. received' \in 0..MaxReceived /\ messages' \subseteq Message
  BY SlotsAssumption DEF Push, PipelineInv, TypeOK, Message
<1>2. TypeOK'
  BY <1>1 DEF Push, PipelineInv, TypeOK, threadVars, history
<1>3. ListInv'
  BY KeepList DEF Push, PipelineInv, threadVars
<1> QED
  BY <1>2, <1>3 DEF PipelineInv

\* The wheel starts the thread of the next slot.
LEMMA StepStartThread == ASSUME PipelineInv, StartThread PROVE PipelineInv'
<1> USE DEF StartThread, Goto, PipelineInv
<1>1. clock + 1 \in Thread /\ clock + 1 \in 0..Slots
  BY SlotsAssumption DEF Thread, TypeOK
<1>2. TypeOK'
  BY <1>1 DEF TypeOK, bufferVars, history
<1>3. \A u \in Thread : pc'[u] \in {"add", "consensus", "remove"} => pc'[u] = pc[u]
  BY DEF TypeOK
<1>4. ListInv'
  BY <1>3, KeepList
<1> QED
  BY <1>2, <1>4

\* The process ends: the list stays, buffer and threads are lost.
LEMMA StepRestart == ASSUME PipelineInv, Restart PROVE PipelineInv'
<1> USE DEF Restart, PipelineInv
<1>1. lost' \subseteq Message
  <2> DEFINE buffered == UNION {blocks[i].data : i \in DOMAIN blocks}
             running == UNION {block[t].data : t \in Live}
  <2>1. blocks \in Seq([slot : 0..Slots, data : SUBSET Message])
    BY DEF TypeOK
  <2>2. \A i \in 1..Len(blocks) : blocks[i] \in [slot : 0..Slots, data : SUBSET Message]
    BY <2>1, ElementOfSeq
  <2>3. buffered \subseteq Message
    BY <2>1, <2>2
  <2>4. \A t \in Live : block[t].data \subseteq Message
    BY BlockFields DEF TypeOK, Live, NoBlock
  <2>5. running \subseteq Message
    BY <2>4
  <2>6. lost' = lost \cup messages \cup buffered \cup running
    OBVIOUS
  <2>7. messages \subseteq Message /\ lost \subseteq Message
    BY DEF TypeOK
  <2> HIDE DEF buffered, running, Restart
  <2> QED
    BY <2>3, <2>5, <2>6, <2>7
<1>2. TypeOK'
  <2>1. restarts' \in 0..MaxRestarts
    BY BoundsAssumption DEF TypeOK
  <2>2. pc' \in [Thread -> {"new", "save", "pop", "add", "consensus", "remove", "ended"}]
    OBVIOUS
  <2> QED
    BY <1>1, <2>1, <2>2 DEF TypeOK
<1>3. \A u \in Thread : pc'[u] \in {"new", "ended"}
  OBVIOUS
<1>4. ListInv'
  BY <1>3, KeepList
<1> QED
  BY <1>2, <1>4

\* Every step keeps the invariant.
LEMMA StepPipeline == PipelineInv /\ [Next]_vars => PipelineInv'
<1> SUFFICES ASSUME PipelineInv, [Next]_vars PROVE PipelineInv'
  OBVIOUS
<1>1. ASSUME NEW t \in Thread, SlotThread(t) PROVE PipelineInv'
  BY <1>1, StepSave, StepPop, StepSaveBlockToDb, StepGetByIndex, StepRemoveBlock, StepUpdate
  DEF SlotThread, OwnSteps
<1>2. CASE Process
  BY <1>1, <1>2, StepPush, StepStartThread DEF Process
<1>3. CASE Restart
  BY <1>3, StepRestart
<1>4. CASE UNCHANGED vars
  <2>1. TypeOK'
    BY <1>4 DEF vars, bufferVars, threadVars, history, PipelineInv, TypeOK
  <2> QED
    BY <1>4, <2>1, KeepList DEF vars, threadVars, PipelineInv
<1> QED
  BY <1>2, <1>3, <1>4 DEF Next

\* The invariant holds in every reachable state.
LEMMA PipelineInvariant == Spec => []PipelineInv
BY InitPipeline, StepPipeline, PTL DEF Spec

-----------------------------------------------------------------------------
\* Every variable stays in its range.
THEOREM PipelineTypes == Spec => []TypeOK
<1>1. PipelineInv => TypeOK
  BY DEF PipelineInv
<1> QED
  BY <1>1, PipelineInvariant, PTL

\* The index a slot took points at its own placeholder, and RedisDB throws at nobody, until a
\* placeholder leaves the middle of the list (PendingBlockSaver.cpp:35,
\* PendingBlockRemover.cpp:27, RedisDB.cpp:19-24, 33-44).
THEOREM IndexesSafe == Spec => []IndexSafe
<1>1. PipelineInv => IndexSafe
  BY DEF PipelineInv, ListInv, IndexSafe
<1> QED
  BY <1>1, PipelineInvariant, PTL

\* And only after that a completed block is overwritten, removed or moved back
\* (CompleteBlockSaver.cpp:20).
THEOREM OverridesNeedShift == Spec => OverrideNeedsShift
<1> DEFINE Kept == \A i \in DOMAIN chain : Completed(chain[i]) =>
                     \E j \in 1..i : j \in DOMAIN chain' /\ chain'[j] = chain[i]
<1>1. ASSUME PipelineInv, UNCHANGED chain PROVE Kept
  BY <1>1 DEF PipelineInv, TypeOK
<1>2. ASSUME PipelineInv, ~shifted, NEW t \in Thread, SaveBlockToDb(t) PROVE Kept
  <2>1. chain \in Seq(Block) /\ block[t] \in Block /\ chain' = Append(chain, block[t])
    BY <1>2 DEF SaveBlockToDb, AddAndKeepIndex, PipelineInv, TypeOK, ListInv, OwnInv
  <2>2. \A i \in DOMAIN chain : i \in 1..i /\ i \in DOMAIN chain' /\ chain'[i] = chain[i]
    BY <2>1, AppendProperties
  <2> QED
    BY <2>2
<1>3. ASSUME PipelineInv, ~shifted, NEW t \in Thread, RemoveBlock(t) PROVE Kept
  <2> DEFINE places == {i \in DOMAIN chain : chain[i] = victim[t]}
  <2>1. chain \in Seq(Block) /\ pc[t] = "remove"
    BY <1>3 DEF PipelineInv, TypeOK, RemoveBlock
  <2>2. victim[t].state = "PENDING"
    BY <1>3, <2>1 DEF PipelineInv, ListInv, VictimInv, OwnInv
  <2>3. CASE places = {}
    BY <1>1, <1>3, <2>3 DEF RemoveBlock
  <2>4. CASE places # {}
    <3>1. PICK k \in places : chain' = RemoveAt(chain, k)
      BY <1>3, <2>4 DEF RemoveBlock
    <3>2. k \in 1..Len(chain) /\ ~Completed(chain[k])
      BY <2>1, <2>2 DEF Completed
    <3>3. SUFFICES ASSUME NEW i \in 1..Len(chain), i # k
                   PROVE  \E j \in 1..i : j \in DOMAIN chain' /\ chain'[j] = chain[i]
      BY <2>1, <3>2
    <3>4. /\ DOMAIN chain' = 1..(Len(chain) - 1)
          /\ \A j \in 1..(Len(chain) - 1) : chain'[j] = IF j < k THEN chain[j] ELSE chain[j + 1]
      <4>1. /\ chain' \in Seq(Block) /\ Len(chain') = Len(chain) - 1
            /\ \A j \in 1..(Len(chain) - 1) : chain'[j] = IF j < k THEN chain[j] ELSE chain[j + 1]
        BY <2>1, <3>1, <3>2, RemoveAtProperties
      <4> QED
        BY <4>1
    <3>5. CASE i < k
      <4>1. i \in 1..i /\ i \in 1..(Len(chain) - 1)
        BY <2>1, <3>2, <3>5
      <4> QED
        BY <3>4, <3>5, <4>1
    <3>6. CASE i > k
      <4>1. i - 1 \in 1..i /\ i - 1 \in 1..(Len(chain) - 1) /\ ~(i - 1 < k) /\ (i - 1) + 1 = i
        BY <2>1, <3>2, <3>6
      <4> QED
        BY <3>4, <4>1
    <3> QED
      BY <3>2, <3>3, <3>5, <3>6
  <2> QED
    BY <2>3, <2>4
<1>4. ASSUME PipelineInv, ~shifted, NEW t \in Thread, Update(t) PROVE Kept
  <2>1. CASE index[t] \in DOMAIN chain
    <3>1. chain[index[t]] = block[t] /\ ~Completed(chain[index[t]])
      BY <1>4 DEF Update, UpdateAt, PipelineInv, ListInv, OwnInv, PointsUnlessShifted, Placed, Completed
    <3>2. /\ DOMAIN chain' = DOMAIN chain
          /\ \A i \in DOMAIN chain : i # index[t] => chain'[i] = chain[i]
      BY <1>4, <2>1 DEF Update, UpdateAt, PipelineInv, TypeOK
    <3>3. \A i \in DOMAIN chain : i \in 1..i
      BY <1>4 DEF PipelineInv, TypeOK
    <3> QED
      BY <3>1, <3>2, <3>3
  <2>2. CASE index[t] \notin DOMAIN chain
    BY <1>1, <1>4, <2>2 DEF Update, UpdateAt
  <2> QED
    BY <2>1, <2>2
<1>5. ASSUME PipelineInv, ~shifted, NEW t \in Thread, SlotThread(t) PROVE Kept
  <2>1. CASE Save(t) \/ Pop(t) \/ GetByIndex(t)
    BY <1>1, <1>5, <2>1 DEF Save, SaveLeaving, Pop, PopFront, GetByIndex
  <2> QED
    BY <1>2, <1>3, <1>4, <1>5, <2>1 DEF SlotThread, OwnSteps
<1>6. PipelineInv /\ [Next]_vars => [~shifted => Kept]_vars
  <2> SUFFICES ASSUME PipelineInv, Next, ~shifted PROVE Kept
    BY Zenon
  <2>1. CASE Push \/ StartThread \/ Restart
    BY <1>1, <2>1 DEF Push, StartThread, Restart
  <2> QED
    BY <1>5, <2>1 DEF Next, Process
<1> QED
  BY <1>6, PipelineInvariant, PTL DEF Spec, OverrideNeedsShift

-----------------------------------------------------------------------------
(* The way of a message.  It is in one place at a time: the buffer, one of the *)
(* blocks saved there, the block a thread has taken out of it, or one entry of *)
(* the list; an entry keeps its messages when it is completed.                 *)

\* The messages in a sequence of blocks.
All(s) == UNION {s[i].data : i \in DOMAIN s}

Disjoint(s) == \A i, j \in DOMAIN s : i # j => s[i].data \cap s[j].data = {}

\* The threads that have taken a block from the buffer and not yet put it into the list.
Holding == {t \in Thread : pc[t] = "add"}

OnePlace ==
  /\ messages \cup All(blocks) \cup All(chain) \subseteq 1..received
  /\ messages \cap All(blocks) = {}
  /\ (messages \cup All(blocks)) \cap All(chain) = {}
  /\ Disjoint(blocks) /\ Disjoint(chain)
  /\ \A t \in Holding :
       /\ block[t].data \subseteq 1..received
       /\ block[t].data \cap (messages \cup All(blocks) \cup All(chain)) = {}
       /\ \A u \in Holding : t # u => block[t].data \cap block[u].data = {}

WayInv == ~shifted => OnePlace

\* A block joins the end of a sequence of blocks.
LEMMA AllAppend ==
  ASSUME NEW S, NEW s \in Seq(S), NEW b \in S
  PROVE  /\ All(Append(s, b)) = All(s) \cup b.data
         /\ Disjoint(s) /\ b.data \cap All(s) = {} => Disjoint(Append(s, b))
<1> DEFINE r == Append(s, b)
<1>1. /\ DOMAIN r = DOMAIN s \cup {Len(s) + 1} /\ r[Len(s) + 1] = b
      /\ \A i \in DOMAIN s : r[i] = s[i] /\ i # Len(s) + 1
  OBVIOUS
<1> HIDE DEF r
<1>2. All(r) = All(s) \cup b.data
  BY <1>1 DEF All
<1>3. ASSUME Disjoint(s), b.data \cap All(s) = {} PROVE Disjoint(r)
  <2>1. \A i \in DOMAIN s : b.data \cap s[i].data = {}
    BY <1>3 DEF All
  <2> QED
    BY <1>1, <1>3, <2>1 DEF Disjoint
<1> QED
  BY <1>2, <1>3 DEF r

\* The first block leaves a sequence of blocks.
LEMMA AllTail ==
  ASSUME NEW S, NEW s \in Seq(S), s # <<>>, Disjoint(s)
  PROVE  /\ All(s) = Head(s).data \cup All(Tail(s)) /\ Disjoint(Tail(s))
         /\ Head(s).data \cap All(Tail(s)) = {}
<1> DEFINE r == Tail(s)
<1>1. /\ \A i \in DOMAIN r : i + 1 \in DOMAIN s /\ r[i] = s[i + 1] /\ i + 1 # 1
      /\ \A i \in DOMAIN s : i # 1 => i - 1 \in DOMAIN r /\ i = (i - 1) + 1
      /\ \A i, j \in DOMAIN r : i + 1 = j + 1 => i = j
      /\ 1 \in DOMAIN s /\ Head(s) = s[1]
  OBVIOUS
<1> HIDE DEF r
<1>2. Disjoint(r)
  BY <1>1 DEF Disjoint
<1>3. \A i \in DOMAIN r : s[1].data \cap r[i].data = {}
  BY <1>1 DEF Disjoint
<1>4. \A m : m \in All(s) <=> m \in s[1].data \/ m \in All(r)
  BY <1>1 DEF All
<1>5. s[1].data \cap All(r) = {}
  BY <1>3 DEF All
<1> QED
  BY <1>1, <1>2, <1>4, <1>5 DEF r

\* What keeps its blocks, or loses some at the end, has no new messages.
LEMMA AllKept ==
  ASSUME NEW r, NEW s, Disjoint(s), DOMAIN r \subseteq DOMAIN s,
         \A i \in DOMAIN r : r[i].data = s[i].data
  PROVE  All(r) \subseteq All(s) /\ Disjoint(r)
<1>1. All(r) \subseteq All(s)
  BY DEF All
<1>2. Disjoint(r)
  BY DEF Disjoint
<1> QED
  BY <1>1, <1>2

\* A step that brings no message to a new place.
LEMMA OnePlaceKept ==
  ASSUME OnePlace, UNCHANGED received,
         messages' \subseteq messages, All(blocks') \subseteq All(blocks), Disjoint(blocks'),
         All(chain') \subseteq All(chain), Disjoint(chain'),
         \A t \in Holding' : t \in Holding /\ block'[t] = block[t]
  PROVE  OnePlace'
<1>1. /\ messages' \cup All(blocks') \cup All(chain')
           \subseteq messages \cup All(blocks) \cup All(chain)
      /\ messages' \cap All(blocks') = {}
      /\ (messages' \cup All(blocks')) \cap All(chain') = {}
  BY DEF OnePlace
<1>2. ASSUME NEW t \in Holding'
      PROVE  /\ block'[t].data \subseteq 1..received'
             /\ block'[t].data \cap (messages' \cup All(blocks') \cup All(chain')) = {}
             /\ \A u \in Holding' : t # u => block'[t].data \cap block'[u].data = {}
  <2>1. block'[t].data \cap (messages \cup All(blocks) \cup All(chain)) = {}
    BY DEF OnePlace
  <2>2. \A u \in Holding' : t # u => block'[t].data \cap block'[u].data = {}
    BY DEF OnePlace
  <2>3. block'[t].data \subseteq 1..received'
    BY DEF OnePlace
  <2> QED
    BY <1>1, <2>1, <2>2, <2>3
<1>3. (messages \cup All(blocks) \cup All(chain) \subseteq 1..received)
  BY DEF OnePlace
<1>4. messages' \cup All(blocks') \cup All(chain') \subseteq 1..received'
  BY <1>1, <1>3
<1> QED
  BY <1>1, <1>2, <1>4 DEF OnePlace, All, Disjoint

\* The next message is a new one.
LEMMA PushWay == ASSUME PipelineInv, OnePlace, Push PROVE OnePlace'
<1> DEFINE m == received + 1
<1>1. /\ received' = m /\ messages' = messages \cup {m}
      /\ UNCHANGED <<blocks, pc, block, chain>>
  BY DEF Push, threadVars
<1>2. m \notin 1..received /\ 1..received \subseteq 1..m /\ m \in 1..m
  BY DEF PipelineInv, TypeOK
<1> HIDE DEF m
<1>3. All(blocks') = All(blocks) /\ All(chain') = All(chain) /\ Holding' = Holding
  BY <1>1 DEF Holding
<1>4. /\ messages' \cup All(blocks) \cup All(chain) \subseteq 1..m
      /\ messages' \cap All(blocks) = {} /\ (messages' \cup All(blocks)) \cap All(chain) = {}
  BY <1>1, <1>2 DEF OnePlace
<1>5. Disjoint(blocks)' /\ Disjoint(chain)'
  BY <1>1 DEF OnePlace, Disjoint
<1>6. ASSUME NEW t \in Holding
      PROVE  /\ block[t].data \subseteq 1..m
             /\ block[t].data \cap (messages' \cup All(blocks) \cup All(chain)) = {}
             /\ \A u \in Holding : t # u => block[t].data \cap block[u].data = {}
  BY <1>1, <1>2 DEF OnePlace
<1> QED
  BY <1>1, <1>3, <1>4, <1>5, <1>6 DEF OnePlace

\* Buffer::save makes a block of the messages.
LEMMA SaveWay == ASSUME PipelineInv, OnePlace, NEW t \in Thread, Save(t) PROVE OnePlace'
<1>1. /\ messages' = {} /\ pc[t] = "save" /\ pc' = [pc EXCEPT ![t] = "pop"]
      /\ blocks' = IF messages = {} THEN blocks
                   ELSE Append(blocks, [slot |-> clock, data |-> messages])
      /\ UNCHANGED <<received, block, chain>>
  BY DEF Save, SaveLeaving, Goto
<1>2. All(blocks') = All(blocks) \cup messages /\ Disjoint(blocks')
  <2>1. CASE messages = {}
    BY <1>1, <2>1 DEF OnePlace
  <2>2. CASE messages # {}
    <3> DEFINE new == [slot |-> clock, data |-> messages]
    <3>1. new \in [slot : 0..Slots, data : SUBSET Message] /\ new.data = messages
      BY DEF PipelineInv, TypeOK
    <3>2. blocks \in Seq([slot : 0..Slots, data : SUBSET Message])
      BY DEF PipelineInv, TypeOK
    <3>3. blocks' = Append(blocks, new) /\ Disjoint(blocks) /\ messages \cap All(blocks) = {}
      BY <1>1, <2>2 DEF OnePlace
    <3> HIDE DEF new
    <3>4. /\ All(Append(blocks, new)) = All(blocks) \cup new.data
          /\ Disjoint(blocks) /\ new.data \cap All(blocks) = {} => Disjoint(Append(blocks, new))
      BY <3>1, <3>2, AllAppend
    <3> QED
      BY <3>1, <3>3, <3>4
  <2> QED
    BY <2>1, <2>2
<1>3. Holding' \subseteq Holding /\ \A u \in Holding' : u \in Holding
  BY <1>1 DEF Holding, PipelineInv, TypeOK
<1>4. All(chain)' = All(chain) /\ Disjoint(chain)'
  BY <1>1 DEF OnePlace
<1>5. ASSUME NEW u \in Holding'
      PROVE  /\ block[u].data \subseteq 1..received
             /\ block[u].data \cap (All(blocks) \cup messages \cup All(chain)) = {}
             /\ \A v \in Holding' : u # v => block[u].data \cap block[v].data = {}
  BY <1>3 DEF OnePlace
<1>6. /\ messages \cup All(blocks) \cup All(chain) \subseteq 1..received
      /\ (messages \cup All(blocks)) \cap All(chain) = {}
  BY DEF OnePlace
<1>7. All(blocks)' = All(blocks) \cup messages /\ Disjoint(blocks)'
  BY <1>2 DEF All, Disjoint
<1> QED
  BY <1>1, <1>4, <1>5, <1>6, <1>7 DEF OnePlace

\* Buffer::pop hands the oldest block to a thread, or an empty one.
LEMMA PopWay == ASSUME PipelineInv, OnePlace, NEW t \in Thread, Pop(t) PROVE OnePlace'
<1>1. /\ pc[t] = "pop" /\ pc' = [pc EXCEPT ![t] = "add"]
      /\ UNCHANGED <<received, messages, chain>>
      /\ \A u \in Thread \ {t} : block'[u] = block[u]
  BY DEF Pop, PopFront, Goto, PipelineInv, TypeOK
<1>2. /\ All(blocks) = block'[t].data \cup All(blocks') /\ Disjoint(blocks')
      /\ block'[t].data \cap All(blocks') = {}
  <2>1. blocks \in Seq([slot : 0..Slots, data : SUBSET Message]) /\ Disjoint(blocks)
    BY DEF PipelineInv, TypeOK, OnePlace
  <2>2. CASE blocks = <<>>
    <3>1. blocks' = <<>> /\ block'[t].data = {}
      BY <2>2 DEF Pop, PopFront, PipelineInv, TypeOK
    <3> QED
      BY <2>1, <2>2, <3>1 DEF All
  <2>3. CASE blocks # <<>>
    <3>1. blocks' = Tail(blocks) /\ block'[t].data = Head(blocks).data
      BY <2>3 DEF Pop, PopFront, PipelineInv, TypeOK
    <3> QED
      BY <2>1, <2>3, <3>1, AllTail
  <2> QED
    BY <2>2, <2>3
<1>3. Holding' \subseteq Holding \cup {t} /\ t \notin Holding
  BY <1>1 DEF Holding, PipelineInv, TypeOK
<1>4. All(chain)' = All(chain) /\ Disjoint(chain)' /\ messages' = messages
  BY <1>1 DEF OnePlace
<1>5. All(blocks)' \subseteq All(blocks) /\ Disjoint(blocks)'
  BY <1>2 DEF All, Disjoint
<1>6. /\ messages' \cup All(blocks)' \cup All(chain)' \subseteq 1..received'
      /\ messages' \cap All(blocks)' = {}
      /\ (messages' \cup All(blocks)') \cap All(chain)' = {}
  BY <1>1, <1>4, <1>5 DEF OnePlace
<1>7. /\ block'[t].data \subseteq 1..received
      /\ block'[t].data \cap (messages \cup All(chain)) = {}
      /\ \A u \in Holding : block[u].data \cap block'[t].data = {}
  BY <1>2 DEF OnePlace
<1>8. ASSUME NEW u \in Holding'
      PROVE  /\ block'[u].data \subseteq 1..received'
             /\ block'[u].data \cap (messages' \cup All(blocks)' \cup All(chain)') = {}
             /\ \A v \in Holding' : u # v => block'[u].data \cap block'[v].data = {}
  <2>1. \A v \in Holding : v # t /\ v \in Thread /\ block'[v] = block[v]
    BY <1>1, <1>3 DEF Holding
  <2>2. CASE u = t
    <3>1. block'[t].data \cap All(blocks)' = {}
      BY <1>2 DEF All
    <3>2. \A v \in Holding' : u # v => block'[u].data \cap block'[v].data = {}
      BY <1>3, <1>7, <2>1, <2>2
    <3> QED
      BY <1>1, <1>4, <1>7, <2>2, <3>1, <3>2
  <2>3. CASE u # t
    <3>1. u \in Holding /\ block'[u] = block[u]
      BY <1>3, <2>1, <2>3
    <3>2. /\ block[u].data \subseteq 1..received
          /\ block[u].data \cap (messages \cup All(blocks) \cup All(chain)) = {}
          /\ \A v \in Holding : u # v => block[u].data \cap block[v].data = {}
      BY <3>1 DEF OnePlace
    <3>3. \A v \in Holding' : u # v => block'[u].data \cap block'[v].data = {}
      BY <1>3, <1>7, <2>1, <3>1, <3>2
    <3> QED
      BY <1>1, <1>4, <1>5, <3>1, <3>2, <3>3
  <2> QED
    BY <2>2, <2>3
<1> QED
  BY <1>4, <1>5, <1>6, <1>8 DEF OnePlace

\* A placeholder joins the list.
LEMMA AddWay == ASSUME PipelineInv, OnePlace, NEW t \in Thread, SaveBlockToDb(t) PROVE OnePlace'
<1>1. /\ pc[t] = "add" /\ pc' = [pc EXCEPT ![t] = "consensus"]
      /\ chain' = Append(chain, block[t]) /\ chain \in Seq(Block) /\ block[t] \in Block
      /\ UNCHANGED <<received, messages, blocks, block>>
  BY DEF SaveBlockToDb, AddAndKeepIndex, Goto, PipelineInv, TypeOK, ListInv, OwnInv, bufferVars
<1>2. t \in Holding /\ Holding' = Holding \ {t}
  BY <1>1 DEF Holding, PipelineInv, TypeOK
<1>3. /\ block[t].data \subseteq 1..received
      /\ block[t].data \cap (messages \cup All(blocks) \cup All(chain)) = {}
      /\ \A u \in Holding : u # t => block[u].data \cap block[t].data = {}
  BY <1>2 DEF OnePlace
<1>4. All(chain') = All(chain) \cup block[t].data /\ Disjoint(chain')
  <2>1. /\ All(Append(chain, block[t])) = All(chain) \cup block[t].data
        /\ Disjoint(chain) /\ block[t].data \cap All(chain) = {}
             => Disjoint(Append(chain, block[t]))
    BY <1>1, AllAppend
  <2> QED
    BY <1>1, <1>3, <2>1 DEF OnePlace
<1>5. All(chain)' = All(chain) \cup block[t].data /\ Disjoint(chain)'
  BY <1>4 DEF All, Disjoint
<1>6. All(blocks)' = All(blocks) /\ Disjoint(blocks)'
  BY <1>1 DEF OnePlace
<1>7. /\ messages \cup All(blocks) \cup All(chain)' \subseteq 1..received
      /\ messages \cap All(blocks) = {} /\ (messages \cup All(blocks)) \cap All(chain)' = {}
  BY <1>3, <1>5 DEF OnePlace
<1>8. ASSUME NEW u \in Holding'
      PROVE  /\ block[u].data \subseteq 1..received
             /\ block[u].data \cap (messages \cup All(blocks) \cup All(chain)') = {}
             /\ \A v \in Holding' : u # v => block[u].data \cap block[v].data = {}
  BY <1>2, <1>3, <1>5 DEF OnePlace
<1> QED
  BY <1>1, <1>6, <1>5, <1>7, <1>8 DEF OnePlace

\* Without a shift an entry that leaves the list, or is completed, leaves the others alone.
LEMMA ListKept ==
  ASSUME PipelineInv, NEW t \in Thread, RemoveBlock(t) \/ Update(t), ~shifted'
  PROVE  /\ DOMAIN chain' \subseteq DOMAIN chain
         /\ \A i \in DOMAIN chain' : chain'[i].data = chain[i].data
<1>1. CASE RemoveBlock(t)
  <2>1. /\ chain' = RemoveAt(chain, Len(chain)) /\ Len(chain) \in 1..Len(chain)
        /\ chain \in Seq(Block)
    BY <1>1, RemovedIsOwn DEF PipelineInv, TypeOK
  <2>2. /\ chain' \in Seq(Block) /\ Len(chain') = Len(chain) - 1
        /\ \A j \in 1..(Len(chain) - 1) :
             chain'[j] = IF j < Len(chain) THEN chain[j] ELSE chain[j + 1]
    BY <2>1, RemoveAtProperties
  <2>3. DOMAIN chain' = 1..(Len(chain) - 1) /\ DOMAIN chain = 1..Len(chain)
    BY <2>1, <2>2
  <2>4. \A j \in 1..(Len(chain) - 1) : j < Len(chain) /\ j \in 1..Len(chain)
    BY <2>1
  <2> QED
    BY <2>2, <2>3, <2>4
<1>2. CASE Update(t)
  <2>1. CASE index[t] \notin DOMAIN chain
    BY <1>2, <2>1 DEF Update, UpdateAt
  <2>2. CASE index[t] \in DOMAIN chain
    <3>1. chain[index[t]] = block[t] /\ block[t] \in Block
      BY <1>2 DEF Update, UpdateAt, PipelineInv, ListInv, OwnInv, PointsUnlessShifted, Placed
    <3>2. chain' = [chain EXCEPT ![index[t]] = [block[t] EXCEPT !.state = "COMPLETED"]]
      BY <1>2, <2>2 DEF Update, UpdateAt
    <3>3. [block[t] EXCEPT !.state = "COMPLETED"].data = block[t].data
      BY <3>1 DEF Block
    <3> QED
      BY <2>2, <3>1, <3>2, <3>3 DEF PipelineInv, TypeOK
  <2> QED
    BY <2>1, <2>2
<1> QED
  BY <1>1, <1>2

\* Once an entry before the last has been removed, the history keeps it.
LEMMA StepShift == PipelineInv /\ [Next]_vars /\ ~shifted' => ~shifted
<1> SUFFICES ASSUME PipelineInv, [Next]_vars, ~shifted' PROVE ~shifted
  OBVIOUS
<1>1. ASSUME NEW t \in Thread, SlotThread(t) PROVE ~shifted
  <2>1. CASE RemoveBlock(t)
    BY <2>1, RemovedIsOwn
  <2> QED
    BY <1>1, <2>1 DEF SlotThread, OwnSteps, Save, SaveLeaving, Pop, PopFront, SaveBlockToDb,
                      AddAndKeepIndex, GetByIndex, Update, UpdateAt
<1> QED
  BY <1>1 DEF Next, Process, Push, StartThread, Restart, vars

\* Every step takes the messages one place further at most.
LEMMA StepWay == PipelineInv /\ WayInv /\ [Next]_vars => WayInv'
<1> SUFFICES ASSUME PipelineInv, WayInv, [Next]_vars, ~shifted' PROVE OnePlace'
  BY DEF WayInv
<1>1. OnePlace
  BY StepShift DEF WayInv
<1>2. ASSUME UNCHANGED <<received, messages, blocks, chain, block>>, Holding' \subseteq Holding
      PROVE  OnePlace'
  BY <1>1, <1>2, OnePlaceKept DEF OnePlace
<1>3. ASSUME NEW t \in Thread, SlotThread(t) PROVE OnePlace'
  <2>1. CASE RemoveBlock(t) \/ Update(t)
    <3>1. UNCHANGED <<received, messages, blocks, block>>
      BY <2>1 DEF RemoveBlock, Update, UpdateAt, bufferVars
    <3>2. Holding' \subseteq Holding
      BY <2>1 DEF RemoveBlock, Update, UpdateAt, Goto, Holding, PipelineInv, TypeOK
    <3>3. All(chain') \subseteq All(chain) /\ Disjoint(chain')
      BY <1>1, <2>1, ListKept, AllKept DEF OnePlace
    <3>4. All(blocks') = All(blocks) /\ Disjoint(blocks')
      BY <1>1, <3>1 DEF OnePlace
    <3> QED
      BY <1>1, <3>1, <3>2, <3>3, <3>4, OnePlaceKept
  <2>2. CASE GetByIndex(t)
    <3>1. UNCHANGED <<received, messages, blocks, chain, block>>
      BY <2>2 DEF GetByIndex, bufferVars
    <3>2. Holding' \subseteq Holding
      BY <2>2 DEF GetByIndex, Goto, Holding, PipelineInv, TypeOK
    <3> QED
      BY <1>2, <3>1, <3>2
  <2> QED
    BY <1>1, <1>3, <2>1, <2>2, SaveWay, PopWay, AddWay DEF SlotThread, OwnSteps
<1>4. CASE Push
  BY <1>1, <1>4, PushWay
<1>5. CASE StartThread
  <2>1. UNCHANGED <<received, messages, blocks, chain, block>>
    BY <1>5 DEF StartThread, bufferVars
  <2>2. Holding' \subseteq Holding
    BY <1>5 DEF StartThread, Goto, Holding, PipelineInv, TypeOK
  <2> QED
    BY <1>2, <2>1, <2>2
<1>6. CASE Restart
  <2>1. messages' = {} /\ blocks' = <<>> /\ UNCHANGED <<received, chain, block>>
    BY <1>6 DEF Restart
  <2>2. Holding' = {}
    BY <1>6 DEF Restart, Holding
  <2>3. All(blocks') = {} /\ Disjoint(blocks')
    BY <2>1 DEF All, Disjoint
  <2>4. All(chain') = All(chain) /\ Disjoint(chain')
    BY <1>1, <2>1 DEF OnePlace
  <2> QED
    BY <1>1, <2>1, <2>2, <2>3, <2>4, OnePlaceKept
<1>7. CASE UNCHANGED vars
  <2>1. UNCHANGED <<received, messages, blocks, chain, block>> /\ Holding' = Holding
    BY <1>7 DEF vars, bufferVars, threadVars, Holding
  <2> QED
    BY <1>2, <2>1
<1> QED
  BY <1>3, <1>4, <1>5, <1>6, <1>7 DEF Next, Process

-----------------------------------------------------------------------------
(* The placeholders.                                                           *)

\* A placeholder in the list is where its thread, which is still running, looks for it.
AtIndex ==
  \A i \in DOMAIN chain : ~Completed(chain[i]) =>
    chain[i].by \in Placed /\ index[chain[i].by] = i

PlaceInv == ~shifted /\ restarts = 0 => AtIndex

\* The threads of the slots to come.
UnbornInv == \A t \in Thread : t > clock => pc[t] = "new"

\* A slot has one thread.
LEMMA StepUnborn == PipelineInv /\ UnbornInv /\ [Next]_vars => UnbornInv'
<1> SUFFICES ASSUME PipelineInv, UnbornInv, [Next]_vars PROVE UnbornInv'
  OBVIOUS
<1>1. ASSUME NEW t \in Thread, SlotThread(t) PROVE UnbornInv'
  <2>1. pc[t] # "new" /\ clock' = clock /\ \A u \in Thread \ {t} : pc'[u] = pc[u]
    <3>1. CASE Save(t) \/ Pop(t) \/ SaveBlockToDb(t)
      BY <3>1 DEF Save, SaveLeaving, Pop, PopFront, SaveBlockToDb, AddAndKeepIndex, Goto,
                  PipelineInv, TypeOK
    <3>2. CASE GetByIndex(t) \/ RemoveBlock(t) \/ Update(t)
      BY <3>2 DEF GetByIndex, RemoveBlock, Update, UpdateAt, Goto, PipelineInv, TypeOK
    <3> QED
      BY <1>1, <3>1, <3>2 DEF SlotThread, OwnSteps
  <2> QED
    BY <2>1 DEF UnbornInv
<1>2. CASE StartThread
  <2>1. clock \in Nat /\ clock' = clock + 1 /\ \A t \in Thread : t \in Nat
    BY <1>2 DEF StartThread, PipelineInv, TypeOK, Thread
  <2>2. \A t \in Thread : t # clock + 1 => pc'[t] = pc[t]
    BY <1>2 DEF StartThread, Goto, PipelineInv, TypeOK
  <2>3. \A t \in Thread : t > clock' => t > clock /\ t # clock + 1
    BY <2>1
  <2> QED
    BY <2>2, <2>3 DEF UnbornInv
<1>3. CASE Restart
  BY <1>3 DEF Restart, UnbornInv
<1>4. CASE Push \/ UNCHANGED vars
  BY <1>4 DEF Push, vars, threadVars, UnbornInv
<1> QED
  BY <1>1, <1>2, <1>3, <1>4 DEF Next, Process

\* A step that leaves the list, and the threads that have placed their block, alone.
LEMMA AtIndexKept ==
  ASSUME AtIndex, UNCHANGED chain,
         \A t \in Placed : t \in Placed' /\ index'[t] = index[t]
  PROVE  AtIndex'
BY DEF AtIndex

\* A placeholder goes to the end of the list, and its thread knows that.
LEMMA AddAtIndex ==
  ASSUME PipelineInv, AtIndex, NEW t \in Thread, SaveBlockToDb(t) PROVE AtIndex'
<1>1. /\ pc[t] = "add" /\ pc' = [pc EXCEPT ![t] = "consensus"]
      /\ chain' = Append(chain, block[t]) /\ index' = [index EXCEPT ![t] = Len(chain) + 1]
      /\ chain \in Seq(Block) /\ block[t] \in Block /\ block[t].by = t
  BY DEF SaveBlockToDb, AddAndKeepIndex, Goto, PipelineInv, TypeOK, ListInv, OwnInv
<1>2. /\ t \in Placed' /\ t \notin Placed /\ index'[t] = Len(chain) + 1
      /\ \A u \in Placed : u \in Placed' /\ index'[u] = index[u]
  BY <1>1 DEF Placed, PipelineInv, TypeOK
<1>3. /\ DOMAIN chain' = DOMAIN chain \cup {Len(chain) + 1}
      /\ chain'[Len(chain) + 1] = block[t]
      /\ \A i \in DOMAIN chain : chain'[i] = chain[i]
  BY <1>1
<1> QED
  BY <1>1, <1>2, <1>3 DEF AtIndex

\* A placeholder that is removed is the last entry, so its thread has no other.
LEMMA RemoveAtIndex ==
  ASSUME PipelineInv, AtIndex, NEW t \in Thread, RemoveBlock(t), ~shifted' PROVE AtIndex'
<1>1. /\ chain' = RemoveAt(chain, Len(chain)) /\ Len(chain) \in 1..Len(chain)
      /\ chain \in Seq(Block) /\ index[t] = Len(chain) /\ pc[t] = "remove"
  BY RemovedIsOwn DEF PipelineInv, TypeOK
<1>2. /\ DOMAIN chain' = 1..(Len(chain) - 1)
      /\ \A j \in 1..(Len(chain) - 1) : chain'[j] = chain[j] /\ j \in DOMAIN chain /\ j # Len(chain)
  <2>1. /\ chain' \in Seq(Block) /\ Len(chain') = Len(chain) - 1
        /\ \A j \in 1..(Len(chain) - 1) :
             chain'[j] = IF j < Len(chain) THEN chain[j] ELSE chain[j + 1]
    BY <1>1, RemoveAtProperties
  <2>2. \A j \in 1..(Len(chain) - 1) : j < Len(chain) /\ j \in 1..Len(chain) /\ j # Len(chain)
    BY <1>1
  <2> QED
    BY <1>1, <2>1, <2>2
<1>3. \A u \in Placed \ {t} : u \in Placed' /\ index'[u] = index[u]
  BY DEF RemoveBlock, Goto, Placed, PipelineInv, TypeOK
<1> QED
  BY <1>1, <1>2, <1>3 DEF AtIndex

\* A placeholder that is completed is the only one of its thread.
LEMMA UpdateAtIndex ==
  ASSUME PipelineInv, AtIndex, ~shifted, NEW t \in Thread, Update(t) PROVE AtIndex'
<1>1. /\ index[t] \in DOMAIN chain /\ chain[index[t]] = block[t] /\ block[t] \in Block
      /\ pc[t] = "consensus"
  BY DEF Update, UpdateAt, PipelineInv, ListInv, OwnInv, PointsUnlessShifted, Placed
<1>2. /\ chain' = [chain EXCEPT ![index[t]] = [block[t] EXCEPT !.state = "COMPLETED"]]
      /\ pc' = [pc EXCEPT ![t] = "ended"] /\ index' = index
  BY <1>1 DEF Update, UpdateAt, Goto
<1>3. /\ DOMAIN chain' = DOMAIN chain /\ Completed(chain'[index[t]])
      /\ \A i \in DOMAIN chain : i # index[t] => chain'[i] = chain[i]
  BY <1>1, <1>2 DEF PipelineInv, TypeOK, Block, Completed
<1>4. \A u \in Placed \ {t} : u \in Placed' /\ index'[u] = index[u]
  BY <1>2 DEF Placed, PipelineInv, TypeOK
<1> QED
  BY <1>3, <1>4 DEF AtIndex

\* Every step leaves the placeholders where their threads look for them.
LEMMA StepPlace == PipelineInv /\ UnbornInv /\ PlaceInv /\ [Next]_vars => PlaceInv'
<1> SUFFICES ASSUME PipelineInv, UnbornInv, PlaceInv, [Next]_vars, ~shifted', restarts' = 0
             PROVE  AtIndex'
  BY DEF PlaceInv
<1>1. restarts' = restarts /\ ~Restart
  <2>1. ~Restart
    BY DEF Restart, PipelineInv, TypeOK
  <2>2. ASSUME NEW t \in Thread, SlotThread(t) PROVE restarts' = restarts
    <3>1. CASE Save(t) \/ Pop(t) \/ SaveBlockToDb(t)
      BY <3>1 DEF Save, SaveLeaving, Pop, PopFront, SaveBlockToDb, AddAndKeepIndex, history
    <3>2. CASE GetByIndex(t) \/ RemoveBlock(t) \/ Update(t)
      BY <3>2 DEF GetByIndex, RemoveBlock, Update, UpdateAt, history
    <3> QED
      BY <2>2, <3>1, <3>2 DEF SlotThread, OwnSteps
  <2>3. CASE Push \/ StartThread
    BY <2>1, <2>3 DEF Push, StartThread, history
  <2>4. CASE UNCHANGED vars
    BY <2>1, <2>4 DEF vars, history
  <2> QED
    BY <2>1, <2>2, <2>3, <2>4 DEF Next, Process
<1>2. AtIndex /\ ~shifted
  BY <1>1, StepShift DEF PlaceInv
<1>3. ASSUME NEW t \in Thread, SlotThread(t) PROVE AtIndex'
  <2>1. CASE Save(t)
    <3>1. UNCHANGED <<chain, index>> /\ \A u \in Placed : u \in Placed'
      BY <2>1 DEF Save, SaveLeaving, Goto, Placed, PipelineInv, TypeOK
    <3> QED
      BY <1>2, <3>1, AtIndexKept
  <2>2. CASE Pop(t)
    <3>1. UNCHANGED <<chain, index>> /\ \A u \in Placed : u \in Placed'
      BY <2>2 DEF Pop, PopFront, Goto, Placed, PipelineInv, TypeOK
    <3> QED
      BY <1>2, <3>1, AtIndexKept
  <2>3. CASE GetByIndex(t)
    <3>1. UNCHANGED <<chain, index>> /\ \A u \in Placed : u \in Placed'
      BY <2>3 DEF GetByIndex, Goto, Placed, PipelineInv, TypeOK
    <3> QED
      BY <1>2, <3>1, AtIndexKept
  <2> QED
    BY <1>2, <1>3, <2>1, <2>2, <2>3, AddAtIndex, RemoveAtIndex, UpdateAtIndex DEF SlotThread, OwnSteps
<1>4. CASE Push \/ UNCHANGED vars
  <2>1. UNCHANGED <<chain, index, pc>>
    BY <1>4 DEF Push, threadVars, vars
  <2> QED
    BY <1>2, <2>1, AtIndexKept DEF Placed
<1>5. CASE StartThread
  <2>1. UNCHANGED <<chain, index>> /\ pc' = [pc EXCEPT ![clock + 1] = "save"]
    BY <1>5 DEF StartThread, Goto
  <2>2. clock + 1 \in Thread /\ pc[clock + 1] = "new"
    BY <1>5, SlotsAssumption DEF StartThread, Thread, UnbornInv, PipelineInv, TypeOK
  <2> QED
    BY <1>2, <2>1, <2>2, AtIndexKept DEF Placed, PipelineInv, TypeOK
<1> QED
  BY <1>1, <1>3, <1>4, <1>5 DEF Next, Process

-----------------------------------------------------------------------------
\* The inductive invariant of the messages and the placeholders.
LEMMA EntriesInvariant == Spec => [](WayInv /\ UnbornInv /\ PlaceInv)
<1>1. Init => WayInv /\ UnbornInv /\ PlaceInv
  <2> SUFFICES ASSUME Init PROVE OnePlace /\ UnbornInv /\ AtIndex
    BY DEF WayInv, PlaceInv
  <2>1. OnePlace
    BY DEF Init, OnePlace, All, Disjoint, Holding
  <2>2. UnbornInv /\ AtIndex
    BY DEF Init, UnbornInv, AtIndex
  <2> QED
    BY <2>1, <2>2
<1>2. PipelineInv /\ WayInv /\ UnbornInv /\ PlaceInv /\ [Next]_vars
        => (WayInv /\ UnbornInv /\ PlaceInv)'
  BY StepWay, StepUnborn, StepPlace
<1> QED
  BY <1>1, <1>2, PipelineInvariant, PTL DEF Spec

\* As long as no placeholder has left the middle of the list, a message stands in one entry
\* at most: Buffer::save moves it out of the buffer, and Buffer::pop gives its block to one
\* thread, however the threads of the slots overlap (Buffer.cpp:14-30).
THEOREM MessagesListedOnce == Spec => []OnceUnlessShifted
<1>1. WayInv => OnceUnlessShifted
  BY DEF WayInv, OnePlace, Disjoint, OnceUnlessShifted
<1> QED
  BY <1>1, EntriesInvariant, PTL

\* And every placeholder in the list is that of a thread that is still to complete or remove
\* it, until the node is started again (PendingBlockSaver.cpp:31-36,
\* PendingBlockRemover.cpp:20-28).
THEOREM PlaceholdersAccounted == Spec => []PendingAccounted
<1>1. PlaceInv => PendingAccounted
  BY DEF PlaceInv, AtIndex, PendingAccounted
<1> QED
  BY <1>1, EntriesInvariant, PTL
=============================================================================
