------------------------- MODULE PipelineProperties -------------------------
(***************************************************************************)
(* The properties of SlotPipeline.                                         *)
(***************************************************************************)
EXTENDS SlotPipeline

\* The range of every variable.
TypeOK ==
  /\ received \in 0..MaxReceived
  /\ messages \subseteq Message
  /\ blocks \in Seq([slot : 0..Slots, data : SUBSET Message])
  /\ clock \in 0..Slots
  /\ pc \in [Thread -> {"new", "save", "pop", "add", "consensus", "remove", "ended"}]
  /\ block \in [Thread -> Block \cup {NoBlock}]
  /\ index \in [Thread -> Nat]
  /\ victim \in [Thread -> Block \cup {NoBlock}]
  /\ chain \in Seq(Block)
  /\ fault \in {"none", "badOptional", "outOfRange"}
  /\ shifted \in BOOLEAN
  /\ lost \subseteq Message
  /\ restarts \in 0..MaxRestarts

Completed(entry) == entry.state = "COMPLETED"

-----------------------------------------------------------------------------
(* The index of a slot (PendingBlockSaver.cpp:35, CompleteBlockSaver.cpp:20). *)

\* As long as no placeholder has left the middle of the list, the index a slot
\* took when it started still points at its own placeholder.
PointsUnlessShifted ==
  ~shifted => \A t \in Placed : index[t] \in DOMAIN chain /\ chain[index[t]] = block[t]

\* The process dies in RedisDB only after that has happened.
FaultNeedsShift == fault # "none" => shifted

\* Both: without a shift a slot finds its own placeholder, and Redis never throws at it.
IndexSafe == PointsUnlessShifted /\ FaultNeedsShift

\* A completed block is never overwritten, removed or moved behind a later one
\* (docs/notes.txt:16).
NoOverride == [][\A i \in DOMAIN chain : Completed(chain[i]) =>
                   \E j \in 1..i : j \in DOMAIN chain' /\ chain'[j] = chain[i]]_vars

\* It is not as long as no placeholder has left the middle of the list.
OverrideNeedsShift ==
  [][~shifted => \A i \in DOMAIN chain : Completed(chain[i]) =>
       \E j \in 1..i : j \in DOMAIN chain' /\ chain'[j] = chain[i]]_vars

\* Without a shift no message stands in two entries of the list.
OnceUnlessShifted ==
  ~shifted => \A i, j \in DOMAIN chain : i # j => chain[i].data \cap chain[j].data = {}

-----------------------------------------------------------------------------
(* The way of a message from the client to the list. *)

Stored == UNION {chain[i].data : i \in {j \in DOMAIN chain : Completed(chain[j])}}

\* A placeholder in the list belongs to a slot that is still running, as long
\* as the process has not died and no index has gone wrong.
PendingAccounted ==
  ~shifted /\ restarts = 0 =>
    \A i \in DOMAIN chain : ~Completed(chain[i]) => chain[i].by \in Placed

\* The slot whose block has the message has not come to the end of its consensus.
InConsensus(m) == \E t \in Thread : pc[t] = "consensus" /\ m \in block[t].data

\* A message that has arrived does not stay in the buffer or in a thread's hands
\* (Buffer.cpp:15-41): in the end it is in a completed block for good, or in the block of a
\* slot that stands still in its consensus, unless the process that held it has ended or an
\* index has gone wrong.
EveryMessagePlaced ==
  \A m \in Message :
    <>[](m <= received => m \in Stored \/ InConsensus(m) \/ m \in lost \/ shifted)
=============================================================================
