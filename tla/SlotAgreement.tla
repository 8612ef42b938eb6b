--------------------------- MODULE SlotAgreement ---------------------------
(***************************************************************************)
(* What the consensus on one slot promises: the nodes that have data for   *)
(* the slot are fixed when it starts, and every node that ends the slot    *)
(* ends it in the same way.  With no contributor the placeholder leaves    *)
(* the blockchain; otherwise the entry becomes the one completed block     *)
(* with the data of all the contributors, each once.  A node may also stay *)
(* in the slot for ever: the promise is one of safety.                     *)
(***************************************************************************)
EXTENDS ConsensusStorage

CONSTANT Node

VARIABLES contributors, \* the nodes with data for the slot
          outcome       \* outcome[n]: what n's blockchain holds for the slot

vars == <<contributors, outcome>>

Open == [kind |-> "open", block |-> EmptyBlock]

Removed == [kind |-> "removed", block |-> EmptyBlock]

Saved == [kind |-> "saved",
          block |-> [state |-> "COMPLETED", data |-> contributors, twice |-> FALSE]]

Init ==
  /\ contributors \in SUBSET Node
  /\ outcome = [n \in Node |-> Open]

End(n) ==
  /\ outcome[n] = Open
  /\ outcome' = [outcome EXCEPT ![n] = IF contributors = {} THEN Removed ELSE Saved]
  /\ UNCHANGED contributors

Next == \E n \in Node : End(n)

Spec == Init /\ [][Next]_vars
=============================================================================
