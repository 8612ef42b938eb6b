-------------------------- MODULE StartProperties --------------------------
(***************************************************************************)
(* The properties of NodeStart.                                            *)
(***************************************************************************)
EXTENDS NodeStart

\* The range of every variable; no store holds a malformed address, and the handler is idle
\* exactly when it has no message.
TypeOK ==
  /\ malformed \subseteq Peers \cup {Self}
  /\ main \in {"self", "remotes", "wheel", "loop"}
  /\ connections \subseteq (Peers \cup {Self}) \ malformed
  /\ remoteChannels \subseteq Peers
  /\ dead \subseteq connections
  /\ slot \in 0..Slots
  /\ passed \in BOOLEAN
  /\ live \subseteq 1..slot
  /\ stage \in [Slot -> 0..4]
  /\ told \in [Peers -> [Slot -> 0..3]]
  /\ sent \in [Peers -> [Slot -> 0..3]]
  /\ queue \in Seq(Message)
  /\ \/ doing = "idle" /\ hand = NoMessage
     \/ doing \in {"ask", "synchronize", "wake"} /\ hand \in Message
  /\ handled \subseteq Message
  /\ conditions \subseteq Slot
  /\ fault \in {"none", "outOfRange", "null"}
  /\ forgotten \subseteq Slot
  /\ kills \in 0..MaxKills

\* A node completes a slot only when every peer has got its contribution.  A connection to
\* a peer that fails in the background is only logged (ConnectionHandler.hpp:15-18), and the
\* slot then stands still at this node too: it is not completed here and left open there
\* (InspectionWaiter.cpp:33, ElectionWaiter.cpp:31).
NobodyLeftOut == \A s \in Slot : stage[s] = 4 => \A p \in Peers : told[p][s] >= 1

\* Why a node ends by itself.  A store throws only while main sets the channels up, never
\* when a slot's thread looks up the validator's (ConnectionStore.cpp:6-18, DataRelay.cpp:30).
\* The handler of the queue reads through a null pointer only in two cases: an earlier
\* process has taken part in the slot, whose first messages are gone and whose rest is in
\* the durable queue; or the message is the block of a slot that its thread, which sees
\* isResolved, has completed and cleared before the handler looks its conditions up
\* (App.cpp:158-166, CompleteBlockSaver.cpp:22).
EndExplained ==
  /\ fault = "outOfRange" => main \in {"self", "remotes"}
  /\ fault = "null" => \/ hand.slot \in forgotten
                       \/ hand.op = "BROADCAST" /\ stage[hand.slot] = 4

\* A node that is started again whenever it dies gets through what is left in its queue, as
\* long as its own connection holds.
GetsThrough ==
  (malformed = {}) ~> (main = "loop" /\ queue = <<>> /\ doing = "idle") \/ Self \in dead
=============================================================================
