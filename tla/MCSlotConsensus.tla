-------------------------- MODULE MCSlotConsensus --------------------------
(***************************************************************************)
(* Small instances of SlotConsensus for TLC: two or three nodes.           *)
(***************************************************************************)
EXTENDS SlotProperties, TLC

CONSTANTS a, b, c

\* No two nodes can draw the same value.
DisjointDraws == [n \in Node |-> CASE n = a -> {1} [] n = b -> {2} [] n = c -> {4}]

\* a can collide with b or with c, in its first draw or after a re-election, or with
\* neither.
CollidingDraws == [n \in Node |-> CASE n = a -> {1, 2, 4} [] n = b -> {1} [] n = c -> {2}]

\* a and b can collide on the smallest value; after a re-election they do not.
TieDraws == [n \in Node |-> CASE n = a -> {1} [] n = b -> {1, 3} [] n = c -> {2}]

AnyContributors == SUBSET Node
OneContributor  == {{a}}
TwoContributors == {{}, {a, b}}

-----------------------------------------------------------------------------
(* State constraints, for the runs with three nodes. *)

\* At most one event loop is in the middle of a message.
OneBusyLoop == Cardinality({n \in Node : loop[n].stage # "idle"}) <= 1

\* Nothing is explored past the election.
ElectionOnly == \A n \in Node : pc[n] \notin {"collect", "await", "awaitCv"}

\* Nothing is explored past an election that has been repeated.
ElectionOnlyAfterPurge == (\E n \in Node : purges[n] > 0) => ElectionOnly

\* Only the thread of a may come before the storage is initialised, up to its first wait;
\* later on the initialisation changes nothing.
OneOvertaker ==
  \A n \in Node :
    pc[n] \notin (IF n = a THEN {"save", "announce", "inspect"} ELSE {"save"}) =>
      timer[n] = "done"

OnePurge == SumFunction(purges) <= 1
=============================================================================
