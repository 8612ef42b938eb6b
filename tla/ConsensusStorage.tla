-------------------------- MODULE ConsensusStorage --------------------------
(***************************************************************************)
(* The queries and updates of db::ConsensusStorage                         *)
(* (node/src/db/ConsensusStorage.cpp) on the contexts of ONE slot, as      *)
(* operators without state.  Each of them runs under the storage's mutex,  *)
(* so each is one atomic read or write for the modules that use it.        *)
(*                                                                         *)
(* K is the set of addresses that have an entry in the outer map contexts. *)
(* The queries iterate over K, and over nothing else.  The fields of       *)
(* ConsensusContext are functions of the address:                          *)
(*   c[a]   isContributing, an optional<bool>: "unset", "yes" or "no"      *)
(*   v[a]   electionValue, 0 when none is known                            *)
(*   b[a]   block                                                          *)
(* The iteration order of an unordered_map is not specified.  A query whose*)
(* answer depends on it is the SET of the answers it may give.             *)
(***************************************************************************)
EXTENDS Integers, Functions

Contribution == {"unset", "yes", "no"}

\* The messages of one contributor travel together, so the data of a block is
\* the set of the contributors whose messages it holds.  twice says that some
\* contributor's messages were inserted more than once.
BlockOf(N) == [state : {"PENDING", "COMPLETED"}, data : SUBSET N, twice : BOOLEAN]

PendingBlock(data) == [state |-> "PENDING", data |-> data, twice |-> FALSE]

EmptyBlock == PendingBlock({})

-----------------------------------------------------------------------------
(* Deviations: the same queries with a mistake in them, which the properties  *)
(* of the modules that use them must notice.                                  *)

ConfirmedByAny(K, c) == \E a \in K : c[a] # "unset"

IsEveryNodeContributing(K, c) ==
  {answer \in {"yes", "no", "throw"} :
     \/ answer = "yes"   /\ \A a \in K : c[a] = "yes"
     \/ answer = "throw" /\ \E a \in K : c[a] = "unset"
     \/ answer = "no"    /\ \E a \in K : c[a] = "no"}

PresentEvenIfZero(K, v) == \A a \in K : v[a] >= 0

AlwaysUnique(K, v, self) == TRUE

EraseElectionValueDuplicates(K, v) == [a \in DOMAIN v \ K |-> v[a]]

IsAnyContributorDataCollected(K, c, b) ==
  {IF \E a \in K : b[a].data # {} THEN "yes" ELSE "no"}

MergeWithoutCompletion(K, c, b, validator) ==
  [b[validator] EXCEPT !.data = @ \cup UNION {b[a].data : a \in {x \in K : c[x] = "yes"}}]

-----------------------------------------------------------------------------
AreAllContributorsConfirmed(K, c) == \A a \in K : c[a] # "unset"

\* any_of stops at the first "yes"; .value() throws bad_optional_access on the
\* first "unset" it meets before that.
IsAnyNodeContributing(K, c) ==
  {answer \in {"yes", "no", "throw"} :
     \/ answer = "yes"   /\ \E a \in K : c[a] = "yes"
     \/ answer = "throw" /\ \E a \in K : c[a] = "unset"
     \/ answer = "no"    /\ \A a \in K : c[a] = "no"}

AreAllElectionValuesPresent(K, v) == \A a \in K : v[a] > 0

IsElectionValueUnique(K, v, self) == \A a \in K \ {self} : v[a] # v[self]

\* The inner loop does not skip the address itself, so every address of K is
\* found equal to one (to itself), and every value of K is zeroed.
RemoveElectionValueDuplicates(K, v) ==
  LET duplicated == {a \in K : \E other \in K : v[a] = v[other]}
  IN  [a \in DOMAIN v |-> IF a \in duplicated THEN 0 ELSE v[a]]

\* The addresses markValidator may mark: the largest value wins when the sum of
\* the values is odd, the smallest when it is even.  Between equal values the
\* first in iteration order wins, so any of them may.
MarkValidator(K, v) ==
  IF SumFunctionOnSet(v, K) % 2 = 1
  THEN {a \in K : \A other \in K : v[other] <= v[a]}
  ELSE {a \in K : \A other \in K : v[a] <= v[other]}

\* all_of stops at the first contributor without data; .value() throws on the
\* first "unset" it meets before that.
IsAllContributorsDataCollected(K, c, b) ==
  {answer \in {"yes", "no", "throw"} :
     \/ answer = "no"    /\ \E a \in K : c[a] = "yes" /\ b[a].data = {}
     \/ answer = "throw" /\ \E a \in K : c[a] = "unset"
     \/ answer = "yes"   /\ \A a \in K : \/ c[a] = "no"
                                         \/ c[a] = "yes" /\ b[a].data # {}}

\* mergeContributors appends to the validator's block the data of every other
\* contributor; the sort by timestamp only orders the messages.
MergeContributors(K, c, b, validator) ==
  LET others == {a \in K \ {validator} : c[a] = "yes"}
  IN  [state |-> "COMPLETED",
       data  |-> b[validator].data \cup UNION {b[a].data : a \in others},
       twice |-> \/ \E a \in others \cup {validator} : b[a].twice
                 \/ \E a \in others : \E other \in (others \cup {validator}) \ {a} :
                      b[a].data \cap b[other].data # {}]
=============================================================================
