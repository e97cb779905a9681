--------------------------- MODULE MCLookupCache ---------------------------
(***************************************************************************)
(* Small instances of LookupCache.                                         *)
(***************************************************************************)
EXTENDS LookupCache, TLC

CONSTANTS c1, c2, lt, lp, t1, t2, p1, p2

\* A lookup of each scope.
EachScope == [l \in Lookup |-> CASE l = lt -> "tenant" [] l = lp -> "partition"]

\* lt is not cached past the instant it was fetched, the others are for a while.
EachTTL == [l \in Lookup |-> IF l = lt THEN 0 ELSE 1]

\* Two tenants ask for a lookup of tenant scope, and two partitions of a
\* tenant for one of partition scope.
Sharing == {<<lt, t1, p1>>, <<lt, t2, p1>>, <<lp, t1, p1>>, <<lp, t1, p2>>}

\* The id lt begins with the id lp.
SharedPrefix == [l \in Lookup |-> IF l = lp THEN {lp, lt} ELSE {l}]

CallSymmetry == Permutations(Call)
=============================================================================
