------------------------- MODULE MCFederatedSearch -------------------------
(***************************************************************************)
(* Small instances of FederatedSearch.                                     *)
(***************************************************************************)
EXTENDS FederatedSearch, TLC

CONSTANTS p1, p2, d1, d2, cap, a, b

\* p1 and p2 search d1 and lead to the same pages; nobody searches d2.
TheDomain == [p \in Provider |-> d1]
TheRoute == [p \in Provider |-> "r1"]

\* Only p2 is protected.
TheRequired == [p \in Provider |-> IF p = p2 THEN {cap} ELSE {}]

\* p2 outweighs p1 where they are told apart; p1 has no weight of its own.
Unequal == [p \in Provider |-> IF p = p2 THEN 2 ELSE 0]

\* p2 gives one result at most, p1 the default.
TheMax == [p \in Provider |-> IF p = p2 THEN 1 ELSE 0]

\* Item lists: disjoint, overlapping, a repeated id, none.
Lists == {<< >>, <<a>>, <<b, a>>, <<a, a>>}
ShortLists == {<< >>, <<a>>, <<b, a>>}

Asked(domains, caps, pages, sizes) ==
    [domain : domains, caps : caps, long : {TRUE}, page : pages, pageSize : sizes]

TooShort == [domain |-> AnyDomain, caps |-> {cap}, long |-> FALSE, page |-> 1, pageSize |-> 1]

\* Pages of one result, with and without the capability; the first page and
\* the page after; a size to clamp; no page and no size.
Requests ==
    Asked({AnyDomain, d1, d2}, {{}, {cap}}, {1, 2}, {1}) \cup
    Asked({AnyDomain}, {{cap}}, {0, 3}, {0, 9}) \cup {TooShort}

\* Page 5 of two results begins at result 8, which an int up to 7 cannot hold.
FarPages == Asked({AnyDomain}, {{cap}}, {1, 3, 5}, {2})
=============================================================================
