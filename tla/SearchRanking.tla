--------------------------- MODULE SearchRanking ---------------------------
(***************************************************************************)
(* The pure part of pkg/search/provider.go: which providers a search asks, *)
(* how their items are scored, and how the results of all of them become   *)
(* one page.  A result is its provider, its position there, its route, its *)
(* id and its score; titles and icons come along with the provider.        *)
(***************************************************************************)
EXTENDS Integers, Sequences, FiniteSets, SequencesExt

CONSTANTS
    Provider,     \* search definitions of the registry
    Domain,       \* Domain[p]: def.Domain
    Required,     \* Required[p]: def.Capabilities
    Route,        \* Route[p]: def.ResultMapping.Route, the template
    Weight,       \* Weight[p]: def.Weight, 0 when absent
    MaxResults,   \* MaxResults[p]: def.MaxResults, 0 when absent
    DefaultMaxResults,  \* SearchProvider.maxResultsDefault
    DefaultPageSize,    \* 20
    MaxPageSize,        \* 50
    AnyDomain,    \* the empty domain filter
    Items,        \* lists of item ids a backend may answer with
    IntMax        \* the largest int

ASSUME RankingAssumption ==
    /\ IsFiniteSet(Provider)
    /\ \A items \in Items : items \in Seq(ToSet(items))
    /\ \A p \in Provider : Weight[p] \in Int /\ MaxResults[p] \in Int
    /\ DefaultMaxResults \in Nat \ {0}
    /\ DefaultPageSize \in 1..MaxPageSize
    /\ MaxPageSize \in Nat
    /\ IntMax \in Nat

Lesser(a, b) == IF a <= b THEN a ELSE b

Weighted(p) == IF Weight[p] <= 0 THEN 1 ELSE Weight[p]

Limit(p) == IF MaxResults[p] <= 0 THEN DefaultMaxResults ELSE MaxResults[p]

\* A provider is asked only on behalf of a caller who holds its capabilities.
Eligible(r) ==
    {p \in Provider : /\ r.domain \in {AnyDomain, Domain[p]}
                      /\ Required[p] \subseteq r.caps}

\* mapResults.  A score is a fraction: the weight at the top of the list,
\* falling linearly towards half of it.
Mapped(p, items) ==
    LET total == Lesser(Len(items), Limit(p))
    IN  {[from |-> p, at |-> i, route |-> Route[p], id |-> items[i],
          score |-> <<Weighted(p) * (2 * total - (i - 1)), 2 * total>>] : i \in 1..total}

Higher(a, b) == a.score[1] * b.score[2] > b.score[1] * a.score[2]

\* The key of deduplicate: route and id.
Same(a, b) == a.route = b.route /\ a.id = b.id

\* Every provider's results in one set.
Merged(reply, P) == UNION {reply[p].results : p \in P}

(***************************************************************************)
(* What deduplicate keeps of each key: no result with a higher score.      *)
(* (Which of several equals it keeps is the caller's business.)            *)
(***************************************************************************)
BestOf(kept, all) ==
    /\ kept \subseteq all
    /\ \A a \in all : \E k \in kept : Same(a, k)
    /\ \A k \in kept : \A a \in all : Same(a, k) => ~Higher(a, k)
    /\ \A k, l \in kept : Same(k, l) => k = l

\* The orders sort.Slice may leave: it is not stable, so equals in any order.
Rankings(results) ==
    {s \in SetToSeqs(results) : \A i, j \in DOMAIN s : i < j => ~Higher(s[j], s[i])}

-----------------------------------------------------------------------------
\* Arithmetic on Go's int wraps around.
Wrap(n) == ((n + IntMax + 1) % (2 * (IntMax + 1))) - IntMax - 1

PageSize(r) ==
    IF r.pageSize <= 0 THEN DefaultPageSize ELSE Lesser(r.pageSize, MaxPageSize)

Page(r) == IF r.page <= 0 THEN 1 ELSE r.page

\* Mutant of Offset: the size as it was asked for, not as it was clamped.
OffsetUnclamped(r) == Wrap((Page(r) - 1) * Lesser(r.pageSize, MaxPageSize + 1))

Offset(r) == Wrap((Page(r) - 1) * PageSize(r))

\* Slicing from a negative offset panics.
Panics(r) == Offset(r) < 0

PageOf(ranking, r) ==
    SubSeq(ranking, Offset(r) + 1, Lesser(Offset(r) + PageSize(r), Len(ranking)))

-----------------------------------------------------------------------------
\* What one provider may come to: providerResult.
Silent(status) == [status |-> status, results |-> {}]

Found(p, items) == [status |-> "ok", results |-> Mapped(p, items)]

Outcomes(p) ==
    {Found(p, items) : items \in Items} \cup {Silent("timeout"), Silent("error")}

NoOutcome == Silent("none")

Refusal(code) == [code |-> code, results |-> << >>, total |-> 0, providers |-> << >>]

Answered(page, total, reply, P) ==
    [code |-> "OK", results |-> page, total |-> total,
     providers |-> [p \in P |-> reply[p].status]]
=============================================================================
