-------------------------- MODULE AnalyticsEngine --------------------------
(***************************************************************************)
(* pkg/analytics: a metrics query, from the partitions its caller may see  *)
(* (HierarchicalPartitionResolver, with its cache) through the scope the   *)
(* engine derives from them (resolveFilter) to the response cache and the  *)
(* metrics backend.                                                        *)
(*                                                                         *)
(* The resolver hands out the very slice it caches, and resolveFilter      *)
(* drops empty ids from it in place, with no lock held.  Slices therefore  *)
(* live in a heap, calls and cache entries refer to them, and the loops    *)
(* over a slice are modelled element by element.  An id is read and        *)
(* written as one.  What is asked of the scope, and how, is in             *)
(* MetricQueries.                                                          *)
(***************************************************************************)
EXTENDS MetricQueries

CONSTANTS
    Call,         \* concurrent queries
    Caller,       \* request contexts, by subject, tenant and partition
    TenantOf,     \* TenantOf[u]: the tenant claim, NoTenant if there is none
    PartitionOf,  \* PartitionOf[u]: the partition claim, NoPartition if none
    NoTenant, NoPartition,
    GlobalViewer, \* callers with GlobalViewCapability
    Children,     \* Children[u]: what ListChildPartitions answers for u
    Body,         \* Body[b]: the bodies of requests, their partition_ids apart
    Request,      \* requests: by whom, with which partition_ids and which body
    All,          \* the partition_ids that are the wildcard
    MaxScopes,    \* HierarchicalPartitionResolver.maxEntries
    MaxResults,   \* queryCache.maxEntries
    ScopeTTL,     \* HierarchicalPartitionResolver.cacheTTL
    MaxResolve    \* longest time one resolution takes

Default == << >>

ASSUME AnalyticsAssumption ==
    /\ IsFiniteSet(Call)
    /\ DOMAIN TenantOf = Caller /\ DOMAIN PartitionOf = Caller
    /\ GlobalViewer \subseteq Caller
    /\ \A b \in DOMAIN Body : OfRequestType(Body[b])
    /\ \A r \in Request :
          /\ r[1] \in Caller /\ r[3] \in DOMAIN Body
          /\ r[2] = All \/ r[2] \in Seq(Range(r[2]))
    /\ All # Default
    /\ Children \in [Caller -> Seq(UNION {Range(Children[u]) : u \in Caller})]
    /\ \A u \in Caller : NoPartition \notin Range(Children[u])
    /\ MaxScopes \in Nat \ {0} /\ MaxResults \in Nat
    /\ {ScopeTTL, MaxResolve} \subseteq Nat

VARIABLES
    scopes,   \* HierarchicalPartitionResolver.cache, by caller: a slice, the time left to it, and
              \* history: how long ago its resolution began (up to OldAge)
    heap,     \* heap[r]: the slice r, or what is left of one
    results,  \* queryCache.entries, by key: the answer, and whether it expired
    call      \* call[c]: where call c is, and its local variables

vars == <<scopes, heap, results, call>>

(***************************************************************************)
(* A slice, with a history field: what the resolver put into it.           *)
(***************************************************************************)
Ref == 1..(Cardinality(Call) + MaxScopes)
NoSlice == [ids |-> << >>, found |-> {}]
OldAge == ScopeTTL + MaxResolve + 1

(***************************************************************************)
(* The answer to a query, as far as anybody can tell one from another: the *)
(* body and the filter that made up what the backend was asked.            *)
(***************************************************************************)
NoAnswer == [body |-> "none", filter |-> [scoped |-> FALSE, tenant |-> NoTenant, parts |-> {}]]

\* What prepare makes of the bodies.
Prepared == [b \in DOMAIN Body |-> SanitizeQueryFilters(ToMetricQuery(Body[b]))]

\* The part of the cache key that comes from a body, as one of those that
\* have it.
BodyKey ==
    [b \in DOMAIN Body |->
        CHOOSE d \in DOMAIN Body : RequestKey(Body[d], Prepared[d]) = RequestKey(Body[b], Prepared[b])]

\* What the backend is sent for a body and a filter.
Sent(answer) == BackendQuery(Body[answer.body], Prepared[answer.body], answer.filter)

(***************************************************************************)
(* The locals: the slice held (0 for none), the children still to be asked *)
(* about, the elements of the slice read, the length of nonEmpty (a prefix *)
(* of the slice), accessSet, the cache key, and the answer.  History: how  *)
(* long ago the resolution began, while the call resolves and narrows.     *)
(***************************************************************************)
Idle == [pc |-> "idle", req |-> << >>, slice |-> 0, todo |-> << >>,
         read |-> 0, kept |-> 0, seen |-> {}, key |-> << >>, answer |-> NoAnswer, age |-> 0]

Who(c) == call[c].req[1]
Asked(c) == call[c].req[2]
Posted(c) == call[c].req[3]
Explicit(c) == Asked(c) \notin {Default, All}
Slice(c) == heap[call[c].slice]
Element(c) == Slice(c).ids[call[c].read + 1]
LastRead(c) == call[c].read + 1 = Len(Slice(c).ids)
AllRead(c) == call[c].read = Len(Slice(c).ids)

\* The elements of ids that are not empty, in their order: each at its rank
\* among them.
NonEmpty(ids) ==
    LET kept == {i \in DOMAIN ids : ids[i] # NoPartition}
        Rank(i) == Cardinality({j \in kept : j <= i})
    IN  [n \in 1..Cardinality(kept) |-> ids[CHOOSE i \in kept : Rank(i) = n]]

Refs == {call[c].slice : c \in Call} \cup {scopes[u].ref : u \in DOMAIN scopes}

NewRef == CHOOSE r \in Ref : r \notin Refs

\* Others hold the slice of call c as well.
Shared(c) ==
    \/ \E d \in Call \ {c} : call[d].slice = call[c].slice
    \/ \E u \in DOMAIN scopes : scopes[u].ref = call[c].slice

\* Call c lets go of its slice, which is collected unless others hold it.
Released(c) ==
    IF Shared(c) THEN heap ELSE [r \in Ref |-> IF r = call[c].slice THEN NoSlice ELSE heap[r]]

\* TenantFilter.PartitionIDs: the part of its slice that c has kept.
Filter(c) == IF call[c].slice = 0 THEN << >> ELSE SubSeq(Slice(c).ids, 1, call[c].kept)

\* How often each partition occurs in the filter, in whatever order.
Counts(c) == [p \in Range(Filter(c)) |-> Cardinality({i \in DOMAIN Filter(c) : Filter(c)[i] = p})]

\* Mutant of QueryKey: the tenant is left out.
QueryKeyWithoutTenant(c) == <<Counts(c), BodyKey[Posted(c)]>>

\* buildCacheKey: the tenant, the partitions and the request; the subject
\* does not enter.
QueryKey(c) == <<TenantOf[Who(c)], Counts(c), BodyKey[Posted(c)]>>

\* Mutant of ScopeFresh: what is cached stays.
ScopeFreshForever(u) == u \in DOMAIN scopes

ScopeFresh(u) == u \in DOMAIN scopes /\ scopes[u].left > 0

ResultFresh(k) == k \in DOMAIN results /\ ~results[k].expired

\* A map, and the entry e at k.
With(map, k, e) == [q \in DOMAIN map \cup {k} |-> IF q = k THEN e ELSE map[q]]

-----------------------------------------------------------------------------
Init ==
    /\ scopes = << >>
    /\ heap = [r \in Ref |-> NoSlice]
    /\ results = << >>
    /\ call = [c \in Call |-> Idle]

At(c, pc) == call[c].pc = pc

\* A request is read; one whose body is not as it should be, or with a
\* metric that is not allowed, is answered 400.
Arrive(c) ==
    /\ At(c, "idle")
    /\ \E r \in Request :
          call' = [call EXCEPT ![c] = [@ EXCEPT !.req = r, !.pc =
              IF WellFormed(Body[r[3]]) /\ Validate(ToMetricQuery(Body[r[3]])) THEN "resolve" ELSE "refused"]]
    /\ UNCHANGED <<scopes, heap, results>>

\* The call ends, with its answer or an error written.
Leave(c) ==
    /\ call' = [call EXCEPT ![c] = Idle]
    /\ heap' = Released(c)
    /\ UNCHANGED <<scopes, results>>

\* No tenant claim: an unscoped query for who may see everything, else 403.
Unscoped(c) ==
    /\ At(c, "resolve") /\ TenantOf[Who(c)] = NoTenant
    /\ IF Who(c) \in GlobalViewer
       THEN /\ call' = [call EXCEPT ![c].pc = "lookup"]
            /\ UNCHANGED <<scopes, heap, results>>
       ELSE Leave(c)

\* The resolver has a fresh entry: its slice is handed out, not a copy.
ScopeHit(c) ==
    /\ At(c, "resolve") /\ TenantOf[Who(c)] # NoTenant
    /\ ScopeFresh(Who(c))
    /\ call' = [call EXCEPT ![c] =
          [@ EXCEPT !.pc = "narrow", !.slice = scopes[Who(c)].ref, !.age = scopes[Who(c)].age]]
    /\ UNCHANGED <<scopes, heap, results>>

\* It has none: a new slice is begun with the caller's own partition.
ScopeMiss(c) ==
    /\ At(c, "resolve") /\ TenantOf[Who(c)] # NoTenant
    /\ ~ScopeFresh(Who(c))
    /\ call' = [call EXCEPT ![c] = [@ EXCEPT !.pc = "list", !.slice = NewRef]]
    /\ LET own == PartitionOf[Who(c)]
       IN  heap' = [heap EXCEPT ![NewRef] = [ids |-> <<own>>, found |-> {own}]]
    /\ UNCHANGED <<scopes, results>>

\* The tenancy service lists the child partitions.
ListAnswered(c) ==
    /\ At(c, "list")
    /\ call' = [call EXCEPT ![c] = [@ EXCEPT !.pc = "children", !.todo = Children[Who(c)]]]
    /\ UNCHANGED <<scopes, heap, results>>

\* The caller's capabilities in one child are resolved: they let it see
\* analytics there, or they do not, or cannot be had.
ChildResolved(c) ==
    /\ At(c, "children") /\ call[c].todo # << >>
    /\ LET child == Head(call[c].todo)
       IN  \/ heap' = [heap EXCEPT ![call[c].slice] =
                 [Slice(c) EXCEPT !.ids = Append(@, child), !.found = @ \cup {child}]]
           \/ UNCHANGED heap
    /\ call' = [call EXCEPT ![c].todo = Tail(@)]
    /\ UNCHANGED <<scopes, results>>

\* What cacheResult may leave of the entries: at capacity the expired ones
\* go, and if that makes no room, as many of the others as the map's
\* iteration comes upon first.
Room ==
    LET live == {u \in DOMAIN scopes : scopes[u].left >= 0}
        half == IF MaxScopes \div 2 = 0 THEN 1 ELSE MaxScopes \div 2
    IN  IF Cardinality(DOMAIN scopes) < MaxScopes THEN {DOMAIN scopes}
        ELSE IF Cardinality(live) < MaxScopes THEN {live}
        ELSE {live \ gone : gone \in {s \in SUBSET live : Cardinality(s) = half}}

\* The slice is complete, or the children cannot be listed and it holds the
\* caller's own partition alone: it is cached either way, and returned.
StoreScope(c) ==
    /\ \/ At(c, "list")
       \/ At(c, "children") /\ call[c].todo = << >>
    /\ call' = [call EXCEPT ![c].pc = "narrow"]
    /\ LET u == Who(c)
       IN  \E others \in Room :
              /\ scopes' = With(Restrict(scopes, others), u,
                                [ref |-> call[c].slice, left |-> ScopeTTL, age |-> call[c].age])
              /\ heap' = [r \in Ref |->
                     IF \/ \E d \in Call : call[d].slice = r
                        \/ \E v \in others \ {u} : scopes[v].ref = r
                     THEN heap[r] ELSE NoSlice]
    /\ UNCHANGED results

\* The scope of c is the list ids, in a slice of its own: a new one, for
\* which that of c makes room if nobody else holds it.
Privately(c, ids) ==
    /\ LET ref == IF Shared(c) THEN NewRef ELSE call[c].slice
       IN  /\ heap' = [heap EXCEPT ![ref] = [Slice(c) EXCEPT !.ids = ids]]
           /\ call' = [call EXCEPT ![c] = [@ EXCEPT !.pc = "lookup", !.slice = ref, !.kept = Len(ids),
                                                   !.read = 0, !.seen = {}, !.age = 0]]
    /\ UNCHANGED <<scopes, results>>

\* Mutant of NarrowToOwn: an empty id is not dropped.
NarrowToOwnUnfiltered(c) ==
    /\ At(c, "narrow") /\ Asked(c) = Default
    /\ Privately(c, <<PartitionOf[Who(c)]>>)

\* resolveFilter without partition_ids: the caller's own partition.
NarrowToOwn(c) ==
    /\ At(c, "narrow") /\ Asked(c) = Default
    /\ Privately(c, NonEmpty(<<PartitionOf[Who(c)]>>))

\* resolveFilter with the wildcard: one round of the loop that moves the ids
\* that are not empty to the front, in the slice itself.
Compact(c) ==
    /\ At(c, "narrow") /\ Asked(c) = All
    /\ LET keep == Element(c) # NoPartition
           kept == call[c].kept + (IF keep THEN 1 ELSE 0)
       IN  /\ heap' = IF keep THEN [heap EXCEPT ![call[c].slice].ids[kept] = Element(c)] ELSE heap
           /\ call' = [call EXCEPT ![c] =
                 IF LastRead(c)
                 THEN [call[c] EXCEPT !.pc = "lookup", !.kept = kept, !.read = 0, !.age = 0]
                 ELSE [call[c] EXCEPT !.kept = kept, !.read = @ + 1]]
    /\ UNCHANGED <<scopes, results>>

\* resolveFilter with a list: one round of the loop that fills accessSet.
Scan(c) ==
    /\ At(c, "narrow") /\ Explicit(c) /\ ~AllRead(c)
    /\ call' = [call EXCEPT ![c] = [call[c] EXCEPT !.read = @ + 1, !.seen = @ \cup {Element(c)}]]
    /\ UNCHANGED <<scopes, heap, results>>

\* Every partition of the list is accessible: it is the scope.
Accept(c) ==
    /\ At(c, "narrow") /\ Explicit(c) /\ AllRead(c)
    /\ Range(Asked(c)) \subseteq call[c].seen
    /\ Privately(c, NonEmpty(Asked(c)))

\* One is not: 403.
Reject(c) ==
    /\ At(c, "narrow") /\ Explicit(c) /\ AllRead(c)
    /\ ~(Range(Asked(c)) \subseteq call[c].seen)
    /\ Leave(c)

\* The response cache holds an answer that is not past its expiry.
Hit(c) ==
    /\ At(c, "lookup") /\ ResultFresh(QueryKey(c))
    /\ call' = [call EXCEPT ![c] =
          [@ EXCEPT !.pc = "returned", !.answer = results[QueryKey(c)].answer]]
    /\ UNCHANGED <<scopes, heap, results>>

\* It does not; the key is kept for the put.
Miss(c) ==
    /\ At(c, "lookup") /\ ~ResultFresh(QueryKey(c))
    /\ call' = [call EXCEPT ![c] = [@ EXCEPT !.pc = "ask", !.key = QueryKey(c)]]
    /\ UNCHANGED <<scopes, heap, results>>

TenantFilter(c, parts) ==
    [scoped |-> TenantOf[Who(c)] # NoTenant, tenant |-> TenantOf[Who(c)], parts |-> parts]

\* The backend writes the tenant and the slice's partitions, as they are by
\* now, into its query and sends it.
AskBackend(c) ==
    /\ At(c, "ask")
    /\ call' = [call EXCEPT ![c] = [@ EXCEPT !.pc = "fetching", !.answer =
          [body |-> Posted(c), filter |-> TenantFilter(c, Range(Filter(c)))]]]
    /\ UNCHANGED <<scopes, heap, results>>

\* No response comes, or none that is understood: 500, and nothing is cached.
BackendFails(c) == At(c, "fetching") /\ Leave(c)

\* Mutant of Stored: a full cache takes one more.
StoredAnyway(k, e) == With(results, k, e)

\* queryCache.put: at capacity the expired entries go, and if that makes no
\* room nothing is stored.
Stored(k, e) ==
    LET full == Cardinality(DOMAIN results) >= MaxResults
        rest == Restrict(results, {q \in DOMAIN results : full => ~results[q].expired})
    IN  IF Cardinality(DOMAIN rest) >= MaxResults THEN rest ELSE With(rest, k, e)

\* A response arrives that is understood: it is put and returned.
Put(c) ==
    /\ At(c, "fetching")
    /\ \E response \in Response : Understood(Body[Posted(c)], response)
    /\ results' = Stored(call[c].key, [answer |-> call[c].answer, expired |-> FALSE])
    /\ call' = [call EXCEPT ![c] = [@ EXCEPT !.pc = "returned", !.key = << >>]]
    /\ UNCHANGED <<scopes, heap>>

\* The response is written.
Finish(c) == (At(c, "returned") \/ At(c, "refused")) /\ Leave(c)

\* The time of an answer in the response cache is over.
Expire(k) ==
    /\ ResultFresh(k)
    /\ results' = [results EXCEPT ![k].expired = TRUE]
    /\ UNCHANGED <<scopes, heap, call>>

\* Time passes while other services are waited for, a resolution's within
\* their deadlines, and not while a call computes.
Resolving(c) == call[c].pc \in {"list", "children"}

Tick ==
    /\ \A c \in Call :
          \/ call[c].pc \in {"idle", "fetching", "returned", "refused"}
          \/ Resolving(c) /\ call[c].age < MaxResolve
    /\ scopes' = [u \in DOMAIN scopes |->
          [scopes[u] EXCEPT !.left = IF @ < 0 THEN @ ELSE @ - 1,
                            !.age = IF @ < OldAge THEN @ + 1 ELSE @]]
    /\ call' = [c \in Call |-> IF Resolving(c) THEN [call[c] EXCEPT !.age = @ + 1] ELSE call[c]]
    /\ UNCHANGED <<heap, results>>

ResolveAccessiblePartitions(c) ==
    ScopeHit(c) \/ ScopeMiss(c) \/ ListAnswered(c) \/ ChildResolved(c) \/ StoreScope(c)

ResolveFilter(c) ==
    Unscoped(c) \/ NarrowToOwn(c) \/ Compact(c) \/ Scan(c) \/ Accept(c) \/ Reject(c)

Query(c) == Hit(c) \/ Miss(c) \/ AskBackend(c) \/ BackendFails(c) \/ Put(c)

Next ==
    \/ Tick
    \/ \E k \in DOMAIN results : Expire(k)
    \/ \E c \in Call :
          \/ Arrive(c) \/ Finish(c)
          \/ ResolveAccessiblePartitions(c) \/ ResolveFilter(c) \/ Query(c)

Spec == Init /\ [][Next]_vars

-----------------------------------------------------------------------------
Partitions == Range(PartitionOf) \cup UNION {Range(Children[u]) : u \in Caller}

Answer ==
    [body : DOMAIN Body \cup {"none"},
     filter : [scoped : BOOLEAN, tenant : Range(TenantOf) \cup {NoTenant},
               parts : SUBSET (Partitions \ {NoPartition})]]

TypeOK ==
    /\ DOMAIN scopes \subseteq Caller
    /\ \A u \in DOMAIN scopes : scopes[u] \in [ref : Ref, left : -1..ScopeTTL, age : 0..OldAge]
    /\ \A r \in Ref :
          /\ heap[r].ids \in Seq(Partitions)
          /\ heap[r].found \in SUBSET Partitions
    /\ \A k \in DOMAIN results : results[k] \in [answer : Answer, expired : BOOLEAN]
    /\ \A c \in Call :
          /\ call[c].pc \in {"idle", "resolve", "list", "children", "narrow", "lookup", "ask",
                            "fetching", "returned", "refused"}
          /\ call[c].req \in Request \cup {<< >>}
          /\ call[c].slice \in Ref \cup {0}
          /\ call[c].slice # 0 => {call[c].read, call[c].kept} \subseteq 0..Len(Slice(c).ids)
          /\ call[c].answer \in Answer
          /\ call[c].age \in 0..OldAge

(***************************************************************************)
(* What a query asks for, of what its resolution found.                    *)
(***************************************************************************)
Scope(c) ==
    IF call[c].slice = 0 THEN {}
    ELSE CASE Asked(c) = Default -> {PartitionOf[Who(c)]} \ {NoPartition}
           [] Asked(c) = All -> Slice(c).found \ {NoPartition}
           [] OTHER -> Range(Asked(c)) \ {NoPartition}

(***************************************************************************)
(* An answer, cached by whomever, is over the caller's tenant and exactly  *)
(* the partitions asked for, all of which its own resolution found         *)
(* accessible, in every metric it is made of and whatever labels the       *)
(* request filters by.  Only who may see everything gets an answer over no *)
(* tenant.                                                                 *)
(***************************************************************************)
ScopeMatchers(c) ==
    {<<"tenant_id", {TenantOf[Who(c)]}>>}
    \cup (IF Scope(c) = {} THEN {} ELSE {<<"partition_id", Scope(c)>>})

IsOfScope(c) ==
    /\ \A s \in Selectors(Sent(call[c].answer).expr) :
          {m \in s.matchers : m[1] \in ScopeLabel} =
              IF TenantOf[Who(c)] = NoTenant THEN {} ELSE ScopeMatchers(c)
    /\ call[c].slice # 0 => Scope(c) \subseteq Slice(c).found
    /\ TenantOf[Who(c)] = NoTenant => Who(c) \in GlobalViewer

\* Every answer the engine returns, from the backend or the cache, is of its scope.
AnswerIsOfScope == \A c \in Call : At(c, "returned") => IsOfScope(c)

(***************************************************************************)
(* The response cache is not to be told from the backend: an answer is     *)
(* what the backend would say to this very request over this very scope,   *)
(* with at most the seconds of its window wrong.                           *)
(***************************************************************************)
IsToQuestion(c) ==
    \E b \in DOMAIN Body :
        /\ Bucket(Body[b].window) = Bucket(Body[Posted(c)].window)
        /\ Sent(call[c].answer) =
               BackendQuery([Body[Posted(c)] EXCEPT !.window = Body[b].window],
                            Prepared[Posted(c)], TenantFilter(c, Scope(c)))

\* Every answer the engine returns is to the question of its own request.
AnswerIsToQuestion == \A c \in Call : At(c, "returned") => IsToQuestion(c)

(***************************************************************************)
(* Every metric that is read, nested in a ratio or not, is the normal form *)
(* of a name that the request has and the allowlist lets through.  The     *)
(* list judges names as they are given: the normal form need not be on it. *)
(* A time series of a ratio is excepted: it reads no metric of the ratio,  *)
(* and one without a name (buildRatePromQL).                               *)
(***************************************************************************)
RatioSeries(b) == b.kind = "timeseries" /\ b.query.parts # << >>

OnlyAllowedMetricsAreRead ==
    \A c \in Call : At(c, "fetching") /\ ~RatioSeries(Body[Posted(c)]) =>
        {s.metric : s \in Selectors(Sent(call[c].answer).expr)} \subseteq
            {MetricName[m] : m \in Allowed \cap Names(ToMetricQuery(Body[Posted(c)]))}

(***************************************************************************)
(* Access lost is access lost: the partitions a query is narrowed to were  *)
(* found accessible by a resolution that began at most a scope TTL and a   *)
(* longest resolution ago.                                                 *)
(***************************************************************************)
ScopeIsRecent ==
    \A c \in Call : At(c, "narrow") => call[c].age <= MaxResolve + ScopeTTL

\* Neither cache outgrows its limit.
CachesStayBounded ==
    /\ Cardinality(DOMAIN scopes) <= MaxScopes
    /\ Cardinality(DOMAIN results) <= MaxResults

(***************************************************************************)
(* engine.go, on resolveFilter: "["*"]: resolve all accessible partitions  *)
(* via PartitionResolver."  A query with the wildcard is narrowed to all   *)
(* the partitions its resolution found.                                    *)
(***************************************************************************)
WildcardMeansAll ==
    \A c \in Call : At(c, "lookup") /\ Asked(c) = All => Range(Filter(c)) = Scope(c)
=============================================================================
