----------------------- MODULE AnalyticsEngineProofs -----------------------
(***************************************************************************)
(* Theorems about AnalyticsEngine, for any number of calls, callers,       *)
(* partitions and requests, any limits and TTL.                            *)
(***************************************************************************)
EXTENDS AnalyticsEngine, MetricQueriesProofs, FiniteSetTheorems, FunctionTheorems

(***************************************************************************)
(* Nobody of a tenant without a partition claim has child partitions: an   *)
(* empty id is then alone in its slice, and compacting the slice changes   *)
(* nothing.                                                                *)
(***************************************************************************)
Tidy(t) == \A u \in Caller : TenantOf[u] = t /\ PartitionOf[u] = NoPartition => Children[u] = << >>

Orderly(u) == Tidy(TenantOf[u])

-----------------------------------------------------------------------------
(***************************************************************************)
(* The inductive invariant.  Types first.                                  *)
(***************************************************************************)
Fields == DOMAIN Idle

SliceType == [ids : Seq(Partitions), found : SUBSET Partitions]

HeapInv == heap \in [Ref -> SliceType]

Held(c) == At(c, "list") \/ At(c, "children") \/ At(c, "narrow")
Narrowed(c) == call[c].pc \in {"lookup", "ask", "fetching", "returned"}
Scoped(c) == TenantOf[Who(c)] # NoTenant

CallType(c) ==
    /\ DOMAIN call[c] = Fields
    /\ call[c].pc \in {"idle", "resolve", "list", "children", "narrow", "lookup", "ask",
                      "fetching", "returned", "refused"}
    /\ call[c].req \in Request \cup {<< >>}
    /\ call[c].slice \in Ref \cup {0}
    /\ call[c].todo \in Seq(Partitions)
    /\ call[c].read \in Nat /\ call[c].kept \in Nat
    /\ call[c].seen \in SUBSET Partitions
    /\ call[c].answer \in Answer
    /\ call[c].age \in Nat

\* A slice in which the wildcard's loop has nothing to shift.
Settled(s) == Len(s.ids) = 1 \/ NoPartition \notin s.found

(***************************************************************************)
(* Slice s was resolved for u: u's own partition was found, no more ids    *)
(* than that and one to a child, and a slice in which nothing shifts holds *)
(* what was found and nothing else.                                        *)
(***************************************************************************)
ResolvedFor(s, u) ==
    /\ Len(s.ids) >= 1 /\ Len(s.ids) <= Len(Children[u]) + 1
    /\ PartitionOf[u] \in s.found
    /\ Settled(s) => s.found = Range(s.ids)
    /\ Orderly(u) => Settled(s)

ScopeEntryInv(u) ==
    /\ scopes[u] \in [ref : Ref, left : -1..ScopeTTL, age : 0..OldAge]
    /\ scopes[u].left >= 0 => scopes[u].age + scopes[u].left <= MaxResolve + ScopeTTL
    /\ ResolvedFor(heap[scopes[u].ref], u)

ResultInv(k) ==
    /\ results[k] \in [answer : Answer, expired : BOOLEAN]
    /\ results[k].answer.body \in DOMAIN Body /\ BodyKey[results[k].answer.body] = k[3]
    /\ results[k].answer.filter.scoped <=> k[1] # NoTenant
    /\ results[k].answer.filter.tenant = k[1]
    /\ Tidy(k[1]) => results[k].answer.filter.parts = DOMAIN k[2]

\* A slice is its caller's alone until it is cached, and once it is private.
Unshared(c) ==
    \/ call[c].pc \in {"list", "children"}
    \/ Narrowed(c) /\ Scoped(c) /\ Asked(c) # All

\* What is left of a wildcard's slice may still be shared.
Passed(c) == Narrowed(c) /\ Scoped(c) /\ Asked(c) = All

(***************************************************************************)
(* Where a call is, what it holds, and how far its loops are.              *)
(***************************************************************************)
PlaceInv(c) ==
    /\ ~At(c, "idle") => call[c].req \in Request
    /\ call[c].pc \notin {"idle", "refused"} =>
          WellFormed(Body[Posted(c)]) /\ Validate(ToMetricQuery(Body[Posted(c)]))
    /\ Held(c) => Scoped(c)
    /\ call[c].slice # 0 <=> Held(c) \/ (Narrowed(c) /\ Scoped(c))
    /\ Narrowed(c) /\ ~Scoped(c) => Who(c) \in GlobalViewer
    /\ Unshared(c) => ~Shared(c)

\* A slice has an id at most to each child that was asked about.
RoomForChildren(c) == Len(Slice(c).ids) + Len(call[c].todo) <= Len(Children[Who(c)]) + 1

LoopInv(c) ==
    /\ call[c].pc \in {"idle", "resolve", "list", "children"} =>
          call[c].read = 0 /\ call[c].kept = 0 /\ call[c].seen = {}
    /\ At(c, "list") => Slice(c) = [ids |-> <<PartitionOf[Who(c)]>>, found |-> {PartitionOf[Who(c)]}]
    /\ At(c, "children") => NoPartition \notin Range(call[c].todo)
    /\ At(c, "children") => RoomForChildren(c)
    /\ At(c, "children") /\ call[c].todo # << >> /\ Orderly(Who(c)) => NoPartition \notin Slice(c).found
    /\ Held(c) \/ Passed(c) => ResolvedFor(Slice(c), Who(c))
    /\ call[c].slice # 0 =>
          /\ call[c].kept <= Len(Slice(c).ids) /\ call[c].read <= Len(Slice(c).ids)
          /\ \A i \in 1..call[c].kept : Slice(c).ids[i] # NoPartition
    /\ At(c, "narrow") =>
          /\ Asked(c) = All => call[c].read < Len(Slice(c).ids) /\ call[c].kept <= call[c].read
          /\ Asked(c) = All /\ NoPartition \notin Slice(c).found => call[c].kept = call[c].read
          /\ Asked(c) # All => call[c].kept = 0
          /\ Orderly(Who(c)) => call[c].seen \subseteq Slice(c).found

AgeInv(c) ==
    /\ call[c].pc \in {"idle", "resolve"} => call[c].age = 0
    /\ Resolving(c) => call[c].age <= MaxResolve
    /\ call[c].age <= MaxResolve + ScopeTTL

\* What is asked is what was allowed, and what is answered what was asked.
AnswerInv(c) ==
    /\ At(c, "fetching") => call[c].answer.body = Posted(c)
    /\ Orderly(Who(c)) /\ Narrowed(c) /\ call[c].slice # 0 =>
          Range(Filter(c)) = Scope(c) /\ Scope(c) \subseteq Slice(c).found
    /\ Orderly(Who(c)) /\ call[c].pc \in {"ask", "fetching"} => call[c].key = QueryKey(c)
    /\ Orderly(Who(c)) /\ At(c, "fetching") => call[c].answer.filter = TenantFilter(c, Scope(c))
    /\ At(c, "returned") =>
          call[c].answer.body \in DOMAIN Body /\ BodyKey[call[c].answer.body] = BodyKey[Posted(c)]
    /\ call[c].pc \in {"ask", "fetching"} =>
          call[c].key[1] = TenantOf[Who(c)] /\ call[c].key[3] = BodyKey[Posted(c)]
    /\ call[c].pc \in {"fetching", "returned"} =>
          /\ call[c].answer.filter.scoped <=> Scoped(c)
          /\ call[c].answer.filter.tenant = TenantOf[Who(c)]
    /\ Orderly(Who(c)) /\ At(c, "returned") => call[c].answer.filter = TenantFilter(c, Scope(c))

CallInv(c) == CallType(c) /\ PlaceInv(c) /\ LoopInv(c) /\ AgeInv(c) /\ AnswerInv(c)

Inv ==
    /\ HeapInv
    /\ DOMAIN call = Call
    /\ DOMAIN scopes \subseteq Caller
    /\ IsFiniteSet(DOMAIN scopes) /\ Cardinality(DOMAIN scopes) <= MaxScopes
    /\ IsFiniteSet(DOMAIN results) /\ Cardinality(DOMAIN results) <= MaxResults
    /\ \A u \in DOMAIN scopes : ScopeEntryInv(u)
    /\ \A k \in DOMAIN results : ResultInv(k)
    /\ \A c \in Call : CallInv(c)
-----------------------------------------------------------------------------
LEMMA Limits ==
    /\ MaxScopes \in Nat \ {0} /\ MaxResults \in Nat
    /\ ScopeTTL \in Nat /\ MaxResolve \in Nat
    /\ OldAge \in Nat /\ MaxResolve + ScopeTTL < OldAge
    /\ IsFiniteSet(Call) /\ Cardinality(Call) \in Nat
  BY AnalyticsAssumption, FS_CardinalityType DEF OldAge

LEMMA Requests ==
    \A r \in Request : /\ r[1] \in Caller /\ r[3] \in DOMAIN Body
                       /\ OfRequestType(Body[r[3]])
                       /\ r[2] = All \/ r[2] \in Seq(Range(r[2]))
  BY AnalyticsAssumption

LEMMA Wildcard == All # Default
  BY AnalyticsAssumption

LEMMA Callers ==
    ASSUME NEW u \in Caller
    PROVE  /\ PartitionOf[u] \in Partitions
           /\ Children[u] \in Seq(Partitions)
           /\ NoPartition \notin Range(Children[u])
           /\ TenantOf[u] \in Range(TenantOf)
<1>1. PartitionOf[u] \in Partitions /\ TenantOf[u] \in Range(TenantOf)
  BY AnalyticsAssumption DEF Partitions, Range
<1> DEFINE C == UNION {Range(Children[v]) : v \in Caller}
<1>2. C \subseteq Partitions
  BY DEF Partitions
<1>3. Children[u] \in Seq(C) /\ NoPartition \notin Range(Children[u])
  BY AnalyticsAssumption
<1> HIDE DEF C
<1>4. Children[u] \in Seq(Partitions)
  BY <1>2, <1>3
<1> QED BY <1>1, <1>3, <1>4

(***************************************************************************)
(* NonEmpty drops the empty ids and nothing else.                          *)
(***************************************************************************)
LEMMA NonEmptyRange ==
    ASSUME NEW S, NEW ids \in Seq(S)
    PROVE  NonEmpty(ids) \in Seq(S) /\ Range(NonEmpty(ids)) = Range(ids) \ {NoPartition}
<1> DEFINE kept == {i \in DOMAIN ids : ids[i] # NoPartition}
           n == Cardinality(kept)
           upTo(i) == {j \in kept : j <= i}
           rank == [i \in kept |-> Cardinality(upTo(i))]
<1>1. kept \subseteq 1..Len(ids) /\ Len(ids) \in Nat
  OBVIOUS
<1>2. IsFiniteSet(kept) /\ n \in Nat
  <2>1. IsFiniteSet(1..Len(ids))
    BY <1>1, FS_Interval
  <2> QED BY <1>1, <2>1, FS_Subset, FS_CardinalityType
<1>3. ASSUME NEW i \in kept
      PROVE  IsFiniteSet(upTo(i)) /\ Cardinality(upTo(i)) \in 1..n
  <2>1. upTo(i) \subseteq kept /\ i \in upTo(i)
    BY <1>1
  <2> HIDE DEF kept, upTo
  <2>2. IsFiniteSet(upTo(i)) /\ Cardinality(upTo(i)) <= n
    BY <1>2, <2>1, FS_Subset
  <2>3. Cardinality(upTo(i)) \in Nat /\ Cardinality(upTo(i)) # 0
    BY <2>1, <2>2, FS_CardinalityType, FS_EmptySet
  <2> QED BY <1>2, <2>2, <2>3
<1>4. ASSUME NEW i \in kept, NEW j \in kept, Cardinality(upTo(i)) = Cardinality(upTo(j)), i < j
      PROVE  FALSE
  <2>1. upTo(i) \subseteq upTo(j) /\ j \in upTo(j) /\ j \notin upTo(i)
    BY <1>1, <1>4
  <2> QED BY <1>3, <1>4, <2>1, FS_Subset
<1>5. \A i, j \in kept : Cardinality(upTo(i)) = Cardinality(upTo(j)) => i = j
  <2> SUFFICES ASSUME NEW i \in kept, NEW j \in kept, Cardinality(upTo(i)) = Cardinality(upTo(j))
               PROVE  i = j
    OBVIOUS
  <2>1. i \in Int /\ j \in Int
    BY <1>1
  <2>2. ~(i < j) /\ ~(j < i)
    BY <1>4
  <2> QED BY <2>1, <2>2
<1> HIDE DEF kept, upTo
<1>6. rank \in Injection(kept, 1..n)
  BY <1>3, <1>5, Fun_IsInj
<1>7. IsFiniteSet(1..n) /\ Cardinality(1..n) = n
  BY <1>2, FS_Interval
<1>8. rank \in Surjection(kept, 1..n)
  BY <1>6, <1>7, FS_Injection
<1>9. \A m \in 1..n : \E i \in kept : Cardinality(upTo(i)) = m
  <2> HIDE DEF n
  <2>1. \A m \in 1..n : \E i \in kept : rank[i] = m
    BY <1>8 DEF Surjection
  <2> QED BY <2>1
<1> DEFINE at(m) == CHOOSE i \in kept : Cardinality(upTo(i)) = m
<1>10. \A m \in 1..n : at(m) \in kept /\ Cardinality(upTo(at(m))) = m
  BY <1>9
<1>11. \A i \in kept : at(Cardinality(upTo(i))) = i
  <2> SUFFICES ASSUME NEW i \in kept PROVE at(Cardinality(upTo(i))) = i
    OBVIOUS
  <2>1. Cardinality(upTo(i)) \in 1..n
    BY <1>3
  <2> QED BY <1>5, <1>10, <2>1
<1>12. NonEmpty(ids) = [m \in 1..n |-> ids[at(m)]]
  BY DEF NonEmpty, kept, upTo
<1> HIDE DEF at
<1>13. \A i \in kept : i \in DOMAIN ids /\ ids[i] \in S /\ ids[i] # NoPartition
  BY DEF kept
<1>14. NonEmpty(ids) \in Seq(S)
  <2>1. \A m \in 1..n : ids[at(m)] \in S
    BY <1>10, <1>13
  <2> HIDE DEF n
  <2> QED BY <1>2, <1>12, <2>1
<1>15. Range(NonEmpty(ids)) = {ids[i] : i \in kept}
  <2>1. \A m \in 1..n : \E i \in kept : ids[at(m)] = ids[i]
    BY <1>10
  <2>2. \A i \in kept : \E m \in 1..n : ids[at(m)] = ids[i]
    BY <1>3, <1>11
  <2> HIDE DEF n
  <2>3. Range(NonEmpty(ids)) = {ids[at(m)] : m \in 1..n}
    BY <1>12 DEF Range
  <2> QED BY <2>1, <2>2, <2>3
<1>16. Range(ids) \ {NoPartition} = {ids[i] : i \in kept}
  BY DEF Range, kept
<1> QED BY <1>14, <1>15, <1>16

(***************************************************************************)
(* There is always a slice to allocate: a call holds at most one, and an   *)
(* entry one, so that a call which holds none, or one that others hold     *)
(* too, leaves one over.                                                   *)
(***************************************************************************)
LEMMA NewRefIsFree ==
    ASSUME Inv, NEW c \in Call, call[c].slice = 0 \/ Shared(c)
    PROVE  NewRef \in Ref /\ NewRef \notin Refs
<1> DEFINE mine == {call[d].slice : d \in Call \ {c}}
           theirs == {scopes[u].ref : u \in DOMAIN scopes}
           n == Cardinality(Call)
<1>1. n \in Nat /\ IsFiniteSet(Call) /\ MaxScopes \in Nat
  BY Limits
<1>2. IsFiniteSet(Call \ {c}) /\ Cardinality(Call \ {c}) = n - 1
  BY <1>1, FS_RemoveElement
<1>3. IsFiniteSet(mine) /\ Cardinality(mine) <= n - 1
  <2> DEFINE f == [d \in Call \ {c} |-> call[d].slice]
  <2>1. f \in Surjection(Call \ {c}, mine)
    BY DEF Surjection
  <2> QED BY <1>2, <2>1, FS_Surjection
<1>4. IsFiniteSet(theirs) /\ Cardinality(theirs) <= MaxScopes
  <2> DEFINE f == [u \in DOMAIN scopes |-> scopes[u].ref]
  <2>1. f \in Surjection(DOMAIN scopes, theirs)
    BY DEF Surjection
  <2>2. IsFiniteSet(DOMAIN scopes) /\ Cardinality(DOMAIN scopes) <= MaxScopes
    BY DEF Inv
  <2>3. IsFiniteSet(theirs) /\ Cardinality(theirs) <= Cardinality(DOMAIN scopes)
    BY <2>1, <2>2, FS_Surjection
  <2> QED BY <1>1, <2>2, <2>3, FS_CardinalityType
<1>5. /\ IsFiniteSet(mine \cup theirs)
      /\ Cardinality(mine \cup theirs) < n + MaxScopes
  <2>1. IsFiniteSet(mine \cap theirs)
    BY <1>3, FS_Subset
  <2> HIDE DEF mine, theirs, n
  <2>2. /\ Cardinality(mine) \in Nat /\ Cardinality(theirs) \in Nat
        /\ Cardinality(mine \cap theirs) \in Nat
    BY <1>3, <1>4, <2>1, FS_CardinalityType
  <2> QED BY <1>1, <1>3, <1>4, <2>2, FS_Union
<1>6. Refs \subseteq mine \cup theirs \cup {0}
  BY DEF Refs, Shared
<1>7. \E r \in Ref : r \notin mine \cup theirs
  <2> SUFFICES ASSUME Ref \subseteq mine \cup theirs PROVE FALSE
    OBVIOUS
  <2>1. Cardinality(Ref) = n + MaxScopes
    BY <1>1, FS_Interval DEF Ref
  <2> HIDE DEF mine, theirs, n
  <2>2. Cardinality(Ref) <= Cardinality(mine \cup theirs)
    BY <1>5, FS_Subset
  <2> QED BY <1>1, <1>5, <2>1, <2>2, FS_CardinalityType
<1>8. 0 \notin Ref
  BY DEF Ref
<1> HIDE DEF mine, theirs
<1> QED BY <1>6, <1>7, <1>8 DEF NewRef

-----------------------------------------------------------------------------
(***************************************************************************)
(* What a step of one call does to the others.  A slice may be written by  *)
(* others than who holds it, but keeps its length, and what was not empty  *)
(* stays so; if nothing shifts, it is left as it is.                       *)
(***************************************************************************)
Kin(old, new) ==
    /\ Len(new.ids) = Len(old.ids) /\ new.found = old.found
    /\ \A i \in 1..Len(old.ids) : old.ids[i] # NoPartition => new.ids[i] # NoPartition
    /\ Settled(old) => new = old

LEMMA KinSame == ASSUME NEW s PROVE Kin(s, s)
  BY DEF Kin

\* What is taken off a sequence, and what is left, was in it.
LEMMA HeadAndTail ==
    ASSUME NEW S, NEW s \in Seq(S), s # << >>
    PROVE  /\ Head(s) \in Range(s)
           /\ Tail(s) \in Seq(S) /\ Len(Tail(s)) = Len(s) - 1
           /\ Range(Tail(s)) \subseteq Range(s)
<1>1. Head(s) = s[1] /\ Len(s) \in Nat /\ Len(s) >= 1 /\ DOMAIN s = 1..Len(s)
  OBVIOUS
<1>2. /\ Tail(s) \in Seq(S) /\ Len(Tail(s)) = Len(s) - 1
      /\ DOMAIN Tail(s) = 1..(Len(s) - 1)
  OBVIOUS
<1>3. ASSUME NEW i \in 1..(Len(s) - 1) PROVE Tail(s)[i] = s[i + 1] /\ i + 1 \in 1..Len(s)
  BY <1>1
<1>4. 1 \in DOMAIN s
  BY <1>1
<1> QED BY <1>1, <1>2, <1>3, <1>4 DEF Range

StepOf(c) ==
    /\ call' = [call EXCEPT ![c] = call'[c]]
    /\ call'[c].slice \in Refs =>
          call'[c].slice \in {0, call[c].slice} \cup {scopes[u].ref : u \in DOMAIN scopes}
    /\ \A u \in DOMAIN scopes' :
          \/ scopes'[u].ref = call[c].slice
          \/ u \in DOMAIN scopes /\ scopes'[u].ref = scopes[u].ref
    /\ \A d \in Call \ {c} : call[d].slice # 0 =>
          /\ Kin(heap[call[d].slice], heap'[call[d].slice])
          /\ Unshared(d) => heap'[call[d].slice] = heap[call[d].slice]

LEMMA StaysUnshared ==
    ASSUME Inv, NEW c \in Call, StepOf(c), NEW d \in Call \ {c}, Unshared(d)
    PROVE  ~Shared(d)'
<1>1. ~Shared(d) /\ call[d].slice # 0
  BY DEF Inv, CallInv, PlaceInv, Unshared, Held, At
<1>2. call'[d] = call[d] /\ \A e \in Call \ {c} : call'[e] = call[e]
  BY DEF StepOf, Inv
<1>3. call[d].slice \in Refs
  BY DEF Refs
<1>4. call'[c].slice # call[d].slice
  BY <1>1, <1>3 DEF StepOf, Shared
<1>5. \A u \in DOMAIN scopes' : scopes'[u].ref # call[d].slice
  BY <1>1 DEF StepOf, Shared
<1> QED BY <1>1, <1>2, <1>4, <1>5 DEF Shared

LEMMA ResolvedStays ==
    ASSUME NEW s, NEW t, NEW u, ResolvedFor(s, u), Kin(s, t)
    PROVE  ResolvedFor(t, u)
  BY DEF ResolvedFor, Kin, Settled

LEMMA OthersInv ==
    ASSUME Inv, NEW c \in Call, StepOf(c), NEW d \in Call \ {c}
    PROVE  CallInv(d)'
<1> DEFINE r == call[d].slice
<1>0. /\ call'[d] = call[d] /\ CallInv(d)
      /\ r # 0 => Kin(heap[r], heap'[r]) /\ (Unshared(d) => heap'[r] = heap[r])
  BY DEF StepOf, Inv
<1>1. /\ Who(d)' = Who(d) /\ Asked(d)' = Asked(d) /\ Posted(d)' = Posted(d)
      /\ (Scoped(d)' <=> Scoped(d)) /\ (Held(d)' <=> Held(d)) /\ (Narrowed(d)' <=> Narrowed(d))
      /\ (Unshared(d)' <=> Unshared(d)) /\ (Passed(d)' <=> Passed(d))
      /\ (Resolving(d)' <=> Resolving(d)) /\ \A pc : At(d, pc)' <=> At(d, pc)
  BY <1>0 DEF Who, Asked, Posted, Scoped, Held, Narrowed, Unshared, Passed, Resolving, At
<1>2. CallType(d)'
  BY <1>0 DEF CallInv, CallType
<1>3. PlaceInv(d)'
  BY <1>0, <1>1, StaysUnshared DEF CallInv, PlaceInv
<1>4. LoopInv(d)'
  <2>1. Held(d) \/ Passed(d) => ResolvedFor(Slice(d)', Who(d))
    <3>1. Held(d) \/ Passed(d) => ResolvedFor(Slice(d), Who(d)) /\ Kin(Slice(d), Slice(d)')
      BY <1>0 DEF CallInv, PlaceInv, LoopInv, Slice, Passed
    <3> QED BY <3>1, ResolvedStays
  <2>2. At(d, "list") \/ At(d, "children") \/ At(d, "narrow") => r # 0
    BY <1>0 DEF CallInv, PlaceInv, Held
  <2>3. At(d, "list") \/ At(d, "children") => Slice(d)' = Slice(d)
    BY <1>0, <2>2 DEF Slice, At, Unshared
  <2>4. r # 0 => /\ Len(Slice(d).ids)' = Len(Slice(d).ids)
                 /\ Slice(d).found' = Slice(d).found
                 /\ \A i \in 1..Len(Slice(d).ids) :
                       Slice(d).ids[i] # NoPartition => Slice(d).ids'[i] # NoPartition
    BY <1>0 DEF Slice, Kin
  <2>5. r # 0 => call[d].kept \in Nat /\ Len(Slice(d).ids) \in Nat
    BY <1>0 DEF CallInv, CallType, Inv, HeapInv, SliceType, Slice
  <2>6. At(d, "children") => RoomForChildren(d)'
    BY <1>0, <1>1, <2>3 DEF CallInv, LoopInv, RoomForChildren
  <2> QED BY <1>0, <1>1, <2>1, <2>2, <2>3, <2>4, <2>5, <2>6 DEF CallInv, LoopInv, At
<1>5. AgeInv(d)'
  BY <1>0, <1>1 DEF CallInv, AgeInv
<1>6. AnswerInv(d)'
  <2>1. Orderly(Who(d)) /\ Narrowed(d) /\ r # 0 => Slice(d)' = Slice(d)
    <3>1. Narrowed(d) /\ r # 0 => Unshared(d) \/ Passed(d)
      BY <1>0 DEF CallInv, PlaceInv, Held, Narrowed, At, Unshared, Passed
    <3>2. Orderly(Who(d)) /\ Passed(d) => Settled(heap[r])
      BY <1>0 DEF CallInv, LoopInv, ResolvedFor, Slice
    <3> QED BY <1>0, <3>1, <3>2 DEF Slice, Kin
  <2>2. Orderly(Who(d)) /\ Narrowed(d) => Filter(d)' = Filter(d)
    BY <1>0, <2>1 DEF Filter
  <2>3. Orderly(Who(d)) /\ Narrowed(d) => Scope(d)' = Scope(d)
    BY <1>0, <1>1, <2>1 DEF Scope
  <2>4. Orderly(Who(d)) /\ Narrowed(d) => QueryKey(d)' = QueryKey(d)
    BY <1>1, <2>2 DEF QueryKey, Counts
  <2>5. Orderly(Who(d)) /\ Narrowed(d) => TenantFilter(d, Scope(d))' = TenantFilter(d, Scope(d))
    BY <1>1, <2>3 DEF TenantFilter
  <2> QED BY <1>0, <1>1, <2>1, <2>2, <2>3, <2>4, <2>5 DEF CallInv, AnswerInv, At, Narrowed
<1> QED BY <1>2, <1>3, <1>4, <1>5, <1>6 DEF CallInv

LEMMA ScopeEntryStays ==
    ASSUME NEW u \in DOMAIN scopes, ScopeEntryInv(u), scopes'[u] = scopes[u],
           Kin(heap[scopes[u].ref], heap'[scopes[u].ref])
    PROVE  ScopeEntryInv(u)'
  BY ResolvedStays DEF ScopeEntryInv

(***************************************************************************)
(* A step of one call that leaves the caches alone keeps the invariant, if *)
(* it keeps that call's.                                                   *)
(***************************************************************************)
LEMMA StepInv ==
    ASSUME Inv, NEW c \in Call, StepOf(c), HeapInv', CallInv(c)', UNCHANGED <<scopes, results>>,
           \A u \in DOMAIN scopes : Kin(heap[scopes[u].ref], heap'[scopes[u].ref])
    PROVE  Inv' /\ StepOf(c)
<1>1. DOMAIN call' = Call
  BY DEF StepOf, Inv
<1>2. \A d \in Call : CallInv(d)'
  BY OthersInv
<1>3. \A u \in DOMAIN scopes : ScopeEntryInv(u)'
  BY ScopeEntryStays DEF Inv
<1>4. \A k \in DOMAIN results : ResultInv(k)'
  BY DEF Inv, ResultInv
<1> QED BY <1>1, <1>2, <1>3, <1>4 DEF Inv

\* In particular if it leaves all slices alone, and takes none, or a cached one.
LEMMA QuietStepInv ==
    ASSUME Inv, NEW c \in Call, call' = [call EXCEPT ![c] = call'[c]], CallInv(c)',
           UNCHANGED <<scopes, heap, results>>,
           call'[c].slice \in {0, call[c].slice} \cup {scopes[u].ref : u \in DOMAIN scopes}
    PROVE  Inv' /\ StepOf(c)
<1>1. StepOf(c)
  BY KinSame DEF StepOf
<1>2. HeapInv'
  BY DEF Inv, HeapInv
<1> QED BY <1>1, <1>2, StepInv, KinSame

LEMMA FieldNames ==
    Fields = {"pc", "req", "slice", "todo", "read", "kept", "seen", "key", "answer", "age"}
  BY DEF Fields, Idle

LEMMA NoAnswerType == NoAnswer \in Answer
  BY DEF NoAnswer, Answer

\* What a call's request and slice determine stays while they do.
LEMMA SameSlice ==
    ASSUME Inv, NEW c \in Call, call' = [call EXCEPT ![c] = call'[c]],
           call'[c].slice = call[c].slice, call'[c].req = call[c].req, UNCHANGED <<scopes, heap>>
    PROVE  /\ Who(c)' = Who(c) /\ Asked(c)' = Asked(c) /\ Posted(c)' = Posted(c)
           /\ (Scoped(c)' <=> Scoped(c)) /\ (Shared(c)' <=> Shared(c))
           /\ Slice(c)' = Slice(c) /\ Scope(c)' = Scope(c)
           /\ call'[c].kept = call[c].kept => Filter(c)' = Filter(c) /\ QueryKey(c)' = QueryKey(c)
<1>1. Who(c)' = Who(c) /\ Asked(c)' = Asked(c) /\ Posted(c)' = Posted(c) /\ Slice(c)' = Slice(c)
  BY DEF Who, Asked, Posted, Slice
<1>2. Scoped(c)' <=> Scoped(c)
  BY <1>1 DEF Scoped
<1>3. Shared(c)' <=> Shared(c)
  BY DEF Shared, Inv
<1>4. Scope(c)' = Scope(c)
  BY <1>1 DEF Scope
<1>5. call'[c].kept = call[c].kept => Filter(c)' = Filter(c)
  BY <1>1 DEF Filter
<1>6. call'[c].kept = call[c].kept => QueryKey(c)' = QueryKey(c)
  BY <1>1, <1>5 DEF QueryKey, Counts
<1> QED BY <1>1, <1>2, <1>3, <1>4, <1>5, <1>6

LEMMA ArriveInv ==
    ASSUME Inv, NEW c \in Call, Arrive(c)
    PROVE  Inv' /\ StepOf(c)
<1>1. PICK r \in Request : call' = [call EXCEPT ![c] = [@ EXCEPT !.req = r, !.pc =
          IF WellFormed(Body[r[3]]) /\ Validate(ToMetricQuery(Body[r[3]])) THEN "resolve" ELSE "refused"]]
  BY DEF Arrive
<1>2. CallInv(c) /\ At(c, "idle") /\ UNCHANGED <<scopes, heap, results>> /\ DOMAIN call = Call
  BY DEF Inv, Arrive
<1>3. /\ call' = [call EXCEPT ![c] = call'[c]] /\ DOMAIN call'[c] = Fields
      /\ call'[c].req = r /\ call'[c].pc \in {"resolve", "refused"}
      /\ call'[c].pc = "resolve" => WellFormed(Body[r[3]]) /\ Validate(ToMetricQuery(Body[r[3]]))
      /\ \A f \in Fields \ {"req", "pc"} : call'[c][f] = call[c][f]
  BY <1>1, <1>2, FieldNames DEF CallInv, CallType
<1>4. /\ call'[c].slice = call[c].slice /\ call'[c].todo = call[c].todo
      /\ call'[c].read = call[c].read /\ call'[c].kept = call[c].kept
      /\ call'[c].seen = call[c].seen /\ call'[c].answer = call[c].answer /\ call'[c].age = call[c].age
  BY <1>3, FieldNames
<1>5. call[c].slice = 0
  BY <1>2 DEF CallInv, PlaceInv, At, Held, Narrowed
<1>6. CallType(c)'
  BY <1>2, <1>3, <1>4 DEF CallInv, CallType
<1>7. PlaceInv(c)'
  BY <1>3, <1>4, <1>5 DEF PlaceInv, At, Held, Narrowed, Unshared, Posted
<1>8. LoopInv(c)'
  BY <1>2, <1>3, <1>4, <1>5 DEF CallInv, LoopInv, At, Held, Passed, Narrowed
<1>9. AgeInv(c)'
  BY <1>2, <1>3, <1>4, Limits DEF CallInv, AgeInv, At, Resolving
<1>10. AnswerInv(c)'
  BY <1>3 DEF AnswerInv, At, Narrowed
<1> QED BY <1>2, <1>3, <1>4, <1>6, <1>7, <1>8, <1>9, <1>10, QuietStepInv DEF CallInv

\* An unscoped query goes on with no slice.
LEMMA GlobalInv ==
    ASSUME Inv, NEW c \in Call, At(c, "resolve"), TenantOf[Who(c)] = NoTenant, Who(c) \in GlobalViewer,
           call' = [call EXCEPT ![c].pc = "lookup"], UNCHANGED <<scopes, heap, results>>
    PROVE  Inv' /\ StepOf(c)
<1>2. CallInv(c) /\ DOMAIN call = Call
  BY DEF Inv
<1>3. /\ call' = [call EXCEPT ![c] = call'[c]] /\ DOMAIN call'[c] = Fields
      /\ call'[c].pc = "lookup"
      /\ \A f \in Fields \ {"pc"} : call'[c][f] = call[c][f]
  BY <1>2, FieldNames DEF CallInv, CallType
<1>4. /\ call'[c].slice = call[c].slice /\ call'[c].todo = call[c].todo /\ call'[c].req = call[c].req
      /\ call'[c].read = call[c].read /\ call'[c].kept = call[c].kept
      /\ call'[c].seen = call[c].seen /\ call'[c].answer = call[c].answer /\ call'[c].age = call[c].age
  BY <1>3, FieldNames
<1>5. /\ call[c].slice = 0 /\ Who(c)' = Who(c) /\ Posted(c)' = Posted(c) /\ ~Scoped(c)' /\ ~Scoped(c)
  BY <1>2, <1>3, <1>4 DEF CallInv, PlaceInv, At, Held, Narrowed, Scoped, Who, Posted
<1>6. CallType(c)'
  BY <1>2, <1>3, <1>4 DEF CallInv, CallType
<1>7. PlaceInv(c)'
  BY <1>2, <1>3, <1>4, <1>5 DEF CallInv, PlaceInv, At, Held, Narrowed, Unshared
<1>8. LoopInv(c)'
  BY <1>2, <1>3, <1>4, <1>5 DEF CallInv, LoopInv, At, Held, Passed, Narrowed
<1>9. AgeInv(c)'
  BY <1>2, <1>3, <1>4 DEF CallInv, AgeInv, At, Resolving
<1>10. AnswerInv(c)'
  BY <1>3, <1>4, <1>5 DEF AnswerInv, At, Narrowed
<1> QED BY <1>2, <1>3, <1>4, <1>6, <1>7, <1>8, <1>9, <1>10, QuietStepInv DEF CallInv

LEMMA ScopeHitInv ==
    ASSUME Inv, NEW c \in Call, ScopeHit(c)
    PROVE  Inv' /\ StepOf(c)
<1> DEFINE u == Who(c)
<1>1. /\ CallInv(c) /\ At(c, "resolve") /\ Scoped(c) /\ DOMAIN call = Call
      /\ UNCHANGED <<scopes, heap, results>>
  BY DEF Inv, ScopeHit, Scoped
<1>2. u \in DOMAIN scopes /\ scopes[u].left > 0 /\ ScopeEntryInv(u)
  BY DEF ScopeHit, ScopeFresh, Inv
<1>3. /\ call' = [call EXCEPT ![c] = call'[c]] /\ DOMAIN call'[c] = Fields
      /\ call'[c].pc = "narrow" /\ call'[c].slice = scopes[u].ref /\ call'[c].age = scopes[u].age
      /\ \A f \in Fields \ {"pc", "slice", "age"} : call'[c][f] = call[c][f]
  BY <1>1, FieldNames DEF CallInv, CallType, ScopeHit
<1>4. /\ call'[c].todo = call[c].todo /\ call'[c].req = call[c].req
      /\ call'[c].read = call[c].read /\ call'[c].kept = call[c].kept
      /\ call'[c].seen = call[c].seen /\ call'[c].answer = call[c].answer
  BY <1>3, FieldNames
<1>5. /\ Who(c)' = u /\ Posted(c)' = Posted(c) /\ Asked(c)' = Asked(c) /\ Scoped(c)'
      /\ Slice(c)' = heap[scopes[u].ref] /\ ResolvedFor(heap[scopes[u].ref], u)
  BY <1>1, <1>2, <1>3, <1>4 DEF Who, Posted, Asked, Scoped, Slice, ScopeEntryInv
<1>6. scopes[u].ref \in Ref /\ scopes[u].ref # 0
  BY <1>2 DEF ScopeEntryInv, Ref
<1>7. CallType(c)'
  BY <1>1, <1>2, <1>3, <1>4, <1>6 DEF CallInv, CallType, ScopeEntryInv
<1>8. PlaceInv(c)'
  BY <1>1, <1>3, <1>4, <1>5, <1>6 DEF CallInv, PlaceInv, At, Held, Narrowed, Unshared
<1>9. LoopInv(c)'
  <2>1. Len(Slice(c)'.ids) >= 1 /\ Len(Slice(c)'.ids) \in Nat
    BY <1>5, <1>6 DEF ResolvedFor, Inv, HeapInv, SliceType
  <2>2. call'[c].read = 0 /\ call'[c].kept = 0 /\ call'[c].seen = {}
    BY <1>1, <1>4 DEF CallInv, LoopInv, At
  <2> QED BY <1>3, <1>5, <2>1, <2>2 DEF LoopInv, At, Held, Passed, Narrowed
<1>10. AgeInv(c)'
  BY <1>2, <1>3, Limits DEF AgeInv, Resolving, ScopeEntryInv
<1>11. AnswerInv(c)'
  BY <1>3 DEF AnswerInv, At, Narrowed
<1> QED BY <1>1, <1>2, <1>3, <1>7, <1>8, <1>9, <1>10, <1>11, QuietStepInv DEF CallInv

LEMMA ListAnsweredInv ==
    ASSUME Inv, NEW c \in Call, ListAnswered(c)
    PROVE  Inv' /\ StepOf(c)
<1> DEFINE u == Who(c)
<1>1. CallInv(c) /\ At(c, "list") /\ DOMAIN call = Call /\ UNCHANGED <<scopes, heap, results>>
  BY DEF Inv, ListAnswered
<1>2. u \in Caller
  BY <1>1, Requests DEF CallInv, PlaceInv, At, Who
<1>3. /\ call' = [call EXCEPT ![c] = call'[c]] /\ DOMAIN call'[c] = Fields
      /\ call'[c].pc = "children" /\ call'[c].todo = Children[u]
      /\ \A f \in Fields \ {"pc", "todo"} : call'[c][f] = call[c][f]
  BY <1>1, FieldNames DEF CallInv, CallType, ListAnswered
<1>4. /\ call'[c].slice = call[c].slice /\ call'[c].req = call[c].req
      /\ call'[c].read = call[c].read /\ call'[c].kept = call[c].kept
      /\ call'[c].seen = call[c].seen /\ call'[c].answer = call[c].answer /\ call'[c].age = call[c].age
  BY <1>3, FieldNames
<1>5. /\ Who(c)' = u /\ Posted(c)' = Posted(c) /\ Asked(c)' = Asked(c) /\ (Scoped(c)' <=> Scoped(c))
      /\ Slice(c)' = Slice(c) /\ (Shared(c)' <=> Shared(c))
  BY <1>1, <1>3, <1>4, SameSlice
<1>7. CallType(c)'
  BY <1>1, <1>2, <1>3, <1>4, Callers DEF CallInv, CallType
<1>8. PlaceInv(c)'
  BY <1>1, <1>3, <1>4, <1>5 DEF CallInv, PlaceInv, At, Held, Narrowed, Unshared
<1>9. LoopInv(c)'
  <2>1. Slice(c).found = {PartitionOf[u]} /\ NoPartition \notin Range(Children[u])
    BY <1>1, <1>2, Callers DEF CallInv, LoopInv
  <2>2. Orderly(Who(c)) /\ Children[u] # << >> => NoPartition \notin Slice(c).found
    BY <1>2, <2>1 DEF Orderly, Tidy
  <2>3. RoomForChildren(c)'
    <3>1. Slice(c).ids = <<PartitionOf[u]>> /\ Len(Children[u]) \in Nat
      BY <1>1, <1>2, Callers DEF CallInv, LoopInv
    <3> QED BY <1>3, <1>5, <3>1 DEF RoomForChildren
  <2> QED BY <1>1, <1>3, <1>4, <1>5, <2>1, <2>2, <2>3 DEF CallInv, LoopInv, At, Held, Passed, Narrowed
<1>10. AgeInv(c)'
  BY <1>1, <1>3, <1>4 DEF CallInv, AgeInv, Resolving, At
<1>11. AnswerInv(c)'
  BY <1>3 DEF AnswerInv, At, Narrowed
<1> QED BY <1>1, <1>3, <1>4, <1>7, <1>8, <1>9, <1>10, <1>11, QuietStepInv DEF CallInv

LEMMA ScanInv ==
    ASSUME Inv, NEW c \in Call, Scan(c)
    PROVE  Inv' /\ StepOf(c)
<1>1. /\ CallInv(c) /\ At(c, "narrow") /\ Explicit(c) /\ ~AllRead(c) /\ DOMAIN call = Call
      /\ UNCHANGED <<scopes, heap, results>>
  BY DEF Inv, Scan
<1>2. /\ call' = [call EXCEPT ![c] = call'[c]] /\ DOMAIN call'[c] = Fields
      /\ call'[c].read = call[c].read + 1 /\ call'[c].seen = call[c].seen \cup {Element(c)}
      /\ \A f \in Fields \ {"read", "seen"} : call'[c][f] = call[c][f]
  BY <1>1, FieldNames DEF CallInv, CallType, Scan
<1>3. /\ call'[c].pc = call[c].pc /\ call'[c].slice = call[c].slice /\ call'[c].req = call[c].req
      /\ call'[c].todo = call[c].todo /\ call'[c].kept = call[c].kept
      /\ call'[c].answer = call[c].answer /\ call'[c].age = call[c].age
  BY <1>2, FieldNames
<1>4. /\ Who(c)' = Who(c) /\ Posted(c)' = Posted(c) /\ Asked(c)' = Asked(c)
      /\ (Scoped(c)' <=> Scoped(c)) /\ Slice(c)' = Slice(c) /\ (Shared(c)' <=> Shared(c))
  BY <1>1, <1>2, <1>3, SameSlice
<1>5. call[c].slice # 0 /\ call[c].slice \in Ref /\ Slice(c) \in SliceType
  BY <1>1 DEF CallInv, PlaceInv, CallType, Held, Inv, HeapInv, Slice
<1>6. /\ call[c].read + 1 \in 1..Len(Slice(c).ids)
      /\ Element(c) \in Partitions /\ Element(c) \in Range(Slice(c).ids)
  <2>1. call[c].read \in Nat /\ call[c].read <= Len(Slice(c).ids) /\ call[c].read # Len(Slice(c).ids)
    BY <1>1, <1>5 DEF CallInv, CallType, LoopInv, AllRead
  <2>2. Slice(c).ids \in Seq(Partitions)
    BY <1>5 DEF SliceType
  <2> QED BY <2>1, <2>2 DEF Element, Range
<1>7. CallType(c)'
  BY <1>1, <1>2, <1>3, <1>6 DEF CallInv, CallType
<1>8. PlaceInv(c)'
  BY <1>1, <1>3, <1>4 DEF CallInv, PlaceInv, At, Held, Narrowed, Unshared
<1>9. LoopInv(c)'
  <2>1. Orderly(Who(c)) => call'[c].seen \subseteq Slice(c).found
    BY <1>1, <1>2, <1>6 DEF CallInv, LoopInv, ResolvedFor, Held
  <2> QED BY <1>1, <1>2, <1>3, <1>4, <1>5, <1>6, <2>1 DEF CallInv, LoopInv, At, Held, Explicit
<1>10. AgeInv(c)'
  BY <1>1, <1>3 DEF CallInv, AgeInv, Resolving
<1>11. AnswerInv(c)'
  BY <1>1, <1>3 DEF AnswerInv, At, Narrowed
<1> QED BY <1>1, <1>2, <1>3, <1>7, <1>8, <1>9, <1>10, <1>11, QuietStepInv DEF CallInv

\* What a narrowed call has kept are partitions, none of them empty.
LEMMA FilterType ==
    ASSUME Inv, NEW c \in Call, Narrowed(c)
    PROVE  /\ Range(Filter(c)) \subseteq Partitions \ {NoPartition}
           /\ Orderly(Who(c)) => Range(Filter(c)) = Scope(c)
<1>1. CallInv(c)
  BY DEF Inv
<1>2. CASE call[c].slice = 0
  BY <1>1, <1>2 DEF Filter, Scope, Range
<1>3. CASE call[c].slice # 0
  <2> DEFINE ids == Slice(c).ids
  <2>1. ids \in Seq(Partitions)
    BY <1>1, <1>3 DEF CallInv, CallType, Slice, Inv, HeapInv, SliceType
  <2>2. /\ call[c].kept \in Nat /\ call[c].kept <= Len(ids)
        /\ \A i \in 1..call[c].kept : ids[i] # NoPartition
    BY <1>1, <1>3 DEF CallInv, CallType, LoopInv
  <2>3. Filter(c) = SubSeq(ids, 1, call[c].kept)
    BY <1>3 DEF Filter
  <2> HIDE DEF ids
  <2>4. DOMAIN Filter(c) = 1..call[c].kept /\ \A i \in 1..call[c].kept : Filter(c)[i] = ids[i]
    BY <2>1, <2>2, <2>3
  <2>5. \A i \in 1..call[c].kept : ids[i] \in Partitions
    BY <2>1, <2>2
  <2>6. Range(Filter(c)) \subseteq Partitions \ {NoPartition}
    BY <2>2, <2>4, <2>5 DEF Range
  <2> QED BY <1>1, <1>3, <2>6 DEF CallInv, AnswerInv
<1> QED BY <1>2, <1>3

LEMMA TenantFilterType ==
    ASSUME NEW c \in Call, Who(c) \in Caller, NEW parts \in SUBSET (Partitions \ {NoPartition}),
           NEW b \in DOMAIN Body
    PROVE  [body |-> b, filter |-> TenantFilter(c, parts)] \in Answer
  BY Callers DEF TenantFilter, Answer

LEMMA FilterFields ==
    ASSUME NEW c, NEW parts
    PROVE  /\ TenantFilter(c, parts).scoped <=> Scoped(c)
           /\ TenantFilter(c, parts).tenant = TenantOf[Who(c)]
           /\ TenantFilter(c, parts).parts = parts
  BY DEF TenantFilter, Scoped

LEMMA FilterIs ==
    ASSUME NEW c, NEW parts, NEW a \in Answer,
           a.filter.scoped <=> Scoped(c), a.filter.tenant = TenantOf[Who(c)], a.filter.parts = parts
    PROVE  a.filter = TenantFilter(c, parts)
<1>1. /\ a.filter.scoped \in BOOLEAN
      /\ a.filter = [scoped |-> a.filter.scoped, tenant |-> a.filter.tenant, parts |-> a.filter.parts]
  BY DEF Answer
<1>2. (TenantOf[Who(c)] # NoTenant) \in BOOLEAN
  OBVIOUS
<1>3. a.filter.scoped = (TenantOf[Who(c)] # NoTenant)
  BY <1>1, <1>2 DEF Scoped
<1> QED BY <1>1, <1>3 DEF TenantFilter

LEMMA HitInv ==
    ASSUME Inv, NEW c \in Call, Hit(c)
    PROVE  Inv' /\ StepOf(c)
<1> DEFINE k == QueryKey(c)
<1>1. /\ CallInv(c) /\ At(c, "lookup") /\ DOMAIN call = Call /\ Narrowed(c)
      /\ UNCHANGED <<scopes, heap, results>>
  BY DEF Inv, Hit, At, Narrowed
<1>2. ResultInv(k)
  BY DEF Hit, ResultFresh, Inv
<1>3. /\ call' = [call EXCEPT ![c] = call'[c]] /\ DOMAIN call'[c] = Fields
      /\ call'[c].pc = "returned" /\ call'[c].answer = results[k].answer
      /\ \A f \in Fields \ {"pc", "answer"} : call'[c][f] = call[c][f]
  BY <1>1, FieldNames DEF CallInv, CallType, Hit
<1>4. /\ call'[c].slice = call[c].slice /\ call'[c].req = call[c].req
      /\ call'[c].todo = call[c].todo /\ call'[c].read = call[c].read /\ call'[c].kept = call[c].kept
      /\ call'[c].seen = call[c].seen /\ call'[c].age = call[c].age
  BY <1>3, FieldNames
<1>5. /\ Who(c)' = Who(c) /\ Posted(c)' = Posted(c) /\ Asked(c)' = Asked(c)
      /\ (Scoped(c)' <=> Scoped(c)) /\ Slice(c)' = Slice(c) /\ (Shared(c)' <=> Shared(c))
      /\ Scope(c)' = Scope(c) /\ Filter(c)' = Filter(c)
  BY <1>1, <1>3, <1>4, SameSlice
<1>7. CallType(c)'
  BY <1>1, <1>2, <1>3, <1>4 DEF CallInv, CallType, ResultInv
<1>8. PlaceInv(c)'
  BY <1>1, <1>3, <1>4, <1>5 DEF CallInv, PlaceInv, At, Held, Narrowed, Unshared
<1>9. LoopInv(c)'
  BY <1>1, <1>3, <1>4, <1>5 DEF CallInv, LoopInv, At, Held, Passed, Narrowed
<1>10. AgeInv(c)'
  BY <1>1, <1>3, <1>4 DEF CallInv, AgeInv, Resolving, At
<1>11. AnswerInv(c)'
  <2>1. k[1] = TenantOf[Who(c)] /\ k[2] = Counts(c) /\ k[3] = BodyKey[Posted(c)]
    BY DEF QueryKey
  <2>2. DOMAIN Counts(c) = Range(Filter(c))
    BY DEF Counts
  <2>3. Orderly(Who(c)) => results[k].answer.filter = TenantFilter(c, Scope(c))
    <3>1. /\ results[k].answer \in Answer
          /\ results[k].answer.filter.scoped <=> Scoped(c)
          /\ results[k].answer.filter.tenant = TenantOf[Who(c)]
      BY <1>2, <2>1 DEF ResultInv, Scoped
    <3>2. Orderly(Who(c)) => results[k].answer.filter.parts = Scope(c)
      BY <1>1, <1>2, <2>1, <2>2, FilterType DEF ResultInv, Orderly
    <3> QED BY <3>1, <3>2, FilterIs
  <2>4. TenantFilter(c, Scope(c))' = TenantFilter(c, Scope(c))
    BY <1>5 DEF TenantFilter
  <2>5. Orderly(Who(c)) /\ call[c].slice # 0 => Range(Filter(c)) = Scope(c) /\ Scope(c) \subseteq Slice(c).found
    BY <1>1 DEF CallInv, AnswerInv
  <2>6. /\ results[k].answer.body \in DOMAIN Body
        /\ BodyKey[results[k].answer.body] = BodyKey[Posted(c)]
        /\ results[k].answer.filter.scoped <=> Scoped(c)
        /\ results[k].answer.filter.tenant = TenantOf[Who(c)]
    BY <1>2, <2>1 DEF ResultInv, Scoped
  <2> HIDE DEF k
  <2> QED BY <1>3, <1>4, <1>5, <2>3, <2>4, <2>5, <2>6 DEF AnswerInv, At, Narrowed
<1> QED BY <1>1, <1>3, <1>4, <1>7, <1>8, <1>9, <1>10, <1>11, QuietStepInv DEF CallInv

LEMMA MissInv ==
    ASSUME Inv, NEW c \in Call, Miss(c)
    PROVE  Inv' /\ StepOf(c)
<1>1. /\ CallInv(c) /\ At(c, "lookup") /\ DOMAIN call = Call
      /\ UNCHANGED <<scopes, heap, results>>
  BY DEF Inv, Miss
<1>3. /\ call' = [call EXCEPT ![c] = call'[c]] /\ DOMAIN call'[c] = Fields
      /\ call'[c].pc = "ask" /\ call'[c].key = QueryKey(c)
      /\ \A f \in Fields \ {"pc", "key"} : call'[c][f] = call[c][f]
  BY <1>1, FieldNames DEF CallInv, CallType, Miss
<1>4. /\ call'[c].slice = call[c].slice /\ call'[c].req = call[c].req
      /\ call'[c].todo = call[c].todo /\ call'[c].read = call[c].read /\ call'[c].kept = call[c].kept
      /\ call'[c].seen = call[c].seen /\ call'[c].age = call[c].age
      /\ call'[c].answer = call[c].answer
  BY <1>3, FieldNames
<1>5. /\ Who(c)' = Who(c) /\ Posted(c)' = Posted(c) /\ Asked(c)' = Asked(c)
      /\ (Scoped(c)' <=> Scoped(c)) /\ Slice(c)' = Slice(c) /\ (Shared(c)' <=> Shared(c))
      /\ Scope(c)' = Scope(c) /\ Filter(c)' = Filter(c) /\ QueryKey(c)' = QueryKey(c)
  BY <1>1, <1>3, <1>4, SameSlice
<1>7. CallType(c)'
  BY <1>1, <1>3, <1>4 DEF CallInv, CallType
<1>8. PlaceInv(c)'
  BY <1>1, <1>3, <1>4, <1>5 DEF CallInv, PlaceInv, At, Held, Narrowed, Unshared
<1>9. LoopInv(c)'
  BY <1>1, <1>3, <1>4, <1>5 DEF CallInv, LoopInv, At, Held, Passed, Narrowed
<1>10. AgeInv(c)'
  BY <1>1, <1>3, <1>4 DEF CallInv, AgeInv, Resolving, At
<1>11. AnswerInv(c)'
  <2>1. QueryKey(c)[1] = TenantOf[Who(c)] /\ QueryKey(c)[3] = BodyKey[Posted(c)]
    BY DEF QueryKey
  <2>2. Orderly(Who(c)) /\ call[c].slice # 0 => Range(Filter(c)) = Scope(c) /\ Scope(c) \subseteq Slice(c).found
    BY <1>1 DEF CallInv, AnswerInv, At, Narrowed
  <2> QED BY <1>3, <1>4, <1>5, <2>1, <2>2 DEF AnswerInv, At, Narrowed
<1> QED BY <1>1, <1>3, <1>4, <1>7, <1>8, <1>9, <1>10, <1>11, QuietStepInv DEF CallInv

LEMMA AskBackendInv ==
    ASSUME Inv, NEW c \in Call, AskBackend(c)
    PROVE  Inv' /\ StepOf(c)
<1>1. /\ CallInv(c) /\ At(c, "ask") /\ Narrowed(c) /\ DOMAIN call = Call
      /\ UNCHANGED <<scopes, heap, results>>
  BY DEF Inv, AskBackend, At, Narrowed
<1>2. Who(c) \in Caller /\ Posted(c) \in DOMAIN Body
  BY <1>1, Requests DEF CallInv, PlaceInv, At, Who, Posted
<1>3. /\ call' = [call EXCEPT ![c] = call'[c]] /\ DOMAIN call'[c] = Fields
      /\ call'[c].pc = "fetching"
      /\ call'[c].answer = [body |-> Posted(c), filter |-> TenantFilter(c, Range(Filter(c)))]
      /\ \A f \in Fields \ {"pc", "answer"} : call'[c][f] = call[c][f]
  BY <1>1, FieldNames DEF CallInv, CallType, AskBackend
<1>4. /\ call'[c].slice = call[c].slice /\ call'[c].req = call[c].req
      /\ call'[c].todo = call[c].todo /\ call'[c].read = call[c].read /\ call'[c].kept = call[c].kept
      /\ call'[c].seen = call[c].seen /\ call'[c].age = call[c].age
      /\ call'[c].key = call[c].key
  BY <1>3, FieldNames
<1>5. /\ Who(c)' = Who(c) /\ Posted(c)' = Posted(c) /\ Asked(c)' = Asked(c)
      /\ (Scoped(c)' <=> Scoped(c)) /\ Slice(c)' = Slice(c) /\ (Shared(c)' <=> Shared(c))
      /\ Scope(c)' = Scope(c) /\ Filter(c)' = Filter(c) /\ QueryKey(c)' = QueryKey(c)
  BY <1>1, <1>3, <1>4, SameSlice
<1>6. call'[c].answer \in Answer
  BY <1>1, <1>2, <1>3, FilterType, TenantFilterType
<1>7. CallType(c)'
  BY <1>1, <1>3, <1>4, <1>6 DEF CallInv, CallType
<1>8. PlaceInv(c)'
  BY <1>1, <1>3, <1>4, <1>5 DEF CallInv, PlaceInv, At, Held, Narrowed, Unshared
<1>9. LoopInv(c)'
  BY <1>1, <1>3, <1>4, <1>5 DEF CallInv, LoopInv, At, Held, Passed, Narrowed
<1>10. AgeInv(c)'
  BY <1>1, <1>3, <1>4 DEF CallInv, AgeInv, Resolving, At
<1>11. AnswerInv(c)'
  <2>1. TenantFilter(c, Scope(c))' = TenantFilter(c, Scope(c))
    BY <1>5 DEF TenantFilter
  <2>2. Orderly(Who(c)) => call'[c].answer.filter = TenantFilter(c, Scope(c))
    BY <1>1, <1>3, FilterType
  <2>3. /\ call'[c].answer.body = Posted(c)
        /\ call'[c].answer.filter.scoped <=> Scoped(c)
        /\ call'[c].answer.filter.tenant = TenantOf[Who(c)]
    BY <1>3, FilterFields
  <2>4. /\ call[c].key[1] = TenantOf[Who(c)] /\ call[c].key[3] = BodyKey[Posted(c)]
        /\ Orderly(Who(c)) => call[c].key = QueryKey(c)
        /\ Orderly(Who(c)) /\ call[c].slice # 0 => Range(Filter(c)) = Scope(c) /\ Scope(c) \subseteq Slice(c).found
    BY <1>1 DEF CallInv, AnswerInv, At
  <2> QED BY <1>3, <1>4, <1>5, <2>1, <2>2, <2>3, <2>4 DEF AnswerInv, At, Narrowed
<1> QED BY <1>1, <1>3, <1>4, <1>7, <1>8, <1>9, <1>10, <1>11, QuietStepInv DEF CallInv

(***************************************************************************)
(* A call ends: its slice is collected only if nobody else holds it.       *)
(***************************************************************************)
LEMMA LeaveInv ==
    ASSUME Inv, NEW c \in Call, Leave(c)
    PROVE  Inv' /\ StepOf(c)
<1>1. /\ DOMAIN call = Call /\ UNCHANGED <<scopes, results>>
      /\ call' = [call EXCEPT ![c] = Idle] /\ heap' = Released(c)
  BY DEF Inv, Leave
<1>2. /\ call' = [call EXCEPT ![c] = call'[c]] /\ call'[c] = Idle
  BY <1>1
<1>3. ASSUME NEW r \in Ref, Shared(c) \/ r # call[c].slice
      PROVE  heap'[r] = heap[r]
  BY <1>1, <1>3 DEF Released
<1>4. HeapInv'
  <2>1. NoSlice \in SliceType
    BY DEF NoSlice, SliceType
  <2> QED BY <1>1, <2>1 DEF Released, Inv, HeapInv
<1>5. \A d \in Call \ {c} : call[d].slice # 0 => heap'[call[d].slice] = heap[call[d].slice]
  BY <1>3 DEF Inv, CallInv, CallType, Shared
<1>6. \A u \in DOMAIN scopes : heap'[scopes[u].ref] = heap[scopes[u].ref]
  BY <1>3 DEF Inv, ScopeEntryInv, Shared
<1>7. StepOf(c)
  <2>1. call'[c].slice = 0
    BY <1>2 DEF Idle
  <2> QED BY <1>1, <1>2, <1>5, <2>1, KinSame DEF StepOf
<1>8. /\ call'[c].pc = "idle" /\ call'[c].req = << >> /\ call'[c].slice = 0 /\ call'[c].todo = << >>
      /\ call'[c].read = 0 /\ call'[c].kept = 0 /\ call'[c].seen = {}
      /\ call'[c].answer = NoAnswer /\ call'[c].age = 0 /\ DOMAIN call'[c] = Fields
  BY <1>2 DEF Idle, Fields
<1>9. CallInv(c)'
  <2>1. CallType(c)'
    BY <1>8, NoAnswerType DEF CallType
  <2>2. PlaceInv(c)'
    BY <1>8 DEF PlaceInv, At, Held, Narrowed, Unshared
  <2>3. LoopInv(c)'
    BY <1>8 DEF LoopInv, At, Held, Passed, Narrowed
  <2>4. AgeInv(c)' /\ AnswerInv(c)'
    BY <1>8, Limits DEF AgeInv, AnswerInv, At, Resolving, Narrowed
  <2> QED BY <2>1, <2>2, <2>3, <2>4 DEF CallInv
<1> QED BY <1>1, <1>4, <1>6, <1>7, <1>9, StepInv, KinSame

LEMMA ScopeMissInv ==
    ASSUME Inv, NEW c \in Call, ScopeMiss(c)
    PROVE  Inv' /\ StepOf(c)
<1> DEFINE u == Who(c)
           own == PartitionOf[u]
           fresh == [ids |-> <<own>>, found |-> {own}]
<1>1. /\ CallInv(c) /\ At(c, "resolve") /\ Scoped(c) /\ DOMAIN call = Call
      /\ UNCHANGED <<scopes, results>>
  BY DEF Inv, ScopeMiss, Scoped
<1>2. call[c].slice = 0 /\ u \in Caller
  BY <1>1, Requests DEF CallInv, PlaceInv, At, Held, Narrowed, Who
<1>3. NewRef \in Ref /\ NewRef \notin Refs /\ NewRef # 0
  BY <1>2, NewRefIsFree DEF Ref
<1>4. own \in Partitions /\ fresh \in SliceType /\ Len(Children[u]) \in Nat
  BY <1>2, Callers DEF SliceType
<1>5. heap' = [heap EXCEPT ![NewRef] = fresh]
  BY DEF ScopeMiss
<1>6. /\ call' = [call EXCEPT ![c] = call'[c]] /\ DOMAIN call'[c] = Fields
      /\ call'[c].pc = "list" /\ call'[c].slice = NewRef
      /\ \A f \in Fields \ {"pc", "slice"} : call'[c][f] = call[c][f]
  BY <1>1, FieldNames DEF CallInv, CallType, ScopeMiss
<1>7. /\ call'[c].todo = call[c].todo /\ call'[c].req = call[c].req
      /\ call'[c].read = call[c].read /\ call'[c].kept = call[c].kept
      /\ call'[c].seen = call[c].seen /\ call'[c].answer = call[c].answer /\ call'[c].age = call[c].age
  BY <1>6, FieldNames
<1>8. HeapInv'
  BY <1>3, <1>4, <1>5 DEF Inv, HeapInv
<1>9. \A d \in Call : call[d].slice # 0 => heap'[call[d].slice] = heap[call[d].slice]
  BY <1>3, <1>5 DEF Inv, HeapInv, CallInv, CallType, Refs
<1>10. \A v \in DOMAIN scopes : heap'[scopes[v].ref] = heap[scopes[v].ref]
  BY <1>3, <1>5 DEF Inv, HeapInv, ScopeEntryInv, Refs
<1>11. StepOf(c)
  BY <1>1, <1>3, <1>6, <1>9, KinSame DEF StepOf
<1>12. /\ Who(c)' = u /\ Posted(c)' = Posted(c) /\ Asked(c)' = Asked(c) /\ Scoped(c)'
       /\ Slice(c)' = fresh
  <2>1. heap'[NewRef] = fresh
    BY <1>3, <1>5 DEF Inv, HeapInv
  <2> QED BY <1>1, <1>6, <1>7, <2>1 DEF Who, Posted, Asked, Scoped, Slice
<1>13. ~Shared(c)'
  BY <1>1, <1>3, <1>6 DEF Shared, Refs
<1> HIDE DEF u
<1>14. CallType(c)'
  BY <1>1, <1>3, <1>6, <1>7 DEF CallInv, CallType
<1>15. PlaceInv(c)'
  BY <1>1, <1>3, <1>6, <1>7, <1>12, <1>13 DEF CallInv, PlaceInv, At, Held, Narrowed, Unshared
<1>16. LoopInv(c)'
  <2>1. Len(fresh.ids) = 1 /\ Range(fresh.ids) = {own} /\ fresh.found = {own}
    BY DEF Range
  <2>2. ResolvedFor(fresh, u)
    BY <1>4, <2>1 DEF ResolvedFor, Settled
  <2>3. call'[c].read = 0 /\ call'[c].kept = 0 /\ call'[c].seen = {}
    BY <1>1, <1>7 DEF CallInv, LoopInv, At
  <2> HIDE DEF fresh
  <2> QED BY <1>6, <1>12, <2>1, <2>2, <2>3 DEF LoopInv, At, Held, fresh
<1>17. AgeInv(c)'
  BY <1>1, <1>6, <1>7, Limits DEF CallInv, AgeInv, At, Resolving
<1>18. AnswerInv(c)'
  BY <1>6 DEF AnswerInv, At, Narrowed
<1> QED BY <1>1, <1>8, <1>10, <1>11, <1>14, <1>15, <1>16, <1>17, <1>18, StepInv, KinSame DEF CallInv

LEMMA ChildResolvedInv ==
    ASSUME Inv, NEW c \in Call, ChildResolved(c)
    PROVE  Inv' /\ StepOf(c)
<1> DEFINE s == call[c].slice
           child == Head(call[c].todo)
           more == [Slice(c) EXCEPT !.ids = Append(@, child), !.found = @ \cup {child}]
<1>1. /\ CallInv(c) /\ At(c, "children") /\ call[c].todo # << >> /\ DOMAIN call = Call
      /\ UNCHANGED <<scopes, results>>
      /\ call' = [call EXCEPT ![c].todo = Tail(@)]
      /\ heap' = [heap EXCEPT ![s] = more] \/ heap' = heap
  BY DEF Inv, ChildResolved
<1>2. /\ s \in Ref /\ s # 0 /\ ~Shared(c) /\ Slice(c) \in SliceType /\ Held(c)
  BY <1>1 DEF CallInv, CallType, PlaceInv, Held, Unshared, At, Inv, HeapInv, Slice
<1>3. /\ call' = [call EXCEPT ![c] = call'[c]] /\ DOMAIN call'[c] = Fields
      /\ call'[c].todo = Tail(call[c].todo)
      /\ \A f \in Fields \ {"todo"} : call'[c][f] = call[c][f]
  BY <1>1, FieldNames DEF CallInv, CallType
<1>4. /\ call'[c].pc = call[c].pc /\ call'[c].slice = s /\ call'[c].req = call[c].req
      /\ call'[c].read = call[c].read /\ call'[c].kept = call[c].kept
      /\ call'[c].seen = call[c].seen /\ call'[c].answer = call[c].answer /\ call'[c].age = call[c].age
  BY <1>3, FieldNames
<1>5. /\ child \in Partitions /\ child # NoPartition
      /\ Tail(call[c].todo) \in Seq(Partitions) /\ NoPartition \notin Range(Tail(call[c].todo))
      /\ Len(call[c].todo) \in Nat /\ Len(Tail(call[c].todo)) = Len(call[c].todo) - 1
  <2>1. call[c].todo \in Seq(Partitions) /\ NoPartition \notin Range(call[c].todo)
    BY <1>1 DEF CallInv, CallType, LoopInv
  <2>2. /\ Head(call[c].todo) \in Range(call[c].todo)
        /\ Tail(call[c].todo) \in Seq(Partitions)
        /\ Len(call[c].todo) \in Nat /\ Len(Tail(call[c].todo)) = Len(call[c].todo) - 1
        /\ Range(Tail(call[c].todo)) \subseteq Range(call[c].todo)
    BY <1>1, <2>1, HeadAndTail
  <2>3. Range(call[c].todo) \subseteq Partitions
    BY <2>1 DEF Range
  <2> HIDE DEF child
  <2>4. child \in Range(call[c].todo)
    BY <2>2 DEF child
  <2> QED BY <2>1, <2>2, <2>3, <2>4
<1>6. /\ more.ids = Append(Slice(c).ids, child) /\ more.found = Slice(c).found \cup {child}
      /\ more \in SliceType
  <2> DEFINE old == Slice(c)
             ids == Append(old.ids, child)
             found == old.found \cup {child}
  <2>1. old \in SliceType /\ more = [old EXCEPT !.ids = ids, !.found = found]
    BY <1>2
  <2>2. ids \in Seq(Partitions) /\ found \in SUBSET Partitions
    BY <1>5, <2>1 DEF SliceType
  <2> HIDE DEF old, ids, found, more
  <2>3. more.ids = ids /\ more.found = found /\ more \in SliceType
    BY <2>1, <2>2 DEF SliceType
  <2> QED BY <2>3 DEF old, ids, found
<1> HIDE DEF more, child
<1>7. Slice(c)' = more \/ Slice(c)' = Slice(c)
  BY <1>1, <1>2, <1>4 DEF Slice, Inv, HeapInv
<1>8. HeapInv'
  BY <1>1, <1>2, <1>6 DEF Inv, HeapInv
<1>9. \A d \in Call \ {c} : call[d].slice # 0 => heap'[call[d].slice] = heap[call[d].slice]
  BY <1>1, <1>2 DEF Inv, HeapInv, Shared, CallInv, CallType
<1>10. \A v \in DOMAIN scopes : heap'[scopes[v].ref] = heap[scopes[v].ref]
  BY <1>1, <1>2 DEF Inv, HeapInv, Shared, ScopeEntryInv
<1>11. StepOf(c)
  BY <1>1, <1>3, <1>4, <1>9, KinSame DEF StepOf
<1>12. /\ Who(c)' = Who(c) /\ Posted(c)' = Posted(c) /\ Asked(c)' = Asked(c)
       /\ (Scoped(c)' <=> Scoped(c)) /\ ~Shared(c)'
  BY <1>1, <1>2, <1>3, <1>4 DEF Who, Posted, Asked, Scoped, Shared
<1>13. CallType(c)'
  BY <1>1, <1>3, <1>4, <1>5 DEF CallInv, CallType
<1>14. PlaceInv(c)'
  BY <1>1, <1>4, <1>12 DEF CallInv, PlaceInv, At, Held, Narrowed, Unshared
<1>15. LoopInv(c)'
  <2>1. /\ ResolvedFor(Slice(c), Who(c))
        /\ Orderly(Who(c)) => NoPartition \notin Slice(c).found
        /\ call[c].read = 0 /\ call[c].kept = 0 /\ call[c].seen = {}
        /\ Len(Slice(c).ids) + Len(call[c].todo) <= Len(Children[Who(c)]) + 1
    BY <1>1, <1>2 DEF CallInv, LoopInv, At, RoomForChildren
  <2>6. Who(c) \in Caller /\ Len(Children[Who(c)]) \in Nat
    <3>1. Who(c) \in Caller
      BY <1>1, Requests DEF CallInv, PlaceInv, At, Who
    <3> QED BY <3>1, Callers
  <2>2. Len(more.ids) = Len(Slice(c).ids) + 1 /\ Len(Slice(c).ids) \in Nat
    BY <1>2, <1>6 DEF SliceType
  <2>3. Range(more.ids) = Range(Slice(c).ids) \cup {child}
    <3> DEFINE ids == Slice(c).ids
    <3>1. ids \in Seq(Partitions) /\ more.ids = Append(ids, child)
      BY <1>2, <1>6 DEF SliceType
    <3> HIDE DEF ids
    <3>2. /\ DOMAIN more.ids = 1..(Len(ids) + 1) /\ DOMAIN ids = 1..Len(ids) /\ Len(ids) \in Nat
          /\ \A i \in 1..Len(ids) : more.ids[i] = ids[i]
          /\ more.ids[Len(ids) + 1] = child
      BY <3>1
    <3>3. \A i \in 1..(Len(ids) + 1) : i \in 1..Len(ids) \/ i = Len(ids) + 1
      BY <3>2
    <3>4. \A i \in 1..Len(ids) : i \in 1..(Len(ids) + 1)
      BY <3>2
    <3> QED BY <3>2, <3>3, <3>4 DEF Range, ids
  <2>4. ResolvedFor(more, Who(c)) /\ (Orderly(Who(c)) => NoPartition \notin more.found)
    <3>1. Len(call[c].todo) >= 1
      BY <1>1, <1>5
    <3>2. Len(more.ids) >= 1 /\ Len(more.ids) <= Len(Children[Who(c)]) + 1
      <4> DEFINE held == Len(Slice(c).ids)
                 rest == Len(call[c].todo)
                 sons == Len(Children[Who(c)])
      <4>1. /\ held \in Nat /\ rest \in Nat /\ sons \in Nat /\ rest >= 1
            /\ held >= 1 /\ held + rest <= sons + 1 /\ Len(more.ids) = held + 1
        BY <1>5, <2>1, <2>6, <2>2, <3>1 DEF ResolvedFor
      <4> HIDE DEF held, rest, sons
      <4>2. held + 1 >= 1 /\ held + 1 <= sons + 1
        BY ONLY <4>1
      <4> QED BY ONLY <4>1, <4>2 DEF sons
    <3> QED BY <1>5, <1>6, <2>1, <2>2, <2>3, <3>2 DEF ResolvedFor, Settled
  <2>5. /\ ResolvedFor(Slice(c)', Who(c)) /\ (Orderly(Who(c)) => NoPartition \notin Slice(c)'.found)
        /\ Len(Slice(c)'.ids) \in Nat
        /\ Len(Slice(c)'.ids) + Len(Tail(call[c].todo)) <= Len(Children[Who(c)]) + 1
    <3>1. Len(Slice(c)'.ids) \in {Len(Slice(c).ids), Len(Slice(c).ids) + 1}
      BY <1>7, <2>2
    <3>2. Len(Slice(c)'.ids) + Len(Tail(call[c].todo)) <= Len(Children[Who(c)]) + 1
      <4> DEFINE held == Len(Slice(c).ids)
                 rest == Len(call[c].todo)
                 sons == Len(Children[Who(c)])
                 now == Len(Slice(c)'.ids)
                 then == Len(Tail(call[c].todo))
      <4>1. /\ held \in Nat /\ rest \in Nat /\ sons \in Nat /\ then = rest - 1
            /\ held + rest <= sons + 1 /\ now \in {held, held + 1}
        BY <1>5, <2>1, <2>6, <2>2, <3>1
      <4> HIDE DEF held, rest, sons, now, then
      <4>2. now + then <= sons + 1
        BY ONLY <4>1
      <4> QED BY ONLY <4>2 DEF now, then, sons
    <3>3. Len(Slice(c)'.ids) \in Nat
      BY <2>2, <3>1
    <3>4. ResolvedFor(Slice(c)', Who(c)) /\ (Orderly(Who(c)) => NoPartition \notin Slice(c)'.found)
      BY <1>7, <2>1, <2>4
    <3> QED BY <3>2, <3>3, <3>4
  <2>7. /\ call'[c].pc = "children" /\ call'[c].todo = Tail(call[c].todo)
        /\ call'[c].read = 0 /\ call'[c].kept = 0 /\ call'[c].seen = {}
    BY <1>1, <1>3, <1>4, <2>1 DEF At
  <2>8. call[c].todo # << >>
    BY <1>1
  <2>9. RoomForChildren(c)'
    BY <1>12, <2>5, <2>7 DEF RoomForChildren
  <2>10. /\ ResolvedFor(Slice(c)', Who(c)) /\ (Orderly(Who(c)) => NoPartition \notin Slice(c)'.found)
         /\ Len(Slice(c)'.ids) \in Nat
    BY <2>5
  <2> HIDE DEF s
  <2> QED BY <1>5, <1>12, <2>7, <2>8, <2>9, <2>10 DEF LoopInv, At, Held, Passed, Narrowed
<1>16. AgeInv(c)'
  BY <1>1, <1>4 DEF CallInv, AgeInv, Resolving
<1>17. AnswerInv(c)'
  BY <1>1, <1>4 DEF AnswerInv, At, Narrowed
<1> QED BY <1>1, <1>8, <1>10, <1>11, <1>13, <1>14, <1>15, <1>16, <1>17, StepInv, KinSame DEF CallInv

-----------------------------------------------------------------------------
(***************************************************************************)
(* A scope that is not the wildcard's gets a slice of its own: ids, of the *)
(* partitions asked for, which were found.                                 *)
(***************************************************************************)
LEMMA PrivatelyInv ==
    ASSUME Inv, NEW c \in Call, At(c, "narrow"), Asked(c) # All,
           NEW ids \in Seq(Partitions), Range(ids) = Scope(c), NoPartition \notin Range(ids),
           Orderly(Who(c)) => Scope(c) \subseteq Slice(c).found, Privately(c, ids)
    PROVE  Inv' /\ StepOf(c)
<1> DEFINE s == call[c].slice
           ref == IF Shared(c) THEN NewRef ELSE s
           own == [Slice(c) EXCEPT !.ids = ids]
<1>1. /\ CallInv(c) /\ DOMAIN call = Call /\ Held(c) /\ Scoped(c)
      /\ UNCHANGED <<scopes, results>>
      /\ heap' = [heap EXCEPT ![ref] = own]
      /\ call' = [call EXCEPT ![c] = [@ EXCEPT !.pc = "lookup", !.slice = ref, !.kept = Len(ids),
                                              !.read = 0, !.seen = {}, !.age = 0]]
  BY DEF Inv, Privately, Held, CallInv, PlaceInv
<1>2. s \in Ref /\ s # 0 /\ Slice(c) \in SliceType
  BY <1>1 DEF CallInv, CallType, PlaceInv, Inv, HeapInv, Slice
<1>3. /\ ref \in Ref /\ ref # 0
      /\ \A d \in Call \ {c} : call[d].slice # ref
      /\ \A u \in DOMAIN scopes : scopes[u].ref # ref
      /\ ref \in Refs => ref = s
  <2>1. CASE Shared(c)
    BY <2>1, NewRefIsFree DEF Refs, Ref
  <2>2. CASE ~Shared(c)
    BY <1>2, <2>2 DEF Shared, Ref
  <2> QED BY <2>1, <2>2
<1>4. /\ own.ids = ids /\ own.found = Slice(c).found /\ own \in SliceType
  <2> DEFINE old == Slice(c)
  <2>1. old \in SliceType /\ own = [old EXCEPT !.ids = ids]
    BY <1>2
  <2> HIDE DEF old, own
  <2>2. own.ids = ids /\ own.found = old.found /\ own \in SliceType
    BY <2>1 DEF SliceType
  <2> QED BY <2>2 DEF old
<1> HIDE DEF ref, own
<1>5. /\ call' = [call EXCEPT ![c] = call'[c]] /\ DOMAIN call'[c] = Fields
      /\ call'[c].pc = "lookup" /\ call'[c].slice = ref /\ call'[c].kept = Len(ids)
      /\ call'[c].read = 0 /\ call'[c].seen = {} /\ call'[c].age = 0
      /\ \A f \in {"req", "todo", "answer", "key"} : call'[c][f] = call[c][f]
  BY <1>1, FieldNames DEF CallInv, CallType
<1>6. call'[c].req = call[c].req /\ call'[c].todo = call[c].todo /\ call'[c].answer = call[c].answer
  BY <1>5
<1>7. HeapInv'
  BY <1>1, <1>3, <1>4 DEF Inv, HeapInv
<1>8. \A d \in Call \ {c} : call[d].slice # 0 => heap'[call[d].slice] = heap[call[d].slice]
  BY <1>1, <1>3 DEF Inv, HeapInv, CallInv, CallType
<1>9. \A u \in DOMAIN scopes : heap'[scopes[u].ref] = heap[scopes[u].ref]
  BY <1>1, <1>3 DEF Inv, HeapInv, ScopeEntryInv
<1>10. StepOf(c)
  BY <1>1, <1>3, <1>5, <1>8, KinSame DEF StepOf
<1>11. /\ Who(c)' = Who(c) /\ Posted(c)' = Posted(c) /\ Asked(c)' = Asked(c)
       /\ Scoped(c)' /\ ~Shared(c)' /\ Slice(c)' = own
  <2>1. ~Shared(c)'
    BY <1>1, <1>3, <1>5 DEF Shared
  <2>2. Slice(c)' = own
    BY <1>1, <1>3, <1>5 DEF Slice, Inv, HeapInv
  <2> QED BY <1>1, <1>6, <2>1, <2>2 DEF Who, Posted, Asked, Scoped
<1>12. CallType(c)'
  BY <1>1, <1>3, <1>5, <1>6 DEF CallInv, CallType
<1>13. PlaceInv(c)'
  BY <1>1, <1>3, <1>5, <1>6, <1>11 DEF CallInv, PlaceInv, At, Held, Narrowed, Unshared
<1>14. /\ Len(ids) \in Nat /\ DOMAIN ids = 1..Len(ids)
       /\ \A i \in 1..Len(ids) : ids[i] # NoPartition
  BY DEF Range
<1>15. LoopInv(c)'
  BY <1>4, <1>5, <1>11, <1>14 DEF LoopInv, At, Held, Passed, Narrowed
<1>16. AgeInv(c)'
  BY <1>5, Limits DEF AgeInv, At, Resolving
<1>17. AnswerInv(c)'
  <2>1. Filter(c)' = SubSeq(ids, 1, Len(ids))
    BY <1>3, <1>4, <1>5, <1>11 DEF Filter
  <2>2. SubSeq(ids, 1, Len(ids)) = ids
    BY <1>14
  <2>3. Scope(c)' = Scope(c)
    BY <1>1, <1>2, <1>3, <1>5, <1>11 DEF Scope
  <2> QED BY <1>4, <1>5, <1>11, <2>1, <2>2, <2>3 DEF AnswerInv, At, Narrowed
<1> QED BY <1>1, <1>7, <1>9, <1>10, <1>12, <1>13, <1>15, <1>16, <1>17, StepInv, KinSame DEF CallInv

LEMMA NarrowToOwnInv ==
    ASSUME Inv, NEW c \in Call, NarrowToOwn(c)
    PROVE  Inv' /\ StepOf(c)
<1> DEFINE own == PartitionOf[Who(c)]
           ids == NonEmpty(<<own>>)
<1>1. CallInv(c) /\ At(c, "narrow") /\ Asked(c) = Default /\ Privately(c, ids)
  BY DEF Inv, NarrowToOwn
<1>2. /\ Who(c) \in Caller /\ call[c].slice # 0 /\ Held(c)
      /\ ResolvedFor(Slice(c), Who(c))
  BY <1>1, Requests DEF CallInv, PlaceInv, LoopInv, At, Held, Who
<1>3. <<own>> \in Seq(Partitions) /\ Range(<<own>>) = {own}
  BY <1>2, Callers DEF Range
<1>4. ids \in Seq(Partitions) /\ Range(ids) = {own} \ {NoPartition}
  BY <1>3, NonEmptyRange
<1>5. Scope(c) = {own} \ {NoPartition}
  BY <1>1, <1>2, Wildcard DEF Scope
<1>6. Scope(c) \subseteq Slice(c).found
  BY <1>2, <1>5 DEF ResolvedFor
<1> HIDE DEF ids
<1> QED BY <1>1, <1>4, <1>5, <1>6, Wildcard, PrivatelyInv

LEMMA AcceptInv ==
    ASSUME Inv, NEW c \in Call, Accept(c)
    PROVE  Inv' /\ StepOf(c)
<1> DEFINE ids == NonEmpty(Asked(c))
<1>1. /\ CallInv(c) /\ At(c, "narrow") /\ Asked(c) # Default /\ Asked(c) # All
      /\ Range(Asked(c)) \subseteq call[c].seen /\ Privately(c, ids)
  BY DEF Inv, Accept, Explicit
<1>2. /\ call[c].slice # 0 /\ call[c].seen \subseteq Partitions
      /\ Orderly(Who(c)) => call[c].seen \subseteq Slice(c).found
  BY <1>1 DEF CallInv, CallType, PlaceInv, LoopInv, At, Held, Passed, Narrowed
<1>3. Asked(c) \in Seq(Range(Asked(c)))
  BY <1>1, Requests DEF CallInv, PlaceInv, At, Asked
<1>4. Asked(c) \in Seq(Partitions)
  <2> DEFINE R == Range(Asked(c))
  <2>1. Asked(c) \in Seq(R) /\ R \subseteq Partitions
    BY <1>1, <1>2, <1>3
  <2> HIDE DEF R
  <2> QED BY <2>1
<1>5. ids \in Seq(Partitions) /\ Range(ids) = Range(Asked(c)) \ {NoPartition}
  BY <1>4, NonEmptyRange
<1>6. Scope(c) = Range(Asked(c)) \ {NoPartition}
  BY <1>1, <1>2 DEF Scope
<1> HIDE DEF ids
<1> QED BY <1>1, <1>2, <1>5, <1>6, PrivatelyInv

(***************************************************************************)
(* A round of the wildcard's loop writes the shared slice: never an empty  *)
(* id, and, if nothing shifts, what was there.                             *)
(***************************************************************************)
LEMMA CompactInv ==
    ASSUME Inv, NEW c \in Call, Compact(c)
    PROVE  Inv' /\ StepOf(c)
<1> DEFINE s == call[c].slice
           old == Slice(c)
           e == Element(c)
           read == call[c].read
           keep == e # NoPartition
           kept == call[c].kept + (IF keep THEN 1 ELSE 0)
           new == heap'[s]
<1>1. /\ CallInv(c) /\ At(c, "narrow") /\ Asked(c) = All /\ DOMAIN call = Call /\ Held(c)
      /\ UNCHANGED <<scopes, results>>
      /\ heap' = IF keep THEN [heap EXCEPT ![s].ids[kept] = e] ELSE heap
      /\ call' = [call EXCEPT ![c] =
             IF LastRead(c)
             THEN [call[c] EXCEPT !.pc = "lookup", !.kept = kept, !.read = 0, !.age = 0]
             ELSE [call[c] EXCEPT !.kept = kept, !.read = @ + 1]]
  BY DEF Inv, Compact, Held
<1>2. /\ s \in Ref /\ s # 0 /\ old = heap[s] /\ old \in SliceType /\ Scoped(c)
      /\ ResolvedFor(old, Who(c))
  BY <1>1 DEF CallInv, CallType, PlaceInv, LoopInv, Inv, HeapInv, Slice
<1>3. /\ old.ids \in Seq(Partitions) /\ Len(old.ids) \in Nat /\ DOMAIN old.ids = 1..Len(old.ids)
      /\ read \in Nat /\ read < Len(old.ids)
      /\ call[c].kept \in Nat /\ call[c].kept <= read
      /\ \A i \in 1..call[c].kept : old.ids[i] # NoPartition
  <2>1. old.ids \in Seq(Partitions)
    BY <1>2 DEF SliceType
  <2>2. read \in Nat /\ call[c].kept \in Nat
    BY <1>1 DEF CallInv, CallType
  <2>3. /\ read < Len(old.ids) /\ call[c].kept <= read
        /\ \A j \in 1..call[c].kept : old.ids[j] # NoPartition
    BY <1>1, <1>2 DEF CallInv, LoopInv
  <2> HIDE DEF old, read
  <2> QED BY <2>1, <2>2, <2>3
<1>4. /\ e = old.ids[read + 1] /\ e \in Partitions /\ e \in Range(old.ids)
      /\ kept \in Nat /\ kept <= read + 1 /\ (keep => kept \in 1..Len(old.ids))
  BY <1>3 DEF Element, Range
<1>5. /\ new.ids = IF keep THEN [old.ids EXCEPT ![kept] = e] ELSE old.ids
      /\ new.found = old.found /\ DOMAIN new = DOMAIN old
      /\ \A r \in Ref : r # s => heap'[r] = heap[r]
      /\ DOMAIN heap' = Ref
  <2>1. DOMAIN old = {"ids", "found"} /\ DOMAIN heap = Ref
    BY <1>2 DEF SliceType, Inv, HeapInv
  <2> HIDE DEF e, kept
  <2>2. CASE keep
    BY <1>1, <1>2, <2>1, <2>2
  <2>3. CASE ~keep
    BY <1>1, <1>2, <2>1, <2>3
  <2> QED BY <2>2, <2>3
<1>6. \* What the write leaves, by position.
      /\ new.ids \in Seq(Partitions) /\ Len(new.ids) = Len(old.ids)
      /\ \A i \in 1..Len(old.ids) : new.ids[i] = IF keep /\ i = kept THEN e ELSE old.ids[i]
  <2> DEFINE ids == old.ids
  <2> HIDE DEF e, kept, old
  <2>1. CASE keep
    BY <1>3, <1>4, <1>5, <2>1
  <2>2. CASE ~keep
    BY <1>3, <1>4, <1>5, <2>2
  <2> QED BY <2>1, <2>2
<1> HIDE DEF e, kept, old, new
<1>7. new \in SliceType
  <2>1. old.found \in SUBSET Partitions /\ DOMAIN old = {"ids", "found"}
    BY <1>2 DEF SliceType
  <2>2. new = [ids |-> new.ids, found |-> new.found]
    <3>1. heap' = IF keep THEN [heap EXCEPT ![s] = [old EXCEPT !.ids = new.ids]] ELSE heap
      BY <1>1, <1>2, <1>5 DEF Inv, HeapInv, new
    <3>2. CASE keep
      BY <1>2, <3>1, <3>2 DEF new, SliceType, Inv, HeapInv
    <3>3. CASE ~keep
      BY <1>2, <3>1, <3>3 DEF new, SliceType, Inv, HeapInv
    <3> QED BY <3>2, <3>3
  <2> QED BY <1>5, <1>6, <2>1, <2>2 DEF SliceType
<1>8. HeapInv'
  <2>1. heap' = [r \in Ref |-> heap'[r]]
    BY <1>1, <1>2 DEF Inv, HeapInv
  <2>2. \A r \in Ref : heap'[r] \in SliceType
    BY <1>5, <1>7 DEF Inv, HeapInv, new
  <2> QED BY <2>1, <2>2 DEF HeapInv
<1>9. \* Nothing shifts: the element read is written where it was.
      ASSUME Settled(old)
      PROVE  /\ new = old
             /\ NoPartition \notin old.found => keep /\ kept = read + 1
             /\ NoPartition \in old.found =>
                   ~keep /\ kept = 0 /\ read + 1 = Len(old.ids) /\ old.ids = <<NoPartition>>
  <2>1. old.found = Range(old.ids)
    BY <1>2, <1>9 DEF ResolvedFor
  <2>2. CASE NoPartition \notin old.found
    <3>1. keep
      BY <1>4, <2>1, <2>2
    <3>2. call[c].kept = read
      BY <1>1, <2>2 DEF CallInv, LoopInv, old
    <3>3. kept = read + 1
      BY <1>3, <3>1, <3>2 DEF kept
    <3>4. \A i \in 1..Len(old.ids) : new.ids[i] = old.ids[i]
      BY <1>4, <1>6, <3>3
    <3>5. new.ids = old.ids
      BY <1>3, <1>6, <3>4
    <3>6. new = old
      BY <1>2, <1>5, <1>7, <3>5 DEF SliceType
    <3> QED BY <2>2, <3>1, <3>3, <3>6
  <2>3. CASE NoPartition \in old.found
    <3>1. Len(old.ids) = 1
      BY <1>9, <2>3 DEF Settled
    <3>2. old.ids = <<old.ids[1]>> /\ old.ids[1] = NoPartition
      BY <1>3, <2>1, <2>3, <3>1 DEF Range
    <3>3. read = 0 /\ call[c].kept = 0
      BY <1>3, <3>1
    <3>4. ~keep
      BY <1>4, <3>2, <3>3
    <3>5. kept = 0
      BY <3>3, <3>4 DEF kept
    <3>6. new = old
      BY <1>1, <1>2, <3>4 DEF new
    <3> QED BY <2>3, <3>1, <3>2, <3>3, <3>4, <3>5, <3>6
  <2> QED BY <2>2, <2>3
<1>10. Kin(old, new)
  <2>1. \A i \in 1..Len(old.ids) : old.ids[i] # NoPartition => new.ids[i] # NoPartition
    BY <1>6
  <2> QED BY <1>5, <1>6, <1>9, <2>1 DEF Kin
<1>11. \A r \in Ref : Kin(heap[r], heap'[r])
  BY <1>2, <1>5, <1>10, KinSame DEF new
<1>12. /\ call' = [call EXCEPT ![c] = call'[c]] /\ DOMAIN call'[c] = Fields
       /\ call'[c].kept = kept /\ call'[c].slice = s
       /\ LastRead(c) => call'[c].pc = "lookup" /\ call'[c].read = 0 /\ call'[c].age = 0
       /\ ~LastRead(c) => call'[c].pc = "narrow" /\ call'[c].read = read + 1 /\ call'[c].age = call[c].age
       /\ \A f \in Fields \ {"pc", "kept", "read", "age"} : call'[c][f] = call[c][f]
  <2>1. CASE LastRead(c)
    BY <1>1, <2>1, FieldNames DEF CallInv, CallType, At
  <2>2. CASE ~LastRead(c)
    BY <1>1, <2>2, FieldNames DEF CallInv, CallType, At
  <2> QED BY <2>1, <2>2
<1>13. /\ call'[c].todo = call[c].todo /\ call'[c].req = call[c].req
       /\ call'[c].seen = call[c].seen /\ call'[c].answer = call[c].answer
  BY <1>12, FieldNames
<1>14. ASSUME NEW d \in Call \ {c}, call[d].slice # 0, Unshared(d)
       PROVE  heap'[call[d].slice] = heap[call[d].slice]
  <2>1. call[d].slice # s /\ call[d].slice \in Ref
    BY <1>14 DEF Inv, CallInv, CallType, PlaceInv, Shared
  <2> QED BY <1>5, <2>1
<1>15. StepOf(c)
  <2>1. \A d \in Call \ {c} : call[d].slice # 0 => Kin(heap[call[d].slice], heap'[call[d].slice])
    BY <1>11 DEF Inv, CallInv, CallType
  <2> QED BY <1>1, <1>12, <1>14, <2>1 DEF StepOf
<1>16. /\ Who(c)' = Who(c) /\ Posted(c)' = Posted(c) /\ Asked(c)' = Asked(c) /\ Scoped(c)'
       /\ Slice(c)' = new
  BY <1>2, <1>12, <1>13 DEF Who, Posted, Asked, Scoped, Slice, new
<1>17. LastRead(c) <=> read + 1 = Len(old.ids)
  BY Zenon DEF LastRead, old, read
<1>18. CallType(c)'
  <2>1. CallType(c)
    BY <1>1 DEF CallInv
  <2> HIDE DEF kept, read, s, old
  <2>2. /\ call'[c].pc \in {"lookup", "narrow"}
        /\ call'[c].read \in Nat /\ call'[c].age \in Nat /\ call'[c].kept \in Nat
    BY <1>3, <1>4, <1>12, <2>1 DEF CallType
  <2>3. call'[c].slice \in Ref \cup {0} /\ DOMAIN call'[c] = Fields
    BY <1>2, <1>12
  <2> QED BY <1>13, <2>1, <2>2, <2>3 DEF CallType
<1>19. PlaceInv(c)'
  BY <1>1, <1>2, <1>12, <1>13, <1>16 DEF CallInv, PlaceInv, At, Held, Narrowed, Unshared
<1>20. LoopInv(c)'
  <2>1. ResolvedFor(new, Who(c))
    BY <1>2, <1>10, ResolvedStays
  <2>2. \A i \in 1..kept : new.ids[i] # NoPartition
    <3> SUFFICES ASSUME NEW i \in 1..kept PROVE new.ids[i] # NoPartition
      OBVIOUS
    <3>1. i \in 1..Len(old.ids)
      BY <1>3, <1>4
    <3>2. CASE keep /\ i = kept
      BY <1>6, <3>1, <3>2 DEF keep
    <3>3. CASE ~(keep /\ i = kept)
      <4>1. i \in 1..call[c].kept
        BY <1>3, <3>3 DEF kept
      <4> QED BY <1>3, <1>6, <3>1, <3>3, <4>1
    <3> QED BY <3>2, <3>3
  <2>3. /\ kept <= Len(new.ids) /\ call'[c].read <= Len(new.ids)
        /\ ~LastRead(c) => call'[c].read < Len(new.ids) /\ kept <= call'[c].read
        /\ ~LastRead(c) /\ NoPartition \notin new.found => kept = call'[c].read
    BY <1>3, <1>4, <1>5, <1>6, <1>9, <1>12, <1>17 DEF Settled
  <2>4. Orderly(Who(c)) => call[c].seen \subseteq new.found
    BY <1>1, <1>5 DEF CallInv, LoopInv, old
  <2>5. Asked(c)' = All
    BY <1>1, <1>16
  <2> QED BY <1>12, <1>13, <1>16, <2>1, <2>2, <2>3, <2>4, <2>5 DEF LoopInv, At, Held, Passed, Narrowed
<1>21. AgeInv(c)'
  BY <1>1, <1>12, Limits DEF CallInv, AgeInv, At, Resolving
<1>22. AnswerInv(c)'
  <2>1. ASSUME Settled(old), LastRead(c) PROVE Range(Filter(c)') = old.found \ {NoPartition}
    <3>1. Filter(c)' = SubSeq(old.ids, 1, kept) /\ old.found = Range(old.ids)
      BY <1>2, <1>9, <1>12, <1>16, <2>1 DEF Filter, ResolvedFor
    <3>2. CASE NoPartition \notin old.found
      <4>1. kept = Len(old.ids)
        BY <1>9, <1>17, <2>1, <3>2
      <4>2. SubSeq(old.ids, 1, Len(old.ids)) = old.ids
        BY <1>3
      <4> QED BY <3>1, <3>2, <4>1, <4>2
    <3>3. CASE NoPartition \in old.found
      <4>1. kept = 0 /\ old.ids = <<NoPartition>>
        BY <1>9, <2>1, <3>3
      <4>2. SubSeq(old.ids, 1, 0) = << >>
        BY <1>3
      <4>3. Range(old.ids) = {NoPartition} /\ Range(<< >>) = {}
        BY <4>1 DEF Range
      <4> QED BY <3>1, <4>1, <4>2, <4>3
    <3> QED BY <3>2, <3>3
  <2>2. Scope(c)' = old.found \ {NoPartition}
    BY <1>1, <1>2, <1>5, <1>12, <1>16, Wildcard DEF Scope
  <2>3. Slice(c)'.found = old.found
    BY <1>5, <1>16
  <2>4. Orderly(Who(c))' => Settled(old)
    BY <1>2, <1>16 DEF ResolvedFor
  <2> QED BY <1>12, <2>1, <2>2, <2>3, <2>4 DEF AnswerInv, At, Narrowed
<1>23. \A u \in DOMAIN scopes : Kin(heap[scopes[u].ref], heap'[scopes[u].ref])
  BY <1>11 DEF Inv, ScopeEntryInv
<1> QED BY <1>1, <1>8, <1>15, <1>18, <1>19, <1>20, <1>21, <1>22, <1>23, StepInv DEF CallInv

(***************************************************************************)
(* At capacity, some entry goes before one is cached.                      *)
(***************************************************************************)
LEMMA RoomForOne ==
    ASSUME Inv, NEW others \in Room, NEW u
    PROVE  /\ others \subseteq DOMAIN scopes
           /\ IsFiniteSet(others \cup {u}) /\ Cardinality(others \cup {u}) <= MaxScopes
<1> DEFINE D == DOMAIN scopes
           live == {v \in D : scopes[v].left >= 0}
           half == IF MaxScopes \div 2 = 0 THEN 1 ELSE MaxScopes \div 2
<1>1. /\ IsFiniteSet(D) /\ Cardinality(D) \in Nat /\ Cardinality(D) <= MaxScopes
      /\ MaxScopes \in Nat \ {0}
  BY Limits, FS_CardinalityType DEF Inv
<1>2. live \subseteq D /\ IsFiniteSet(live) /\ Cardinality(live) \in Nat /\ Cardinality(live) <= Cardinality(D)
  BY <1>1, FS_Subset, FS_CardinalityType
<1>3. half \in Nat /\ half >= 1
  BY <1>1
<1>4. \/ others = D /\ Cardinality(D) < MaxScopes
      \/ others = live /\ Cardinality(live) < MaxScopes
      \/ \E gone \in SUBSET live : Cardinality(gone) = half /\ others = live \ gone
  BY DEF Room
<1> HIDE DEF D, live, half
<1>5. ASSUME NEW gone \in SUBSET live, Cardinality(gone) = half
      PROVE  Cardinality(live \ gone) < MaxScopes
  <2>1. live \cap gone = gone
    OBVIOUS
  <2>2. Cardinality(live \ gone) = Cardinality(live) - half
    <3>1. Cardinality(live \ gone) = Cardinality(live) - Cardinality(live \cap gone)
      BY <1>2, FS_Difference, Zenon
    <3> QED BY <1>5, <2>1, <3>1, Zenon
  <2> DEFINE left == Cardinality(live \ gone)
             alive == Cardinality(live)
             stored == Cardinality(D)
  <2>3. left = alive - half /\ half \in Nat /\ half >= 1 /\ alive <= stored
        /\ stored <= MaxScopes /\ {alive, stored, MaxScopes} \subseteq Nat
    BY <1>1, <1>2, <1>3, <2>2
  <2> HIDE DEF left, alive, stored
  <2>4. left < MaxScopes
    BY ONLY <2>3
  <2> QED BY <2>4 DEF left
<1>6. others \subseteq D /\ Cardinality(others) < MaxScopes
  BY <1>2, <1>4, <1>5
<1>7. IsFiniteSet(others) /\ Cardinality(others) \in Nat
  BY <1>1, <1>6, FS_Subset, FS_CardinalityType
<1>8. IsFiniteSet(others \cup {u}) /\ Cardinality(others \cup {u}) <= Cardinality(others) + 1
  <2>1. /\ IsFiniteSet(others \cup {u})
        /\ \/ Cardinality(others \cup {u}) = Cardinality(others)
           \/ Cardinality(others \cup {u}) = Cardinality(others) + 1
    BY <1>7, FS_AddElement, Zenon
  <2> QED BY <1>7, <2>1
<1> QED BY <1>1, <1>6, <1>7, <1>8, FS_CardinalityType DEF D

LEMMA StoreScopeInv ==
    ASSUME Inv, NEW c \in Call, StoreScope(c)
    PROVE  Inv' /\ StepOf(c)
<1>0. PICK u \in Caller : u = Who(c)
  BY Requests DEF StoreScope, Inv, CallInv, PlaceInv, At, Who
<1> DEFINE s == call[c].slice
           entry == [ref |-> s, left |-> ScopeTTL, age |-> call[c].age]
<1>1. /\ CallInv(c) /\ DOMAIN call = Call /\ Resolving(c) /\ Held(c)
      /\ call' = [call EXCEPT ![c].pc = "narrow"] /\ UNCHANGED results
  BY DEF Inv, StoreScope, At, Resolving, Held
<1>2. PICK others \in Room :
          /\ scopes' = With(Restrict(scopes, others), u, entry)
          /\ heap' = [r \in Ref |->
                 IF \/ \E d \in Call : call[d].slice = r
                    \/ \E v \in others \ {u} : scopes[v].ref = r
                 THEN heap[r] ELSE NoSlice]
  BY <1>0 DEF StoreScope
<1>3. /\ s \in Ref /\ s # 0 /\ Scoped(c) /\ ResolvedFor(Slice(c), u)
      /\ call[c].age \in Nat /\ call[c].age <= MaxResolve
  BY <1>0, <1>1 DEF CallInv, CallType, PlaceInv, LoopInv, AgeInv, Held, At
<1>4. /\ others \subseteq DOMAIN scopes
      /\ IsFiniteSet(others \cup {u}) /\ Cardinality(others \cup {u}) <= MaxScopes
  BY RoomForOne
<1>5. /\ DOMAIN scopes' = others \cup {u} /\ scopes'[u] = entry
      /\ \A v \in others \ {u} : scopes'[v] = scopes[v]
  <2> HIDE DEF entry
  <2> QED BY <1>2, <1>4 DEF Restrict, With
<1>6. HeapInv'
  <2>1. NoSlice \in SliceType
    BY DEF NoSlice, SliceType
  <2> QED BY <1>2, <2>1 DEF Inv, HeapInv
<1>7. \A d \in Call : call[d].slice # 0 => heap'[call[d].slice] = heap[call[d].slice]
  BY <1>2 DEF Inv, CallInv, CallType
<1>8. \A v \in others \ {u} : scopes[v].ref \in Ref /\ heap'[scopes[v].ref] = heap[scopes[v].ref]
  BY <1>2, <1>4 DEF Inv, ScopeEntryInv
<1>9. /\ call' = [call EXCEPT ![c] = call'[c]] /\ DOMAIN call'[c] = Fields
      /\ call'[c].pc = "narrow"
      /\ \A f \in Fields \ {"pc"} : call'[c][f] = call[c][f]
  BY <1>1, FieldNames DEF CallInv, CallType
<1>10. /\ call'[c].slice = s /\ call'[c].todo = call[c].todo /\ call'[c].req = call[c].req
       /\ call'[c].read = call[c].read /\ call'[c].kept = call[c].kept
       /\ call'[c].seen = call[c].seen /\ call'[c].answer = call[c].answer /\ call'[c].age = call[c].age
  BY <1>9, FieldNames
<1>11. StepOf(c)
  <2>1. \A v \in DOMAIN scopes' :
           scopes'[v].ref = s \/ (v \in DOMAIN scopes /\ scopes'[v].ref = scopes[v].ref)
    BY <1>4, <1>5
  <2> QED BY <1>7, <1>9, <1>10, <2>1, KinSame DEF StepOf
<1>12. /\ Who(c)' = u /\ Posted(c)' = Posted(c) /\ Asked(c)' = Asked(c) /\ Scoped(c)'
       /\ Slice(c)' = Slice(c)
  BY <1>0, <1>3, <1>7, <1>9, <1>10 DEF Who, Posted, Asked, Scoped, Slice
<1>13. CallType(c)'
  BY <1>1, <1>9, <1>10 DEF CallInv, CallType
<1>14. PlaceInv(c)'
  BY <1>1, <1>3, <1>9, <1>10, <1>12 DEF CallInv, PlaceInv, At, Held, Narrowed, Unshared, Resolving
<1>15. LoopInv(c)'
  <2>1. Len(Slice(c).ids) >= 1 /\ Len(Slice(c).ids) \in Nat
    BY <1>3 DEF ResolvedFor, Inv, HeapInv, SliceType, Slice
  <2>2. call'[c].read = 0 /\ call'[c].kept = 0 /\ call'[c].seen = {}
    BY <1>1, <1>10 DEF CallInv, LoopInv, Resolving
  <2> QED BY <1>3, <1>9, <1>12, <2>1, <2>2 DEF LoopInv, At, Held, Passed, Narrowed
<1>16. AgeInv(c)'
  BY <1>3, <1>9, <1>10, Limits DEF AgeInv, Resolving
<1>17. AnswerInv(c)'
  BY <1>9 DEF AnswerInv, At, Narrowed
<1>18. ScopeEntryInv(u)'
  <2>1. heap'[s] = Slice(c)
    BY <1>3, <1>7 DEF Slice
  <2>2. /\ scopes'[u] \in [ref : Ref, left : -1..ScopeTTL, age : 0..OldAge]
        /\ scopes'[u].ref = s /\ scopes'[u].left = ScopeTTL /\ scopes'[u].age = call[c].age
    BY <1>3, <1>5, Limits
  <2>3. ScopeTTL \in -1..ScopeTTL /\ call[c].age \in 0..OldAge
        /\ call[c].age + ScopeTTL <= MaxResolve + ScopeTTL
    BY <1>3, Limits
  <2> QED BY <1>3, <2>1, <2>2, <2>3 DEF ScopeEntryInv
<1>19. \A v \in others \ {u} : ScopeEntryInv(v)'
  BY <1>4, <1>5, <1>8, KinSame, ScopeEntryStays DEF Inv
<1>20. \A v \in DOMAIN scopes' : ScopeEntryInv(v)'
  <2> SUFFICES ASSUME NEW v \in DOMAIN scopes' PROVE ScopeEntryInv(v)'
    OBVIOUS
  <2> QED BY <1>5, <1>18, <1>19 DEF ScopeEntryInv
<1>21. \A d \in Call : CallInv(d)'
  BY <1>11, <1>13, <1>14, <1>15, <1>16, <1>17, OthersInv DEF CallInv
<1>22. \A k \in DOMAIN results : ResultInv(k)'
  BY <1>1 DEF Inv, ResultInv
<1>23. DOMAIN scopes' \subseteq Caller
  BY <1>3, <1>4, <1>5 DEF Inv
<1>24. DOMAIN call' = Call
  BY <1>1
<1> QED BY <1>1, <1>4, <1>5, <1>6, <1>11, <1>20, <1>21, <1>22, <1>23, <1>24 DEF Inv

(***************************************************************************)
(* A full response cache makes room or takes nothing.                      *)
(***************************************************************************)
LEMMA StoredEntries ==
    ASSUME Inv, NEW k, NEW e
    PROVE  LET new == Stored(k, e)
           IN  /\ IsFiniteSet(DOMAIN new) /\ Cardinality(DOMAIN new) <= MaxResults
               /\ \A q \in DOMAIN new : \/ q = k /\ new[q] = e
                                        \/ q \in DOMAIN results /\ new[q] = results[q]
<1> DEFINE D == DOMAIN results
           full == Cardinality(D) >= MaxResults
           rest == Restrict(results, {q \in D : full => ~results[q].expired})
           R == DOMAIN rest
<1>1. IsFiniteSet(D) /\ Cardinality(D) \in Nat /\ Cardinality(D) <= MaxResults /\ MaxResults \in Nat
  BY Limits, FS_CardinalityType DEF Inv
<1>2. R \subseteq D /\ \A q \in R : rest[q] = results[q]
  BY DEF Restrict
<1>3. Stored(k, e) = IF Cardinality(R) >= MaxResults THEN rest ELSE With(rest, k, e)
  BY DEF Stored
<1> HIDE DEF D, rest, R
<1>4. IsFiniteSet(R) /\ Cardinality(R) \in Nat /\ Cardinality(R) <= Cardinality(D)
  BY <1>1, <1>2, FS_Subset, FS_CardinalityType
<1>5. IsFiniteSet(R \cup {k}) /\ Cardinality(R \cup {k}) <= Cardinality(R) + 1
  <2>1. /\ IsFiniteSet(R \cup {k})
        /\ Cardinality(R \cup {k}) = IF k \in R THEN Cardinality(R) ELSE Cardinality(R) + 1
    BY <1>4, FS_AddElement, Zenon
  <2> QED BY <1>4, <2>1
<1>6. Cardinality(R \cup {k}) \in Nat
  BY <1>5, FS_CardinalityType
<1>7. CASE Cardinality(R) >= MaxResults
  BY <1>1, <1>2, <1>3, <1>4, <1>7 DEF D, R
<1>8. CASE Cardinality(R) < MaxResults
  <2>1. Stored(k, e) = With(rest, k, e)
    BY <1>1, <1>3, <1>4, <1>8
  <2>2. DOMAIN With(rest, k, e) = R \cup {k}
    BY DEF With, R
  <2>3. \A q \in R \cup {k} : With(rest, k, e)[q] = IF q = k THEN e ELSE rest[q]
    BY DEF With, R
  <2>4. Cardinality(R \cup {k}) <= MaxResults
    BY <1>1, <1>4, <1>5, <1>6, <1>8
  <2> QED BY <1>2, <1>5, <2>1, <2>2, <2>3, <2>4 DEF D
<1> QED BY <1>1, <1>4, <1>7, <1>8

LEMMA PutInv ==
    ASSUME Inv, NEW c \in Call, Put(c)
    PROVE  Inv' /\ StepOf(c)
<1>0. PICK k, e : k = call[c].key /\ e = [answer |-> call[c].answer, expired |-> FALSE]
  OBVIOUS
<1>1. /\ CallInv(c) /\ DOMAIN call = Call /\ At(c, "fetching")
      /\ call' = [call EXCEPT ![c] = [@ EXCEPT !.pc = "returned", !.key = << >>]]
      /\ results' = Stored(k, e) /\ UNCHANGED <<scopes, heap>>
  BY <1>0 DEF Inv, Put
<1>2. /\ call' = [call EXCEPT ![c] = call'[c]] /\ DOMAIN call'[c] = Fields
      /\ call'[c].pc = "returned"
      /\ \A f \in Fields \ {"pc", "key"} : call'[c][f] = call[c][f]
  BY <1>1, FieldNames DEF CallInv, CallType
<1>3. /\ call'[c].slice = call[c].slice /\ call'[c].todo = call[c].todo /\ call'[c].req = call[c].req
      /\ call'[c].read = call[c].read /\ call'[c].kept = call[c].kept
      /\ call'[c].seen = call[c].seen /\ call'[c].answer = call[c].answer /\ call'[c].age = call[c].age
  BY <1>2, FieldNames
<1>4. /\ Who(c)' = Who(c) /\ Asked(c)' = Asked(c) /\ Posted(c)' = Posted(c)
      /\ (Scoped(c)' <=> Scoped(c)) /\ (Shared(c)' <=> Shared(c))
      /\ Slice(c)' = Slice(c) /\ Scope(c)' = Scope(c) /\ Filter(c)' = Filter(c)
  BY <1>1, <1>2, <1>3, SameSlice
<1>5. Posted(c) \in DOMAIN Body
  BY <1>1, Requests DEF CallInv, PlaceInv, At, Posted
<1>6. /\ call[c].answer.body = Posted(c) /\ call[c].answer \in Answer
      /\ k[1] = TenantOf[Who(c)] /\ k[3] = BodyKey[Posted(c)]
      /\ call[c].answer.filter.scoped <=> Scoped(c)
      /\ call[c].answer.filter.tenant = TenantOf[Who(c)]
      /\ Orderly(Who(c)) => /\ call[c].answer.filter = TenantFilter(c, Scope(c)) /\ k = QueryKey(c)
                 /\ Range(Filter(c)) = Scope(c)
  <2>1. Orderly(Who(c)) /\ call[c].slice # 0 => Range(Filter(c)) = Scope(c)
    BY <1>1 DEF CallInv, AnswerInv, Narrowed, At
  <2>2. call[c].slice = 0 => Range(Filter(c)) = Scope(c)
    BY DEF Filter, Scope, Range
  <2> QED BY <1>0, <1>1, <2>1, <2>2 DEF CallInv, CallType, AnswerInv, At
<1>7. ASSUME NEW q \in DOMAIN results'
      PROVE  ResultInv(q)'
  <2>1. \/ q = k /\ results'[q] = e
        \/ q \in DOMAIN results /\ results'[q] = results[q]
    BY <1>1, <1>7, StoredEntries
  <2>2. CASE q = k /\ results'[q] = e
    <3>1. e \in [answer : Answer, expired : BOOLEAN] /\ e.answer = call[c].answer
      BY <1>0, <1>6
    <3>2. Orderly(Who(c)) => e.answer.filter.parts = DOMAIN k[2]
      <4> SUFFICES ASSUME Orderly(Who(c)) PROVE e.answer.filter.parts = DOMAIN k[2]
        OBVIOUS
      <4>1. k[2] = Counts(c) /\ DOMAIN Counts(c) = Scope(c)
        BY <1>6 DEF QueryKey, Counts
      <4> QED BY <1>6, <3>1, <4>1 DEF TenantFilter
    <3>3. k[1] # NoTenant <=> Scoped(c)
      BY <1>6 DEF Scoped
    <3> QED BY <1>5, <1>6, <2>2, <3>1, <3>2, <3>3 DEF ResultInv, Orderly
  <2>3. CASE q \in DOMAIN results /\ results'[q] = results[q]
    BY <2>3 DEF Inv, ResultInv
  <2> QED BY <2>1, <2>2, <2>3
<1>8. StepOf(c)
  BY <1>1, <1>2, <1>3, KinSame DEF StepOf
<1>9. CallType(c)'
  BY <1>1, <1>2, <1>3 DEF CallInv, CallType
<1>10. PlaceInv(c)'
  BY <1>1, <1>2, <1>3, <1>4 DEF CallInv, PlaceInv, At, Held, Narrowed, Unshared
<1>11. LoopInv(c)'
  BY <1>1, <1>2, <1>3, <1>4 DEF CallInv, LoopInv, At, Held, Passed, Narrowed
<1>12. AgeInv(c)'
  BY <1>1, <1>2, <1>3 DEF CallInv, AgeInv, At, Resolving
<1>13. AnswerInv(c)'
  <2>1. Orderly(Who(c)) => TenantFilter(c, Scope(c))' = TenantFilter(c, Scope(c))
    BY <1>4 DEF TenantFilter
  <2>2. Orderly(Who(c)) /\ call[c].slice # 0 => Range(Filter(c)) = Scope(c) /\ Scope(c) \subseteq Slice(c).found
    BY <1>1 DEF CallInv, AnswerInv, At, Narrowed
  <2> QED BY <1>2, <1>3, <1>4, <1>5, <1>6, <2>1, <2>2 DEF AnswerInv, At, Narrowed
<1>14. \A d \in Call : CallInv(d)'
  BY <1>8, <1>9, <1>10, <1>11, <1>12, <1>13, OthersInv DEF CallInv
<1>15. IsFiniteSet(DOMAIN results') /\ Cardinality(DOMAIN results') <= MaxResults
  BY <1>1, StoredEntries
<1>16. \A u \in DOMAIN scopes' : ScopeEntryInv(u)'
  BY <1>1, ScopeEntryStays, KinSame DEF Inv
<1>17. HeapInv' /\ DOMAIN call' = Call /\ DOMAIN scopes' \subseteq Caller
       /\ IsFiniteSet(DOMAIN scopes') /\ Cardinality(DOMAIN scopes') <= MaxScopes
  BY <1>1 DEF Inv, HeapInv
<1> QED BY <1>7, <1>8, <1>14, <1>15, <1>16, <1>17 DEF Inv

\* Nothing about a call changes while it, its slice and who shares it do not.
LEMMA SameCallInv ==
    ASSUME Inv, NEW c \in Call, UNCHANGED <<heap, call>>,
           DOMAIN scopes' = DOMAIN scopes, \A u \in DOMAIN scopes : scopes'[u].ref = scopes[u].ref
    PROVE  CallInv(c)'
<1>1. CallInv(c)
  BY DEF Inv
<1>2. /\ Who(c)' = Who(c) /\ Asked(c)' = Asked(c) /\ Posted(c)' = Posted(c) /\ Slice(c)' = Slice(c)
      /\ \A pc : At(c, pc)' <=> At(c, pc)
  BY DEF Who, Asked, Posted, Slice, At
<1>3. /\ Scoped(c)' <=> Scoped(c)
      /\ Held(c)' <=> Held(c)
      /\ Narrowed(c)' <=> Narrowed(c)
      /\ Resolving(c)' <=> Resolving(c)
      /\ Unshared(c)' <=> Unshared(c)
  BY <1>2 DEF Scoped, Held, Narrowed, Resolving, Unshared
<1>4. Shared(c)' <=> Shared(c)
  BY DEF Shared
<1>5. Scope(c)' = Scope(c) /\ Filter(c)' = Filter(c)
  BY <1>2 DEF Scope, Filter
<1>6. QueryKey(c)' = QueryKey(c) /\ TenantFilter(c, Scope(c))' = TenantFilter(c, Scope(c))
  BY <1>2, <1>5 DEF QueryKey, Counts, TenantFilter
<1>7. CallType(c)'
  BY <1>1 DEF CallInv, CallType
<1>8. PlaceInv(c)'
  BY <1>1, <1>2, <1>3, <1>4 DEF CallInv, PlaceInv
<1>9. LoopInv(c)'
  <2>1. RoomForChildren(c)' <=> RoomForChildren(c)
    BY <1>2 DEF RoomForChildren
  <2> QED BY <1>1, <1>2, <1>3, <2>1 DEF CallInv, LoopInv, Passed
<1>10. AgeInv(c)'
  BY <1>1, <1>3 DEF CallInv, AgeInv
<1>11. AnswerInv(c)'
  BY <1>1, <1>2, <1>3, <1>5, <1>6 DEF CallInv, AnswerInv
<1> QED BY <1>7, <1>8, <1>9, <1>10, <1>11 DEF CallInv

LEMMA ExpireInv ==
    ASSUME Inv, NEW k \in DOMAIN results, Expire(k)
    PROVE  Inv'
<1>1. results' = [results EXCEPT ![k].expired = TRUE] /\ UNCHANGED <<scopes, heap, call>>
  BY DEF Expire
<1>2. \A q \in DOMAIN results' : ResultInv(q)'
  <2> SUFFICES ASSUME NEW q \in DOMAIN results' PROVE ResultInv(q)'
    OBVIOUS
  <2>1. q \in DOMAIN results /\ ResultInv(q)
    BY <1>1 DEF Inv
  <2>2. /\ results'[q] \in [answer : Answer, expired : BOOLEAN]
        /\ results'[q].answer = results[q].answer
    BY <1>1, <2>1 DEF ResultInv
  <2> QED BY <2>1, <2>2 DEF ResultInv
<1>3. \A c \in Call : CallInv(c)'
  BY <1>1, SameCallInv
<1>4. \A u \in DOMAIN scopes' : ScopeEntryInv(u)'
  BY <1>1, ScopeEntryStays, KinSame DEF Inv
<1>5. DOMAIN results' = DOMAIN results
  BY <1>1
<1> QED BY <1>1, <1>2, <1>3, <1>4, <1>5 DEF Inv, HeapInv

(***************************************************************************)
(* Time ages what is cached, and whoever resolves.                         *)
(***************************************************************************)
LEMMA TickInv ==
    ASSUME Inv, Tick
    PROVE  Inv'
<1>1. /\ \A c \in Call : \/ call[c].pc \in {"idle", "fetching", "returned", "refused"}
                         \/ Resolving(c) /\ call[c].age < MaxResolve
      /\ scopes' = [u \in DOMAIN scopes |->
             [scopes[u] EXCEPT !.left = IF @ < 0 THEN @ ELSE @ - 1,
                               !.age = IF @ < OldAge THEN @ + 1 ELSE @]]
      /\ call' = [c \in Call |-> IF Resolving(c) THEN [call[c] EXCEPT !.age = @ + 1] ELSE call[c]]
      /\ UNCHANGED <<heap, results>>
  BY DEF Tick
<1>2. DOMAIN scopes' = DOMAIN scopes /\ DOMAIN call' = Call
  BY <1>1
<1>3. ASSUME NEW u \in DOMAIN scopes
      PROVE  ScopeEntryInv(u)' /\ scopes'[u].ref = scopes[u].ref
  <2>1. ScopeEntryInv(u)
    BY DEF Inv
  <2>2. /\ scopes'[u] = [ref |-> scopes'[u].ref, left |-> scopes'[u].left, age |-> scopes'[u].age]
        /\ scopes'[u].ref = scopes[u].ref /\ scopes[u].ref \in Ref
        /\ scopes'[u].left = IF scopes[u].left < 0 THEN scopes[u].left ELSE scopes[u].left - 1
        /\ scopes'[u].age = IF scopes[u].age < OldAge THEN scopes[u].age + 1 ELSE scopes[u].age
    BY <1>1, <2>1 DEF ScopeEntryInv
  <2>3. scopes[u].left \in -1..ScopeTTL /\ scopes[u].age \in 0..OldAge
        /\ (scopes[u].left >= 0 => scopes[u].age + scopes[u].left <= MaxResolve + ScopeTTL)
    BY <2>1 DEF ScopeEntryInv
  <2>4. scopes'[u].left \in -1..ScopeTTL /\ scopes'[u].age \in 0..OldAge
        /\ (scopes'[u].left >= 0 => scopes'[u].age + scopes'[u].left <= MaxResolve + ScopeTTL)
    BY <2>2, <2>3, Limits
  <2>5. heap'[scopes'[u].ref] = heap[scopes[u].ref]
    BY <1>1, <2>2
  <2> QED BY <2>1, <2>2, <2>4, <2>5 DEF ScopeEntryInv
<1>4. ASSUME NEW c \in Call
      PROVE  CallInv(c)'
  <2>1. CallInv(c)
    BY DEF Inv
  <2>2. /\ DOMAIN call'[c] = Fields
        /\ \A f \in Fields \ {"age"} : call'[c][f] = call[c][f]
        /\ call'[c].age = IF Resolving(c) THEN call[c].age + 1 ELSE call[c].age
    BY <1>1, <2>1, FieldNames DEF CallInv, CallType
  <2>3. /\ call'[c].pc = call[c].pc /\ call'[c].slice = call[c].slice
        /\ call'[c].todo = call[c].todo /\ call'[c].req = call[c].req
        /\ call'[c].read = call[c].read /\ call'[c].kept = call[c].kept
        /\ call'[c].seen = call[c].seen /\ call'[c].answer = call[c].answer
        /\ call'[c].key = call[c].key
    BY <2>2, FieldNames
  <2>4. /\ Who(c)' = Who(c) /\ Asked(c)' = Asked(c) /\ Posted(c)' = Posted(c) /\ Slice(c)' = Slice(c)
        /\ \A pc : At(c, pc)' <=> At(c, pc)
    BY <1>1, <2>3 DEF Who, Asked, Posted, Slice, At
  <2>5. /\ Scoped(c)' <=> Scoped(c)
        /\ Held(c)' <=> Held(c)
        /\ Narrowed(c)' <=> Narrowed(c)
        /\ Resolving(c)' <=> Resolving(c)
        /\ Unshared(c)' <=> Unshared(c)
    BY <2>3, <2>4 DEF Scoped, Held, Narrowed, Resolving, Unshared
  <2>6. Shared(c)' <=> Shared(c)
    <3>1. \A d \in Call : call'[d].slice = call[d].slice
      <4> SUFFICES ASSUME NEW d \in Call PROVE call'[d].slice = call[d].slice
        OBVIOUS
      <4>1. DOMAIN call[d] = Fields
        BY DEF Inv, CallInv, CallType
      <4> QED BY <1>1, <4>1, FieldNames
    <3> QED BY <1>2, <1>3, <3>1 DEF Shared
  <2>7. Scope(c)' = Scope(c) /\ Filter(c)' = Filter(c)
    BY <2>3, <2>4 DEF Scope, Filter
  <2>8. QueryKey(c)' = QueryKey(c) /\ TenantFilter(c, Scope(c))' = TenantFilter(c, Scope(c))
    BY <2>4, <2>7 DEF QueryKey, Counts, TenantFilter
  <2>9. CallType(c)'
    BY <2>1, <2>2, <2>3 DEF CallInv, CallType
  <2>10. PlaceInv(c)'
    BY <2>1, <2>3, <2>4, <2>5, <2>6 DEF CallInv, PlaceInv
  <2>11. LoopInv(c)'
    <3>1. RoomForChildren(c)' <=> RoomForChildren(c)
      BY <2>3, <2>4 DEF RoomForChildren
    <3> QED BY <2>1, <2>3, <2>4, <2>5, <3>1 DEF CallInv, LoopInv, Passed
  <2>12. AgeInv(c)'
    <3>1. call[c].pc # "resolve" /\ call[c].age \in Nat
      BY <1>1, <2>1 DEF Resolving, CallInv, CallType
    <3>2. call[c].age <= MaxResolve + ScopeTTL /\ (call[c].pc = "idle" => call[c].age = 0)
      BY <2>1 DEF CallInv, AgeInv
    <3>3. CASE Resolving(c)
      <4>1. call[c].age < MaxResolve /\ call'[c].age = call[c].age + 1
        BY <1>1, <2>2, <3>3 DEF Resolving
      <4>2. call'[c].age <= MaxResolve /\ call'[c].age <= MaxResolve + ScopeTTL
        BY <3>1, <4>1, Limits
      <4> QED BY <2>3, <3>3, <4>2 DEF AgeInv, Resolving
    <3>4. CASE ~Resolving(c)
      BY <2>2, <2>3, <2>5, <3>1, <3>2, <3>4 DEF AgeInv
    <3> QED BY <3>3, <3>4
  <2>13. AnswerInv(c)'
    BY <2>1, <2>3, <2>4, <2>5, <2>7, <2>8 DEF CallInv, AnswerInv
  <2> QED BY <2>9, <2>10, <2>11, <2>12, <2>13 DEF CallInv
<1>5. \A k \in DOMAIN results' : ResultInv(k)'
  BY <1>1 DEF Inv, ResultInv
<1> QED BY <1>1, <1>2, <1>3, <1>4, <1>5 DEF Inv, HeapInv

-----------------------------------------------------------------------------
LEMMA InitInv == Init => Inv
<1> SUFFICES ASSUME Init PROVE Inv
  OBVIOUS
<1>1. HeapInv
  BY DEF Init, HeapInv, NoSlice, SliceType
<1>2. /\ DOMAIN scopes = {} /\ DOMAIN results = {} /\ DOMAIN call = Call
      /\ IsFiniteSet({}) /\ Cardinality({}) = 0
  BY FS_EmptySet DEF Init
<1>3. ASSUME NEW c \in Call PROVE CallInv(c)
  <2>1. /\ call[c].pc = "idle" /\ call[c].req = << >> /\ call[c].slice = 0 /\ call[c].todo = << >>
        /\ call[c].read = 0 /\ call[c].kept = 0 /\ call[c].seen = {}
        /\ call[c].answer = NoAnswer /\ call[c].age = 0 /\ DOMAIN call[c] = Fields
    BY DEF Init, Idle, Fields
  <2>2. CallType(c)
    BY <2>1, NoAnswerType DEF CallType
  <2>3. PlaceInv(c)
    BY <2>1 DEF PlaceInv, At, Held, Narrowed, Unshared
  <2>4. LoopInv(c)
    BY <2>1 DEF LoopInv, At, Held, Passed, Narrowed
  <2>5. AgeInv(c) /\ AnswerInv(c)
    BY <2>1, Limits DEF AgeInv, AnswerInv, At, Resolving, Narrowed
  <2> QED BY <2>2, <2>3, <2>4, <2>5 DEF CallInv
<1> QED BY <1>1, <1>2, <1>3, Limits DEF Inv

LEMMA NextInv ==
    ASSUME Inv, Next
    PROVE  Inv'
<1>1. CASE Tick
  BY <1>1, TickInv
<1>2. ASSUME NEW k \in DOMAIN results, Expire(k) PROVE Inv'
  BY <1>2, ExpireInv
<1>3. ASSUME NEW c \in Call, Arrive(c) \/ Finish(c) PROVE Inv'
  BY <1>3, ArriveInv, LeaveInv DEF Finish
<1>4. ASSUME NEW c \in Call, ResolveAccessiblePartitions(c) PROVE Inv'
  BY <1>4, ScopeHitInv, ScopeMissInv, ListAnsweredInv, ChildResolvedInv, StoreScopeInv
     DEF ResolveAccessiblePartitions
<1>5. ASSUME NEW c \in Call, ResolveFilter(c) PROVE Inv'
  <2>1. CASE Unscoped(c)
    <3>1. CASE Who(c) \in GlobalViewer
      BY <2>1, <3>1, GlobalInv DEF Unscoped
    <3>2. CASE Who(c) \notin GlobalViewer
      BY <2>1, <3>2, LeaveInv DEF Unscoped
    <3> QED BY <3>1, <3>2
  <2>2. CASE Reject(c)
    BY <2>2, LeaveInv DEF Reject
  <2> QED BY <1>5, <2>1, <2>2, NarrowToOwnInv, CompactInv, ScanInv, AcceptInv DEF ResolveFilter
<1>6. ASSUME NEW c \in Call, Query(c) PROVE Inv'
  <2>1. CASE BackendFails(c)
    BY <2>1, LeaveInv DEF BackendFails
  <2> QED BY <1>6, <2>1, HitInv, MissInv, AskBackendInv, PutInv DEF Query
<1> QED BY <1>1, <1>2, <1>3, <1>4, <1>5, <1>6 DEF Next

LEMMA StutterInv ==
    ASSUME Inv, UNCHANGED vars
    PROVE  Inv'
<1>1. UNCHANGED <<scopes, heap, results, call>>
  BY DEF vars
<1>2. \A c \in Call : CallInv(c)'
  BY <1>1, SameCallInv
<1>3. \A u \in DOMAIN scopes : ScopeEntryInv(u)'
  BY <1>1, ScopeEntryStays, KinSame DEF Inv
<1>4. \A k \in DOMAIN results : ResultInv(k)'
  BY <1>1 DEF Inv, ResultInv
<1> QED BY <1>1, <1>2, <1>3, <1>4 DEF Inv, HeapInv

THEOREM InvariantHolds == Spec => []Inv
<1>1. Inv /\ [Next]_vars => Inv'
  BY NextInv, StutterInv
<1> QED BY <1>1, InitInv, PTL DEF Spec

-----------------------------------------------------------------------------
(***************************************************************************)
(* The state keeps its types: in particular a cached slice, an accessSet   *)
(* or an answer names partitions that exist, and the part of its slice     *)
(* that a call has kept or read is a part of it.                           *)
(***************************************************************************)
THEOREM TypeCorrect == Spec => []TypeOK
<1>1. Inv => TypeOK
  <2> SUFFICES ASSUME Inv PROVE TypeOK
    OBVIOUS
  <2>1. \A u \in DOMAIN scopes : scopes[u] \in [ref : Ref, left : -1..ScopeTTL, age : 0..OldAge]
    BY DEF Inv, ScopeEntryInv
  <2>2. \A r \in Ref : heap[r].ids \in Seq(Partitions) /\ heap[r].found \in SUBSET Partitions
    BY DEF Inv, HeapInv, SliceType
  <2>3. \A k \in DOMAIN results : results[k] \in [answer : Answer, expired : BOOLEAN]
    BY DEF Inv, ResultInv
  <2>4. ASSUME NEW c \in Call
        PROVE  /\ call[c].slice # 0 => {call[c].read, call[c].kept} \subseteq 0..Len(Slice(c).ids)
               /\ call[c].age \in 0..OldAge
    <3>1. CallType(c) /\ LoopInv(c) /\ AgeInv(c)
      BY DEF Inv, CallInv
    <3>2. call[c].slice # 0 => Len(Slice(c).ids) \in Nat
      BY <2>2, <3>1 DEF CallType, Slice
    <3> QED BY <3>1, <3>2, Limits DEF CallType, LoopInv, AgeInv
  <2>5. \A c \in Call : CallType(c)
    BY DEF Inv, CallInv
  <2> QED BY <2>1, <2>2, <2>3, <2>4, <2>5 DEF Inv, TypeOK, CallType
<1> QED BY <1>1, InvariantHolds, PTL

(***************************************************************************)
(* cacheResult and queryCache.put keep both caches within their limits.    *)
(***************************************************************************)
THEOREM CachesBounded == Spec => []CachesStayBounded
<1>1. Inv => CachesStayBounded
  BY DEF Inv, CachesStayBounded
<1> QED BY <1>1, InvariantHolds, PTL

(***************************************************************************)
(* No query is narrowed to what a resolution found that began longer ago   *)
(* than a scope TTL and a longest resolution.                              *)
(***************************************************************************)
THEOREM RecentScope == Spec => []ScopeIsRecent
<1>1. Inv => ScopeIsRecent
  BY DEF Inv, CallInv, AgeInv, ScopeIsRecent
<1> QED BY <1>1, InvariantHolds, PTL

(***************************************************************************)
(* What is sent to the metrics backend reads, but for the time series of a *)
(* ratio, the normal forms of names that the request has and the allowlist *)
(* lets through, whether or not the list has the normal forms as well.     *)
(***************************************************************************)
THEOREM AllowedOnly == Spec => []OnlyAllowedMetricsAreRead
<1>1. Inv => OnlyAllowedMetricsAreRead
  <2> SUFFICES ASSUME Inv, NEW c \in Call, At(c, "fetching"), ~RatioSeries(Body[Posted(c)]),
                      NEW s \in Selectors(Sent(call[c].answer).expr)
               PROVE  \E m \in Allowed \cap Names(ToMetricQuery(Body[Posted(c)])) :
                          s.metric = MetricName[m]
    BY DEF OnlyAllowedMetricsAreRead
  <2>1. /\ call[c].answer.body = Posted(c) /\ Validate(ToMetricQuery(Body[Posted(c)]))
        /\ call[c].req \in Request
    BY DEF Inv, CallInv, PlaceInv, AnswerInv, At
  <2>2. Posted(c) \in DOMAIN Body /\ OfRequestType(Body[Posted(c)])
    BY <2>1, Requests DEF Posted
  <2>3. Prepared[Posted(c)] = SanitizeQueryFilters(ToMetricQuery(Body[Posted(c)]))
    BY <2>2 DEF Prepared
  <2>4. s \in Selectors(BackendQuery(Body[Posted(c)], SanitizeQueryFilters(ToMetricQuery(Body[Posted(c)])),
                                     call[c].answer.filter).expr)
    BY <2>1, <2>3 DEF Sent
  <2> QED BY <2>1, <2>2, <2>4, AllowedIsRead DEF RatioSeries
<1> QED BY <1>1, InvariantHolds, PTL

(***************************************************************************)
(* Whatever shifts in whose slices: an answer is over its caller's tenant  *)
(* and no other, in every metric, cached by whomever, and the only answers *)
(* over no tenant are those of callers who may see everything.             *)
(***************************************************************************)
AnswerIsOfTenant ==
    \A c \in Call : At(c, "returned") =>
        /\ \A s \in Selectors(Sent(call[c].answer).expr) :
              {m \in s.matchers : m[1] = "tenant_id"} =
                  IF TenantOf[Who(c)] = NoTenant THEN {} ELSE {<<"tenant_id", {TenantOf[Who(c)]}>>}
        /\ TenantOf[Who(c)] = NoTenant => Who(c) \in GlobalViewer

THEOREM AnswerOfTenant == Spec => []AnswerIsOfTenant
<1>1. Inv => AnswerIsOfTenant
  <2> SUFFICES ASSUME Inv, NEW c \in Call, At(c, "returned")
               PROVE  /\ \A s \in Selectors(Sent(call[c].answer).expr) :
                            {m \in s.matchers : m[1] = "tenant_id"} =
                                IF TenantOf[Who(c)] = NoTenant THEN {}
                                ELSE {<<"tenant_id", {TenantOf[Who(c)]}>>}
                      /\ TenantOf[Who(c)] = NoTenant => Who(c) \in GlobalViewer
    BY DEF AnswerIsOfTenant
  <2> DEFINE filter == call[c].answer.filter
  <2>1. /\ filter.scoped <=> Scoped(c)
        /\ filter.tenant = TenantOf[Who(c)]
        /\ TenantOf[Who(c)] = NoTenant => Who(c) \in GlobalViewer
    BY DEF Inv, CallInv, PlaceInv, AnswerInv, At, Narrowed, Scoped
  <2> HIDE DEF filter
  <2>2. {m \in ScopeOf(filter) : m[1] = "tenant_id"} =
            IF TenantOf[Who(c)] = NoTenant THEN {} ELSE {<<"tenant_id", {TenantOf[Who(c)]}>>}
    BY <2>1 DEF ScopeOf, Scoped
  <2>3. \A s \in Selectors(Sent(call[c].answer).expr) :
           {m \in s.matchers : m[1] \in ScopeLabel} = ScopeOf(filter)
    BY SelectorsScope DEF Sent, filter
  <2>4. \A s \in Selectors(Sent(call[c].answer).expr) :
           {m \in s.matchers : m[1] = "tenant_id"} = {m \in ScopeOf(filter) : m[1] = "tenant_id"}
    <3>1. "tenant_id" \in ScopeLabel
      BY DEF ScopeLabel
    <3> QED BY <2>3, <3>1
  <2> QED BY <2>1, <2>2, <2>4
<1> QED BY <1>1, InvariantHolds, PTL

\* Whoever cached it, an answer of a tidy tenant is of its scope.
LEMMA ScopeIfTidy ==
    ASSUME Inv, NEW c \in Call, At(c, "returned"), Orderly(Who(c))
    PROVE  IsOfScope(c)
<1>1. /\ call[c].answer.filter = TenantFilter(c, Scope(c))
      /\ call[c].slice # 0 => Scope(c) \subseteq Slice(c).found
      /\ TenantOf[Who(c)] = NoTenant => Who(c) \in GlobalViewer
  BY DEF Inv, CallInv, PlaceInv, AnswerInv, At, Narrowed, Scoped
<1>2. ScopeOf(TenantFilter(c, Scope(c))) = IF TenantOf[Who(c)] = NoTenant THEN {} ELSE ScopeMatchers(c)
  BY DEF ScopeOf, TenantFilter, ScopeMatchers
<1>3. \A s \in Selectors(Sent(call[c].answer).expr) :
         {m \in s.matchers : m[1] \in ScopeLabel} = ScopeOf(call[c].answer.filter)
  BY SelectorsScope DEF Sent
<1> QED BY <1>1, <1>2, <1>3 DEF IsOfScope

(***************************************************************************)
(* The cache key tells any two questions apart that the backend would      *)
(* answer differently, and two scopes.                                     *)
(***************************************************************************)
LEMMA QuestionIfTidy ==
    ASSUME Inv, NEW c \in Call, At(c, "returned"), Orderly(Who(c))
    PROVE  IsToQuestion(c)
<1> DEFINE b == call[c].answer.body
           d == Posted(c)
           filter == TenantFilter(c, Scope(c))
<1>1. /\ b \in DOMAIN Body /\ BodyKey[b] = BodyKey[d] /\ call[c].answer.filter = filter
      /\ call[c].req \in Request
  BY DEF Inv, CallInv, PlaceInv, AnswerInv, At
<1>2. d \in DOMAIN Body /\ OfRequestType(Body[d]) /\ OfRequestType(Body[b])
  BY <1>1, Requests, AnalyticsAssumption DEF Posted
<1>3. Sent(call[c].answer) = BackendQuery(Body[b], Prepared[b], filter)
  BY <1>1 DEF Sent
<1> HIDE DEF b, d, filter
<1>4. RequestKey(Body[b], Prepared[b]) = RequestKey(Body[d], Prepared[d])
  <2>1. \A x \in DOMAIN Body : RequestKey(Body[BodyKey[x]], Prepared[BodyKey[x]]) = RequestKey(Body[x], Prepared[x])
    BY DEF BodyKey
  <2> QED BY <1>1, <1>2, <2>1
<1>5. /\ Bucket(Body[b].window) = Bucket(Body[d].window)
      /\ BackendQuery(Body[b], Prepared[b], filter) =
             BackendQuery([Body[d] EXCEPT !.window = Body[b].window], Prepared[d], filter)
  BY <1>2, <1>4, KeyTellsQuestionsApart
<1> QED BY <1>1, <1>3, <1>5 DEF IsToQuestion, b, d, filter

(***************************************************************************)
(* Where nothing shifts in a tenant's slices, its callers' answers are     *)
(* over exactly the partitions they asked for and to the very question,    *)
(* whatever slices of other tenants come to, and whoever stored the        *)
(* answers.                                                                *)
(***************************************************************************)
TenantIsServed(t) ==
    \A c \in Call : At(c, "returned") /\ TenantOf[Who(c)] = t => IsOfScope(c) /\ IsToQuestion(c)

THEOREM OthersDoNoHarm ==
    ASSUME NEW t, Tidy(t)
    PROVE  Spec => []TenantIsServed(t)
<1>1. Inv => TenantIsServed(t)
  BY ScopeIfTidy, QuestionIfTidy DEF TenantIsServed, Orderly
<1> QED BY <1>1, InvariantHolds, PTL

\* Every tenant with a caller is tidy.
AllTidy == \A u \in Caller : Orderly(u)

LEMMA WhoAsked ==
    ASSUME Inv, NEW c \in Call, At(c, "returned")
    PROVE  Who(c) \in Caller
  BY Requests DEF Inv, CallInv, PlaceInv, At, Who

(***************************************************************************)
(* While nothing shifts in a slice: whoever cached it, an answer is over   *)
(* its caller's tenant and exactly the partitions asked for, in every      *)
(* metric, and these were found accessible.                                *)
(***************************************************************************)
THEOREM AnswerInScope ==
    ASSUME AllTidy
    PROVE  Spec => []AnswerIsOfScope
<1>1. Inv => AnswerIsOfScope
  BY AllTidy, WhoAsked, ScopeIfTidy DEF AnswerIsOfScope, AllTidy
<1> QED BY <1>1, InvariantHolds, PTL

(***************************************************************************)
(* An answer, cached or not, is what the backend would say to this very    *)
(* request over this very scope.                                           *)
(***************************************************************************)
THEOREM AnswerToQuestion ==
    ASSUME AllTidy
    PROVE  Spec => []AnswerIsToQuestion
<1>1. Inv => AnswerIsToQuestion
  BY AllTidy, WhoAsked, QuestionIfTidy DEF AnswerIsToQuestion, AllTidy
<1> QED BY <1>1, InvariantHolds, PTL

-----------------------------------------------------------------------------
(***************************************************************************)
(* How many steps a call has left at most.  A resolution asks about each   *)
(* child once, and a slice is gone through once: it holds the caller's own *)
(* partition and one id to a child.                                        *)
(***************************************************************************)
Sons(c) == Len(Children[Who(c)])

StepsLeft(c) ==
    CASE At(c, "idle") -> 0
      [] call[c].pc \in {"returned", "refused"} -> 1
      [] At(c, "fetching") -> 2
      [] At(c, "ask") -> 3
      [] At(c, "lookup") -> 4
      [] At(c, "narrow") -> 5 + Len(Slice(c).ids) - call[c].read
      [] At(c, "children") -> 7 + Sons(c) + Len(call[c].todo)
      [] At(c, "list") -> 8 + 2 * Sons(c)
      [] At(c, "resolve") -> 9 + 2 * Sons(c)

TakesStep(c) ==
    ResolveAccessiblePartitions(c) \/ ResolveFilter(c) \/ Query(c) \/ Finish(c)

\* The lengths it is made of.
Measured(c) ==
    /\ Sons(c) \in Nat
    /\ call[c].read \in Nat /\ Len(call[c].todo) \in Nat
    /\ Held(c) => /\ Len(Slice(c).ids) \in Nat /\ call[c].read <= Len(Slice(c).ids)
                  /\ Len(Slice(c).ids) >= 1 /\ Len(Slice(c).ids) <= Sons(c) + 1
    /\ At(c, "children") => Len(Slice(c).ids) + Len(call[c].todo) <= Sons(c) + 1

Measures == \A c \in Call : ~At(c, "idle") => Measured(c)

LEMMA Lengths ==
    ASSUME Inv, NEW c \in Call, ~At(c, "idle")
    PROVE  Measured(c)
<1>1. CallInv(c) /\ Who(c) \in Caller
  BY Requests DEF Inv, CallInv, PlaceInv, Who
<1>2. Children[Who(c)] \in Seq(Partitions) /\ call[c].todo \in Seq(Partitions)
  BY <1>1, Callers DEF CallInv, CallType
<1>3. Sons(c) \in Nat /\ Len(call[c].todo) \in Nat /\ call[c].read \in Nat
  BY <1>1, <1>2 DEF Sons, CallInv, CallType
<1>4. ASSUME Held(c)
      PROVE  /\ Len(Slice(c).ids) \in Nat /\ call[c].read <= Len(Slice(c).ids)
             /\ Len(Slice(c).ids) >= 1 /\ Len(Slice(c).ids) <= Sons(c) + 1
  <2>1. call[c].slice \in Ref /\ call[c].slice # 0
    BY <1>1, <1>4 DEF CallInv, CallType, PlaceInv
  <2>2. Slice(c).ids \in Seq(Partitions)
    BY <2>1 DEF Inv, HeapInv, SliceType, Slice
  <2> QED BY <1>1, <1>4, <2>1, <2>2 DEF CallInv, LoopInv, ResolvedFor, Sons
<1>5. At(c, "children") => Len(Slice(c).ids) + Len(call[c].todo) <= Sons(c) + 1
  BY <1>1 DEF CallInv, LoopInv, Sons, RoomForChildren
<1> QED BY <1>3, <1>4, <1>5 DEF Measured

LEMMA StepsLeftType ==
    ASSUME Inv, NEW c \in Call
    PROVE  IF At(c, "idle") THEN StepsLeft(c) = 0 ELSE StepsLeft(c) \in 1..(9 + 2 * Sons(c))
<1>1. CASE At(c, "idle")
  BY <1>1 DEF StepsLeft, At
<1>2. CASE ~At(c, "idle")
  <2> DEFINE n == Len(Slice(c).ids)
             m == Len(call[c].todo)
             k == Sons(c)
             read == call[c].read
  <2>1. /\ k \in Nat /\ read \in Nat /\ m \in Nat
        /\ At(c, "narrow") => n \in Nat /\ read <= n /\ n <= k + 1
        /\ At(c, "children") => n \in Nat /\ n >= 1 /\ n + m <= k + 1
    BY <1>2, Lengths DEF Measured, Held
  <2>2. call[c].pc \in {"resolve", "list", "children", "narrow", "lookup", "ask", "fetching", "returned", "refused"}
    BY <1>2 DEF Inv, CallInv, CallType, At
  <2>3. /\ At(c, "narrow") => StepsLeft(c) = 5 + n - read
        /\ At(c, "children") => StepsLeft(c) = 7 + k + m
        /\ At(c, "list") => StepsLeft(c) = 8 + 2 * k
        /\ At(c, "resolve") => StepsLeft(c) = 9 + 2 * k
        /\ call[c].pc \in {"lookup", "ask", "fetching", "returned", "refused"} => StepsLeft(c) \in 1..4
    BY DEF StepsLeft, At
  <2> HIDE DEF n, m, k, read
  <2>4. At(c, "children") => m <= k
    BY <2>1
  <2>5. StepsLeft(c) \in 1..(9 + 2 * k)
    BY <2>1, <2>2, <2>3, <2>4 DEF At
  <2> QED BY <1>2, <2>5 DEF k
<1> QED BY <1>1, <1>2

LEMMA TakesStepCounts ==
    ASSUME Inv, HeapInv', NEW c \in Call, TakesStep(c), ~At(c, "idle")' => Measured(c)'
    PROVE  StepsLeft(c)' < StepsLeft(c)
<1>1. /\ CallInv(c) /\ DOMAIN call = Call /\ DOMAIN call[c] = Fields
      /\ call[c].slice # 0 => call[c].slice \in Ref
  BY DEF Inv, CallInv, CallType
<1>2. ~At(c, "idle")
  BY DEF TakesStep, ResolveAccessiblePartitions, ResolveFilter, Query, Finish, At, ScopeHit,
         ScopeMiss, ListAnswered, ChildResolved, StoreScope, Unscoped, NarrowToOwn, Compact, Scan,
         Accept, Reject, Hit, Miss, AskBackend, BackendFails, Put
<1> DEFINE n == Len(Slice(c).ids)
           m == Len(call[c].todo)
           k == Sons(c)
           read == call[c].read
<1>3. /\ k \in Nat /\ read \in Nat /\ m \in Nat
      /\ Held(c) => n \in Nat /\ read <= n /\ n >= 1 /\ n <= k + 1
      /\ At(c, "children") => n + m <= k + 1
  BY <1>2, Lengths DEF Measured
<1>4. StepsLeft(c) \in Nat /\ StepsLeft(c) >= 1
  BY <1>2, <1>3, StepsLeftType
<1>5. CASE Finish(c) \/ BackendFails(c) \/ Reject(c) \/ (Unscoped(c) /\ Who(c) \notin GlobalViewer)
  <2>1. call'[c] = Idle
    BY <1>1, <1>5 DEF Finish, BackendFails, Reject, Unscoped, Leave
  <2>2. StepsLeft(c)' = 0
    BY <2>1 DEF StepsLeft, At, Idle
  <2> QED BY <1>4, <2>2
<1>6. CASE Unscoped(c) /\ Who(c) \in GlobalViewer
  <2>1. At(c, "resolve") /\ call'[c].pc = "lookup"
    BY <1>1, <1>6, FieldNames DEF Unscoped
  <2> QED BY <1>3, <2>1 DEF StepsLeft, At
<1>7. CASE Hit(c) \/ Miss(c) \/ AskBackend(c) \/ Put(c)
  <2>1. \/ At(c, "lookup") /\ call'[c].pc \in {"returned", "ask"}
        \/ At(c, "ask") /\ call'[c].pc = "fetching"
        \/ At(c, "fetching") /\ call'[c].pc = "returned"
    BY <1>1, <1>7, FieldNames DEF Hit, Miss, AskBackend, Put
  <2> QED BY <2>1 DEF StepsLeft, At
<1>8. CASE NarrowToOwn(c) \/ Accept(c)
  <2>1. At(c, "narrow") /\ call'[c].pc = "lookup"
    <3>1. At(c, "narrow") /\ \E ids : Privately(c, ids)
      BY <1>8 DEF NarrowToOwn, Accept
    <3>2. \E ref, kept : call' = [call EXCEPT ![c] = [@ EXCEPT !.pc = "lookup", !.slice = ref, !.kept = kept,
                                                              !.read = 0, !.seen = {}, !.age = 0]]
      BY <3>1 DEF Privately
    <3> QED BY <1>1, <3>1, <3>2, FieldNames
  <2>2. Held(c) /\ StepsLeft(c) = 5 + n - read
    BY <2>1 DEF StepsLeft, At, Held
  <2>3. StepsLeft(c)' = 4
    BY <2>1 DEF StepsLeft, At
  <2> HIDE DEF n, read, k, m
  <2> QED BY <1>3, <2>2, <2>3
<1>9. CASE Scan(c)
  <2>1. /\ At(c, "narrow") /\ Held(c) /\ read # n /\ UNCHANGED heap
        /\ call'[c].pc = call[c].pc /\ call'[c].slice = call[c].slice /\ call'[c].read = read + 1
    BY <1>1, <1>9, FieldNames DEF Scan, AllRead, Held
  <2>2. Slice(c)' = Slice(c)
    BY <2>1 DEF Slice
  <2>3. StepsLeft(c) = 5 + n - read /\ StepsLeft(c)' = 5 + n - (read + 1)
    BY <2>1, <2>2 DEF StepsLeft, At
  <2> HIDE DEF n, read, k, m
  <2> QED BY <1>3, <2>1, <2>3
<1>10. CASE Compact(c)
  <2>1. /\ At(c, "narrow") /\ Held(c) /\ call'[c].slice = call[c].slice
        /\ \/ LastRead(c) /\ call'[c].pc = "lookup"
           \/ ~LastRead(c) /\ call'[c].pc = "narrow" /\ call'[c].read = read + 1
    <3>1. CASE LastRead(c)
      BY <1>1, <1>10, <3>1, FieldNames DEF Compact, Held, At
    <3>2. CASE ~LastRead(c)
      BY <1>1, <1>10, <3>2, FieldNames DEF Compact, Held, At
    <3> QED BY <3>1, <3>2
  <2>2. StepsLeft(c) = 5 + n - read
    BY <2>1 DEF StepsLeft, At
  <2>3. CASE LastRead(c)
    <3>1. StepsLeft(c)' = 4 /\ read + 1 = n
      BY <2>1, <2>3 DEF StepsLeft, At, LastRead
    <3> HIDE DEF n, read, k, m
    <3> QED BY <1>3, <2>2, <3>1
  <2>4. CASE ~LastRead(c)
    <3>1. Len(Slice(c).ids)' = n
      <4>1. call[c].slice \in Ref /\ call[c].slice # 0 /\ Slice(c) = heap[call[c].slice]
        BY <1>1, <2>1 DEF CallInv, PlaceInv, Slice
      <4>2. heap' = heap \/ \E i, e : heap' = [heap EXCEPT ![call[c].slice].ids[i] = e]
        BY <1>10 DEF Compact
      <4>3. heap \in [Ref -> SliceType]
        BY DEF Inv, HeapInv
      <4>4. DOMAIN heap'[call[c].slice].ids = DOMAIN heap[call[c].slice].ids
        <5> DEFINE r == call[c].slice
        <5>1. CASE heap' = heap
          BY <5>1
        <5>2. ASSUME NEW i, NEW e, heap' = [heap EXCEPT ![r].ids[i] = e]
              PROVE  DOMAIN heap'[r].ids = DOMAIN heap[r].ids
          <6>1. heap'[r] = [heap[r] EXCEPT !.ids[i] = e]
            BY <4>1, <4>3, <5>2
          <6>2. DOMAIN heap[r] = {"ids", "found"}
            BY <4>1, <4>3 DEF SliceType
          <6>3. heap'[r].ids = [heap[r].ids EXCEPT ![i] = e]
            BY <6>1, <6>2
          <6> QED BY <6>3
        <5> QED BY <4>2, <5>1, <5>2
      <4>5. /\ heap[call[c].slice].ids \in Seq(Partitions)
            /\ heap'[call[c].slice].ids \in Seq(Partitions)
        BY <4>1 DEF HeapInv, Inv, SliceType
      <4>6. Len(heap'[call[c].slice].ids) = Len(heap[call[c].slice].ids)
        BY <4>4, <4>5
      <4> QED BY <2>1, <4>1, <4>6 DEF Slice
    <3>2. StepsLeft(c)' = 5 + n - (read + 1)
      BY <2>1, <2>4, <3>1 DEF StepsLeft, At
    <3> HIDE DEF n, read, k, m
    <3> QED BY <1>3, <2>1, <2>2, <3>2
  <2> QED BY <2>3, <2>4
<1>11. CASE ScopeHit(c)
  <2>1. /\ At(c, "resolve") /\ call'[c].pc = "narrow" /\ call'[c].req = call[c].req
    BY <1>1, <1>11, FieldNames DEF ScopeHit
  <2>2. Sons(c)' = k /\ Held(c)' /\ ~At(c, "idle")'
    BY <2>1 DEF Sons, Who, Held, At
  <2>3. /\ Len(Slice(c).ids)' \in Nat /\ call'[c].read \in Nat
        /\ Len(Slice(c).ids)' <= k + 1
    BY <2>2 DEF Measured
  <2>4. StepsLeft(c) = 9 + 2 * k /\ StepsLeft(c)' = 5 + Len(Slice(c).ids)' - call'[c].read
    BY <2>1 DEF StepsLeft, At
  <2> HIDE DEF n, read, k, m
  <2> QED BY <1>3, <2>3, <2>4
<1>12. CASE ScopeMiss(c)
  <2>1. At(c, "resolve") /\ call'[c].pc = "list" /\ call'[c].req = call[c].req
    BY <1>1, <1>12, FieldNames DEF ScopeMiss
  <2>2. Sons(c)' = k
    BY <2>1 DEF Sons, Who
  <2>3. StepsLeft(c) = 9 + 2 * k /\ StepsLeft(c)' = 8 + 2 * k
    BY <2>1, <2>2 DEF StepsLeft, At
  <2> HIDE DEF n, read, k, m
  <2> QED BY <1>3, <2>3
<1>13. CASE ListAnswered(c)
  <2>1. /\ At(c, "list") /\ call'[c].pc = "children" /\ call'[c].req = call[c].req
        /\ call'[c].todo = Children[Who(c)]
    BY <1>1, <1>13, FieldNames DEF ListAnswered
  <2>2. Sons(c)' = k /\ Len(call'[c].todo) = k
    BY <2>1 DEF Sons, Who
  <2>3. StepsLeft(c) = 8 + 2 * k /\ StepsLeft(c)' = 7 + k + k
    BY <2>1, <2>2 DEF StepsLeft, At
  <2> HIDE DEF n, read, k, m
  <2> QED BY <1>3, <2>3
<1>14. CASE ChildResolved(c)
  <2>1. /\ At(c, "children") /\ call'[c].pc = "children" /\ call'[c].req = call[c].req
        /\ call[c].todo # << >> /\ call'[c].todo = Tail(call[c].todo)
    BY <1>1, <1>14, FieldNames DEF ChildResolved, At
  <2>2. Sons(c)' = k
    BY <2>1 DEF Sons, Who
  <2>3. Len(call'[c].todo) = m - 1
    BY <1>1, <2>1, HeadAndTail DEF CallInv, CallType
  <2>4. StepsLeft(c) = 7 + k + m /\ StepsLeft(c)' = 7 + k + (m - 1)
    BY <2>1, <2>2, <2>3 DEF StepsLeft, At
  <2> HIDE DEF n, read, k, m
  <2> QED BY <1>3, <2>4
<1>15. CASE StoreScope(c)
  <2>1. /\ At(c, "list") \/ At(c, "children")
        /\ call'[c].pc = "narrow" /\ call'[c].req = call[c].req
    BY <1>1, <1>15, FieldNames DEF StoreScope
  <2>2. Sons(c)' = k /\ Held(c)' /\ ~At(c, "idle")'
    BY <2>1 DEF Sons, Who, Held, At
  <2>3. /\ Len(Slice(c).ids)' \in Nat /\ call'[c].read \in Nat
        /\ Len(Slice(c).ids)' <= k + 1
    BY <2>2 DEF Measured
  <2>4. /\ StepsLeft(c) = 8 + 2 * k \/ StepsLeft(c) = 7 + k + m
        /\ StepsLeft(c)' = 5 + Len(Slice(c).ids)' - call'[c].read
    BY <2>1 DEF StepsLeft, At
  <2>5. k \in Nat /\ m \in Nat
    BY <1>3
  <2>6. StepsLeft(c) \in Nat /\ StepsLeft(c) >= 7 + k
    <3> HIDE DEF k, m
    <3> QED BY <2>4, <2>5
  <2>7. StepsLeft(c)' <= 6 + k
    <3> DEFINE now == Len(Slice(c).ids)'
               gone == call'[c].read
    <3>1. now \in Nat /\ gone \in Nat /\ now <= k + 1 /\ StepsLeft(c)' = 5 + now - gone
      BY <2>3, <2>4
    <3> HIDE DEF now, gone, k
    <3> QED BY <2>5, <3>1
  <2>8. StepsLeft(c)' \in Int
    BY <2>3, <2>4
  <2> HIDE DEF k
  <2> QED BY <2>5, <2>6, <2>7, <2>8
<1> QED BY <1>5, <1>6, <1>7, <1>8, <1>9, <1>10, <1>11, <1>12, <1>13, <1>14, <1>15
        DEF TakesStep, ResolveAccessiblePartitions, ResolveFilter, Query

\* A step of one call is no step of another, and leaves that as far as it was.
LEMMA OthersStay ==
    ASSUME Inv, NEW c \in Call, NEW d \in Call \ {c}, StepOf(d)
    PROVE  StepsLeft(c)' = StepsLeft(c)
<1>1. /\ call'[c] = call[c] /\ CallInv(c)
      /\ call[c].slice # 0 => Kin(heap[call[c].slice], heap'[call[c].slice])
  BY DEF StepOf, Inv
<1>2. /\ Sons(c)' = Sons(c)
      /\ call[c].slice # 0 => Len(Slice(c).ids)' = Len(Slice(c).ids)
  BY <1>1 DEF Sons, Who, Slice, Kin
<1>3. At(c, "narrow") => call[c].slice # 0
  BY <1>1 DEF CallInv, PlaceInv, Held
<1> QED BY <1>1, <1>2, <1>3 DEF StepsLeft, At

LEMMA EveryStepIsOf ==
    ASSUME Inv, NEW d \in Call, Arrive(d) \/ TakesStep(d)
    PROVE  StepOf(d)
<1>1. CASE Arrive(d) \/ Finish(d)
  BY <1>1, ArriveInv, LeaveInv DEF Finish
<1>2. CASE ResolveAccessiblePartitions(d)
  BY <1>2, ScopeHitInv, ScopeMissInv, ListAnsweredInv, ChildResolvedInv, StoreScopeInv
     DEF ResolveAccessiblePartitions
<1>3. CASE ResolveFilter(d)
  <2>1. CASE Unscoped(d)
    <3>1. CASE Who(d) \in GlobalViewer
      BY <2>1, <3>1, GlobalInv DEF Unscoped
    <3>2. CASE Who(d) \notin GlobalViewer
      BY <2>1, <3>2, LeaveInv DEF Unscoped
    <3> QED BY <3>1, <3>2
  <2>2. CASE Reject(d)
    BY <2>2, LeaveInv DEF Reject
  <2> QED BY <1>3, <2>1, <2>2, NarrowToOwnInv, CompactInv, ScanInv, AcceptInv DEF ResolveFilter
<1>4. CASE Query(d)
  <2>1. CASE BackendFails(d)
    BY <2>1, LeaveInv DEF BackendFails
  <2> QED BY <1>4, <2>1, HitInv, MissInv, AskBackendInv, PutInv DEF Query
<1> QED BY <1>1, <1>2, <1>3, <1>4 DEF TakesStep

(***************************************************************************)
(* Every query gets on.  From its arrival a call takes a bounded number of *)
(* steps, two to a child and nine besides, and each step of its own leaves *)
(* fewer.  Nothing else prolongs it: not the time that passes, nor what    *)
(* expires or is evicted, and not the calls that write into the very slice *)
(* its loop goes through, for they never make it longer.                   *)
(***************************************************************************)
THEOREM CallsGetOn ==
    Spec => /\ [](\A c \in Call : IF At(c, "idle") THEN StepsLeft(c) = 0
                                   ELSE StepsLeft(c) \in 1..(9 + 2 * Sons(c)))
            /\ [][\A c \in Call : ~At(c, "idle") =>
                     IF TakesStep(c) THEN StepsLeft(c)' < StepsLeft(c)
                                     ELSE StepsLeft(c)' = StepsLeft(c)]_vars
<1>1. Inv /\ Inv' /\ Measures' /\ [Next]_vars =>
        [\A c \in Call : ~At(c, "idle") =>
            IF TakesStep(c) THEN StepsLeft(c)' < StepsLeft(c) ELSE StepsLeft(c)' = StepsLeft(c)]_vars
  <2>0. ASSUME Inv, Inv', Measures', NEW c \in Call, TakesStep(c)
        PROVE  StepsLeft(c)' < StepsLeft(c)
    BY <2>0, TakesStepCounts DEF Measures, Inv
  <2> SUFFICES ASSUME Inv, Inv', Next, NEW c \in Call, ~At(c, "idle"), ~TakesStep(c)
               PROVE  StepsLeft(c)' = StepsLeft(c)
    BY <2>0
  <2>1. CASE Tick
    <3>1. /\ call'[c].pc = call[c].pc /\ call'[c].req = call[c].req /\ call'[c].slice = call[c].slice
          /\ call'[c].todo = call[c].todo /\ call'[c].read = call[c].read /\ heap' = heap
      <4>1. DOMAIN call[c] = Fields
        BY DEF Inv, CallInv, CallType
      <4> QED BY <2>1, <4>1, FieldNames DEF Tick
    <3>2. Sons(c)' = Sons(c) /\ Slice(c)' = Slice(c)
      BY <3>1 DEF Sons, Who, Slice
    <3> QED BY <3>1, <3>2 DEF StepsLeft, At
  <2>2. ASSUME NEW q \in DOMAIN results, Expire(q)
        PROVE  StepsLeft(c)' = StepsLeft(c)
    <3>1. UNCHANGED <<heap, call>>
      BY <2>2 DEF Expire
    <3>2. Sons(c)' = Sons(c) /\ Slice(c)' = Slice(c)
      BY <3>1 DEF Sons, Who, Slice
    <3> QED BY <3>1, <3>2 DEF StepsLeft, At
  <2>3. ASSUME NEW d \in Call, Arrive(d) \/ TakesStep(d)
        PROVE  StepsLeft(c)' = StepsLeft(c)
    <3>1. d # c
      BY <2>3 DEF Arrive
    <3> QED BY <2>3, <3>1, EveryStepIsOf, OthersStay
  <2> QED BY <2>1, <2>2, <2>3 DEF Next, TakesStep
<1>2. Inv => \A c \in Call : IF At(c, "idle") THEN StepsLeft(c) = 0
                             ELSE StepsLeft(c) \in 1..(9 + 2 * Sons(c))
  BY StepsLeftType
<1>3. Inv => Measures
  BY Lengths DEF Measures
<1> QED BY <1>1, <1>2, <1>3, InvariantHolds, PTL DEF Spec
=============================================================================
