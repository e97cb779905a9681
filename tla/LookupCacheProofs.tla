------------------------- MODULE LookupCacheProofs -------------------------
(***************************************************************************)
(* Theorems about LookupCache, for any number of calls, lookups, tenants   *)
(* and partitions, any scopes and TTLs, any limit and any deadline.        *)
(***************************************************************************)
EXTENDS LookupCache, FiniteSetTheorems, TLAPS

(***************************************************************************)
(* The inductive invariant.  An entry holds the options of a request of    *)
(* its very key, and expires a TTL after a put that came at most MaxFetch  *)
(* after they were answered.                                               *)
(***************************************************************************)
EntryInv(k) ==
    /\ CacheKey(cache[k].options.of) = k
    /\ cache[k].expires <= cache[k].options.asOf + MaxFetch + TTL[k[1]]

CallInv(c) ==
    /\ pc[c] # "idle" => req[c] \in Request
    /\ Fetching(c) => began[c] <= now /\ now <= began[c] + MaxFetch
    /\ pc[c] = "fetched" =>
          options[c] \in Options /\ options[c].of = req[c] /\ began[c] <= options[c].asOf
    /\ pc[c] = "returned" =>
          options[c] \in Options /\ CacheKey(options[c].of) = CacheKey(req[c])

\* A cleared key has no entry, and no fetch in flight that could bring one.
ClearedInv ==
    \A k \in cleared :
        /\ k \notin DOMAIN cache
        /\ \A c \in Call : Fetching(c) => CacheKey(req[c]) # k

Inv ==
    /\ TypeOK
    /\ IsFiniteSet(DOMAIN cache)
    /\ \A k \in DOMAIN cache : EntryInv(k)
    /\ \A c \in Call : CallInv(c)
    /\ ClearedInv

-----------------------------------------------------------------------------
LEMMA Limits ==
    /\ MaxEntries \in Nat \ {0} /\ MaxFetch \in Nat /\ MaxTime \in Nat
    /\ TTL \in [Lookup -> Nat]
  BY LookupAssumption

(***************************************************************************)
(* A key names its lookup.                                                 *)
(***************************************************************************)
LEMMA KeyOfLookup ==
    \A r \in Request : CacheKey(r) \in Key /\ CacheKey(r)[1] = r[1] /\ r[1] \in Lookup
<1> SUFFICES ASSUME NEW r \in Request
             PROVE  CacheKey(r) \in Key /\ CacheKey(r)[1] = r[1] /\ r[1] \in Lookup
  OBVIOUS
<1>1. r \in Lookup \X Tenant \X Partition
  BY LookupAssumption
<1>2. CacheKey(r)[1] = r[1]
  BY <1>1 DEF CacheKey
<1> QED BY <1>1, <1>2 DEF Key

(***************************************************************************)
(* Two requests share a key only where their lookup's scope lets them.     *)
(***************************************************************************)
THEOREM KeyTellsCallersApart ==
    ASSUME NEW r \in Request, NEW s \in Request, CacheKey(r) = CacheKey(s)
    PROVE  /\ r[1] = s[1]
           /\ Scope[s[1]] \in {"tenant", "partition"} => r[2] = s[2]
           /\ Scope[s[1]] = "partition" => r[3] = s[3]
<1>1. r[1] = s[1]
  BY KeyOfLookup
<1>2. CASE Scope[s[1]] = "tenant"
  <2>1. <<r[1], r[2]>> = <<s[1], s[2]>>
    BY <1>1, <1>2 DEF CacheKey
  <2> QED BY <1>1, <1>2, <2>1
<1>3. CASE Scope[s[1]] = "partition"
  BY <1>1, <1>3 DEF CacheKey
<1> QED BY <1>1, <1>2, <1>3

LEMMA InitInv == Init => Inv
<1> SUFFICES ASSUME Init PROVE Inv
  OBVIOUS
<1>1. DOMAIN cache = {}
  BY DEF Init
<1>2. TypeOK
  BY <1>1, Limits DEF Init, TypeOK
<1>3. IsFiniteSet(DOMAIN cache)
  BY <1>1, FS_EmptySet
<1>4. \A c \in Call : CallInv(c)
  BY DEF Init, CallInv, Fetching
<1> QED BY <1>1, <1>2, <1>3, <1>4 DEF Inv, ClearedInv, Init

-----------------------------------------------------------------------------
(***************************************************************************)
(* Steps that leave the clock, the cache and what was cleared alone, and   *)
(* start no fetch.                                                         *)
(***************************************************************************)
LEMMA CallStepInv ==
    ASSUME Inv, NEW c \in Call, Arrive(c) \/ Hit(c) \/ FetchAnswered(c) \/ FetchFailed(c) \/ Finish(c)
    PROVE  Inv'
<1> USE DEF Inv
<1>0. UNCHANGED <<now, cache, cleared>> /\ DOMAIN cache' = DOMAIN cache
  BY DEF Arrive, Hit, FetchAnswered, FetchFailed, Finish
<1>1. TypeOK'
  <2>1. CASE Hit(c)
    <3>1. cache[CacheKey(req[c])].options \in Options
      BY <2>1 DEF Hit, Cached, TypeOK
    <3> QED BY <1>0, <2>1, <3>1 DEF Hit, TypeOK
  <2>2. CASE FetchAnswered(c)
    <3>1. req[c] \in Request
      BY <2>2 DEF FetchAnswered, CallInv
    <3>2. [of |-> req[c], asOf |-> now] \in Options
      BY <3>1 DEF Options, TypeOK
    <3> QED BY <1>0, <2>2, <3>2 DEF FetchAnswered, TypeOK
  <2>3. CASE Arrive(c)
    BY <1>0, <2>3 DEF Arrive, TypeOK
  <2>4. CASE FetchFailed(c)
    BY <1>0, <2>4 DEF FetchFailed, TypeOK
  <2>5. CASE Finish(c)
    BY <1>0, <2>5, Limits DEF Finish, TypeOK
  <2> QED BY <2>1, <2>2, <2>3, <2>4, <2>5
<1>2. \A k \in DOMAIN cache' : EntryInv(k)'
  BY <1>0 DEF EntryInv
<1>3. ASSUME NEW d \in Call PROVE CallInv(d)'
  <2>1. CASE Hit(c)
    <3>1. /\ cache[CacheKey(req[c])].options \in Options
          /\ EntryInv(CacheKey(req[c]))
      BY <2>1 DEF Hit, Cached, TypeOK
    <3> QED BY <1>0, <2>1, <3>1 DEF Hit, TypeOK, CallInv, EntryInv, Fetching
  <2>2. CASE FetchAnswered(c)
    <3>1. req[c] \in Request /\ began[c] <= now
      BY <2>2 DEF FetchAnswered, CallInv, Fetching
    <3>2. [of |-> req[c], asOf |-> now] \in Options
      BY <3>1 DEF Options, TypeOK
    <3> QED BY <1>0, <2>2, <3>1, <3>2 DEF FetchAnswered, TypeOK, CallInv, Fetching
  <2>3. CASE Arrive(c)
    BY <1>0, <2>3 DEF Arrive, TypeOK, CallInv, Fetching
  <2>4. CASE FetchFailed(c)
    BY <1>0, <2>4 DEF FetchFailed, TypeOK, CallInv, Fetching
  <2>5. CASE Finish(c)
    BY <1>0, <2>5 DEF Finish, TypeOK, CallInv, Fetching
  <2> QED BY <2>1, <2>2, <2>3, <2>4, <2>5
<1>4. ClearedInv'
  <2> SUFFICES ASSUME NEW k \in cleared, NEW d \in Call, Fetching(d)'
               PROVE  k \notin DOMAIN cache /\ CacheKey(req'[d]) # k
    BY <1>0 DEF ClearedInv, CacheKey
  <2>1. Fetching(d) /\ req'[d] = req[d]
    BY DEF Arrive, Hit, FetchAnswered, FetchFailed, Finish, Fetching, TypeOK
  <2> QED BY <2>1 DEF ClearedInv
<1> QED BY <1>0, <1>1, <1>2, <1>3, <1>4

\* A fetch begins: its key is no longer a cleared one.
LEMMA MissInv ==
    ASSUME Inv, NEW c \in Call, Miss(c)
    PROVE  Inv'
<1> USE DEF Inv, Miss
<1>1. TypeOK'
  BY DEF TypeOK
<1>2. \A k \in DOMAIN cache' : EntryInv(k)'
  BY DEF EntryInv
<1>3. ASSUME NEW d \in Call PROVE CallInv(d)'
  BY <1>3, Limits DEF TypeOK, CallInv, Fetching
<1>4. ClearedInv'
  <2> SUFFICES ASSUME NEW k \in cleared', NEW d \in Call
               PROVE  k \notin DOMAIN cache' /\ (Fetching(d)' => CacheKey(req'[d]) # k)
    BY DEF ClearedInv, CacheKey
  <2>1. k \in cleared /\ k # CacheKey(req[c]) /\ req' = req /\ cache' = cache
    OBVIOUS
  <2>2. d # c => (Fetching(d)' <=> Fetching(d))
    BY DEF Fetching, TypeOK
  <2> QED BY <2>1, <2>2 DEF ClearedInv
<1> QED BY <1>1, <1>2, <1>3, <1>4

(***************************************************************************)
(* The put.  The call's own key is not cleared, as its fetch is in flight. *)
(***************************************************************************)
LEMMA PutInv ==
    ASSUME Inv, NEW c \in Call, Put(c)
    PROVE  Inv'
<1> DEFINE key == CacheKey(req[c])
           entry == [options |-> options[c], expires |-> now + TTL[req[c][1]]]
<1> USE DEF Inv
<1>1. /\ cache' = [k \in Kept \cup {key} |-> IF k = key THEN entry ELSE cache[k]]
      /\ pc' = [pc EXCEPT ![c] = "returned"] /\ pc[c] = "fetched"
      /\ UNCHANGED <<now, req, options, began, cleared>>
  BY DEF Put
<1>2. Kept \subseteq DOMAIN cache
  BY DEF Kept
<1>3. /\ req[c] \in Request /\ options[c] \in Options /\ options[c].of = req[c]
      /\ began[c] <= options[c].asOf /\ now <= began[c] + MaxFetch
  BY <1>1 DEF CallInv, Fetching
<1>4. key \in Key /\ key[1] = req[c][1] /\ TTL[key[1]] \in Nat
  BY <1>3, KeyOfLookup, Limits
<1>5. TypeOK'
  <2>1. DOMAIN cache' \subseteq Key
    BY <1>1, <1>2, <1>4 DEF TypeOK
  <2>2. ASSUME NEW k \in DOMAIN cache'
        PROVE  /\ cache'[k].options \in Options
               /\ cache'[k].expires \in 0..(MaxTime + TTL[k[1]])
               /\ DOMAIN cache'[k] = {"options", "expires"}
    <3>1. CASE k = key
      <4>1. cache'[k] = entry
        BY <1>1, <3>1
      <4>2. now + TTL[key[1]] \in 0..(MaxTime + TTL[key[1]])
        BY <1>4, Limits DEF TypeOK
      <4> QED BY <1>3, <1>4, <3>1, <4>1, <4>2
    <3>2. CASE k # key
      <4>1. cache'[k] = cache[k] /\ k \in DOMAIN cache
        BY <1>1, <1>2, <3>2
      <4> QED BY <4>1 DEF TypeOK
    <3> QED BY <3>1, <3>2
  <2> QED BY <1>1, <2>1, <2>2 DEF TypeOK
<1>6. IsFiniteSet(DOMAIN cache')
  <2>1. IsFiniteSet(Kept)
    BY <1>2, FS_Subset
  <2> QED BY <1>1, <2>1, FS_AddElement
<1>7. ASSUME NEW k \in DOMAIN cache' PROVE EntryInv(k)'
  <2>1. CASE k = key
    <3>1. cache'[k] = entry
      BY <1>1, <2>1
    <3>2. CacheKey(options[c].of) = k
      BY <1>3, <2>1
    <3>3. now + TTL[key[1]] <= options[c].asOf + MaxFetch + TTL[key[1]]
      BY <1>3, <1>4, Limits DEF TypeOK, Options
    <3>4. cache'[k].options = options[c] /\ cache'[k].expires = now + TTL[key[1]]
      BY <1>4, <3>1
    <3> HIDE DEF Inv, key, entry
    <3> QED BY <2>1, <3>2, <3>3, <3>4 DEF EntryInv, CacheKey
  <2>2. CASE k # key
    <3>1. cache'[k] = cache[k] /\ k \in DOMAIN cache
      BY <1>1, <1>2, <2>2
    <3> QED BY <3>1 DEF EntryInv, CacheKey
  <2> QED BY <2>1, <2>2
<1>8. ASSUME NEW d \in Call PROVE CallInv(d)'
  BY <1>1, <1>3 DEF TypeOK, CallInv, Fetching, CacheKey
<1>9. ClearedInv'
  <2> SUFFICES ASSUME NEW k \in cleared, NEW d \in Call
               PROVE  k \notin DOMAIN cache' /\ (Fetching(d)' => CacheKey(req[d]) # k)
    BY <1>1 DEF ClearedInv, CacheKey
  <2>1. k # key /\ k \notin DOMAIN cache
    BY <1>1 DEF ClearedInv, Fetching
  <2>2. Fetching(d)' => Fetching(d)
    BY <1>1 DEF Fetching, TypeOK
  <2> QED BY <1>1, <1>2, <2>1, <2>2 DEF ClearedInv
<1> QED BY <1>5, <1>6, <1>7, <1>8, <1>9

(***************************************************************************)
(* An Invalidate removes the keys it is for, and more.                     *)
(***************************************************************************)
LEMMA InvalidateInv ==
    ASSUME Inv, NEW l \in Lookup, NEW t \in Tenant \cup {AnyTenant}, Invalidate(l, t)
    PROVE  Inv'
<1> USE DEF Inv
<1>1. /\ DOMAIN cache' = DOMAIN cache \ Matching(l, t)
      /\ \A k \in DOMAIN cache' : cache'[k] = cache[k]
  BY DEF Invalidate, Restrict
<1>2. Addressed(l, t) \subseteq Matching(l, t)
  BY LookupAssumption DEF Addressed, Matching
<1>3. UNCHANGED <<now, pc, req, options, began>>
  BY DEF Invalidate, callVars
<1>4. TypeOK'
  <2>1. cleared' \in SUBSET Key
    BY DEF Invalidate, Addressed, TypeOK
  <2> QED BY <1>1, <1>3, <2>1 DEF TypeOK
<1>5. IsFiniteSet(DOMAIN cache')
  BY <1>1, FS_Subset
<1>6. \A k \in DOMAIN cache' : EntryInv(k)'
  BY <1>1 DEF EntryInv, CacheKey
<1>7. \A c \in Call : CallInv(c)'
  BY <1>3 DEF CallInv, Fetching, CacheKey
<1>8. ClearedInv'
  BY <1>1, <1>2, <1>3 DEF ClearedInv, Invalidate, Fetching, CacheKey
<1> QED BY <1>4, <1>5, <1>6, <1>7, <1>8

LEMMA TickInv == Inv /\ Tick => Inv'
<1> SUFFICES ASSUME Inv, Tick PROVE Inv'
  OBVIOUS
<1> USE DEF Inv, Tick, callVars
<1>1. TypeOK'
  BY Limits DEF TypeOK
<1>2. \A k \in DOMAIN cache' : EntryInv(k)'
  BY DEF EntryInv, CacheKey
<1>3. ASSUME NEW c \in Call PROVE CallInv(c)'
  BY <1>3, Limits DEF TypeOK, CallInv, Fetching, CacheKey
<1>4. ClearedInv'
  BY DEF ClearedInv, Fetching, CacheKey
<1> QED BY <1>1, <1>2, <1>3, <1>4

LEMMA NextInv == Inv /\ [Next]_vars => Inv'
<1> SUFFICES ASSUME Inv, [Next]_vars PROVE Inv'
  OBVIOUS
<1>1. CASE Tick
  BY <1>1, TickInv
<1>2. ASSUME NEW c \in Call, Arrive(c) \/ GetLookup(c) \/ Finish(c) PROVE Inv'
  BY <1>2, CallStepInv, MissInv, PutInv DEF GetLookup
<1>3. ASSUME NEW l \in Lookup, NEW t \in Tenant \cup {AnyTenant}, Invalidate(l, t) PROVE Inv'
  BY <1>3, InvalidateInv
<1>4. CASE UNCHANGED vars
  BY <1>4 DEF vars, callVars, Inv, TypeOK, EntryInv, CallInv, ClearedInv, Fetching, CacheKey
<1> QED BY <1>1, <1>2, <1>3, <1>4 DEF Next

LEMMA InvariantHolds == Spec => []Inv
BY InitInv, NextInv, PTL DEF Spec

-----------------------------------------------------------------------------
(***************************************************************************)
(* The cache holds entries under keys only, of options and an expiry.      *)
(***************************************************************************)
THEOREM TypeCorrect == Spec => []TypeOK
BY InvariantHolds, PTL DEF Inv

(***************************************************************************)
(* No call of GetLookup returns options of another tenant or partition     *)
(* than its scope lets it see, nor of another lookup.                      *)
(***************************************************************************)
THEOREM OwnOptions == Spec => []OptionsBelongToCaller
<1>1. Inv => OptionsBelongToCaller
  <2> SUFFICES ASSUME Inv, NEW c \in Call, pc[c] = "returned"
               PROVE  LET theirs == options[c].of
                      IN  /\ theirs[1] = req[c][1]
                          /\ Scope[req[c][1]] \in {"tenant", "partition"} => theirs[2] = req[c][2]
                          /\ Scope[req[c][1]] = "partition" => theirs[3] = req[c][3]
    BY DEF OptionsBelongToCaller
  <2>1. /\ options[c].of \in Request /\ req[c] \in Request
        /\ CacheKey(options[c].of) = CacheKey(req[c])
    BY DEF Inv, CallInv, Options
  <2> QED BY <2>1, KeyTellsCallersApart
<1> QED BY <1>1, InvariantHolds, PTL

(***************************************************************************)
(* What an Invalidate removed is not put back by a fetch that began        *)
(* before it, but for those then in flight.                                *)
(***************************************************************************)
THEOREM InvalidationIsNotUndone == Spec => []InvalidationHolds
<1>1. Inv => InvalidationHolds
  BY DEF Inv, ClearedInv, InvalidationHolds
<1> QED BY <1>1, InvariantHolds, PTL

(***************************************************************************)
(* Every list GetLookup returns was answered by the backend at most a TTL  *)
(* and a longest fetch ago, from the cache or not.                         *)
(***************************************************************************)
THEOREM RecentOptions == Spec => OptionsAreRecent
<1> DEFINE Recent == \A c \in Call : pc[c] # "returned" /\ pc'[c] = "returned" =>
                        options'[c].asOf + MaxFetch + TTL[req[c][1]] >= now
<1>1. Inv /\ [Next]_vars => [Recent]_vars
  <2> SUFFICES ASSUME Inv, Next, NEW c \in Call, pc[c] # "returned", pc'[c] = "returned"
               PROVE  options'[c].asOf + MaxFetch + TTL[req[c][1]] >= now
    OBVIOUS
  <2>1. Hit(c) \/ Put(c)
    <3>1. pc \in [Call -> {"idle", "lookup", "fetching", "fetched", "returned", "failed"}]
      BY DEF Inv, TypeOK
    <3>2. pc' # pc
      OBVIOUS
    <3>3. PICK d \in Call : Arrive(d) \/ GetLookup(d) \/ Finish(d)
      BY <3>2 DEF Next, Tick, Invalidate, callVars
    <3>4. pc' = [pc EXCEPT ![d] = pc'[d]] /\ pc'[d] = "returned" /\ d = c
      BY <3>1, <3>3 DEF Arrive, GetLookup, Hit, Miss, FetchAnswered, FetchFailed, Put, Finish
    <3> QED BY <3>1, <3>3, <3>4 DEF Arrive, GetLookup, Miss, FetchAnswered, FetchFailed, Finish
  <2>2. req[c] \in Request /\ CacheKey(req[c])[1] = req[c][1] /\ TTL[req[c][1]] \in Nat
    BY <2>1, KeyOfLookup, Limits DEF Hit, Put, Inv, CallInv
  <2>3. CASE Hit(c)
    <3> DEFINE e == cache[CacheKey(req[c])]
    <3>1. /\ CacheKey(req[c]) \in DOMAIN cache /\ now <= e.expires
          /\ options'[c] = e.options
      BY <2>3 DEF Hit, Cached, Expired, Inv, TypeOK
    <3>2. /\ e.expires <= e.options.asOf + MaxFetch + TTL[req[c][1]]
          /\ e.options.asOf \in Nat /\ e.expires \in Int
      BY <3>1, <2>2 DEF Inv, EntryInv, TypeOK, Options
    <3> QED BY <2>2, <3>1, <3>2, Limits DEF Inv, TypeOK
  <2>4. CASE Put(c)
    <3>1. /\ options' = options /\ began[c] <= options[c].asOf
          /\ now <= began[c] + MaxFetch /\ options[c].asOf \in Nat
      BY <2>4 DEF Put, Inv, CallInv, Fetching, Options
    <3> QED BY <2>2, <3>1, Limits DEF Inv, TypeOK
  <2> QED BY <2>1, <2>3, <2>4
<1> QED BY <1>1, InvariantHolds, PTL DEF Spec, OptionsAreRecent

(***************************************************************************)
(* putInCache takes an entry beyond MaxEntries only when none of those it  *)
(* keeps, nor the new one, is past its expiry.                             *)
(***************************************************************************)
THEOREM OverfullMeansAlive == Spec => OverfullOnlyWithLiveEntries
<1> DEFINE Alive == \A k \in DOMAIN cache' :
                       /\ Cardinality(DOMAIN cache') > MaxEntries
                       /\ ~(DOMAIN cache' \subseteq DOMAIN cache)
                       => now <= cache'[k].expires
<1>1. Inv /\ [Next]_vars => [Alive]_vars
  <2> SUFFICES ASSUME Inv, Next, NEW k \in DOMAIN cache',
                      Cardinality(DOMAIN cache') > MaxEntries, ~(DOMAIN cache' \subseteq DOMAIN cache)
               PROVE  now <= cache'[k].expires
    OBVIOUS
  <2>1. PICK c \in Call : Put(c)
    BY DEF Next, GetLookup, Tick, Arrive, Hit, Miss, FetchAnswered, FetchFailed, Put, Finish,
           Invalidate, callVars, Restrict
  <2> DEFINE key == CacheKey(req[c])
  <2>2. /\ cache' = [q \in Kept \cup {key} |->
                IF q = key THEN [options |-> options[c], expires |-> now + TTL[req[c][1]]]
                ELSE cache[q]]
        /\ req[c] \in Request
    BY <2>1 DEF Put, Inv, CallInv
  <2>3. MaxEntries \in Nat /\ TTL[req[c][1]] \in Nat /\ now \in Int
    BY <2>2, KeyOfLookup, Limits DEF Inv, TypeOK
  <2>4. Cardinality(DOMAIN cache) >= MaxEntries
    <3> SUFFICES ASSUME ~(Cardinality(DOMAIN cache) >= MaxEntries) PROVE FALSE
      OBVIOUS
    <3>1. Kept = DOMAIN cache
      BY DEF Kept
    <3>2. Cardinality(DOMAIN cache) \in Nat
      BY FS_CardinalityType DEF Inv
    <3>3. key \notin DOMAIN cache
      BY <2>2, <3>1
    <3>4. Cardinality(DOMAIN cache') = Cardinality(DOMAIN cache) + 1
      BY <2>2, <3>1, <3>3, FS_AddElement DEF Inv
    <3> QED BY <2>3, <3>2, <3>4
  <2>5. CASE k = key
    BY <2>2, <2>3, <2>5
  <2>6. CASE k # key
    <3>1. k \in DOMAIN cache /\ ~Expired(k) /\ cache'[k] = cache[k]
      BY <2>2, <2>4, <2>6 DEF Kept
    <3>2. cache[k].expires \in Int
      BY <3>1 DEF Inv, TypeOK
    <3> QED BY <2>3, <3>1, <3>2 DEF Expired
  <2> QED BY <2>5, <2>6
<1> QED BY <1>1, InvariantHolds, PTL DEF Spec, OverfullOnlyWithLiveEntries
=============================================================================
