---------------------------- MODULE LookupCache ----------------------------
(***************************************************************************)
(* pkg/search/lookup.go: LookupProvider, which turns lookup definitions    *)
(* into option lists and caches them.                                      *)
(*                                                                         *)
(* GetLookup reads the cache under the read lock, fetches from the backend *)
(* with no lock held, and puts the result under the write lock.  A key is  *)
(* as wide as the definition's cache scope: one entry for everybody, one   *)
(* per tenant, or one per partition.                                       *)
(***************************************************************************)
EXTENDS Integers, Sequences, FiniteSets, Functions

CONSTANTS
    Call,        \* concurrent calls of GetLookup
    Lookup,      \* lookup ids of the registry
    Scope,       \* Scope[l]: def.Cache.Scope, "" when there is none
    Extends,     \* Extends[l]: lookups whose id begins with the id l
    Tenant,
    Partition,
    Request,     \* what is asked: a lookup, by a caller of a tenant and partition
    AnyTenant,   \* the empty tenantID an Invalidate may be given
    MaxEntries,  \* LookupProvider.maxEntries
    TTL,         \* TTL[l]: def.Cache.TTL, or defaultTTL
    MaxFetch,    \* longest time one fetch takes (handler deadline)
    MaxTime      \* horizon of the clock (bounds the model)

(***************************************************************************)
(* Ids are opaque: no tenant id occurs inside another id of a cache key.   *)
(***************************************************************************)
ASSUME LookupAssumption ==
    /\ Scope \in [Lookup -> {"", "global", "tenant", "partition"}]
    /\ Extends \in [Lookup -> SUBSET Lookup]
    /\ \A l \in Lookup : l \in Extends[l]
    /\ Request \subseteq Lookup \X Tenant \X Partition
    /\ AnyTenant \notin Tenant
    /\ MaxEntries \in Nat \ {0}
    /\ TTL \in [Lookup -> Nat]
    /\ MaxFetch \in Nat
    /\ MaxTime \in Nat

VARIABLES
    now,      \* the monotonic clock behind time.Now()
    cache,    \* LookupProvider.cache: a function on the keys it holds
    pc,       \* pc[c]: where call c is in GetLookup
    req,      \* req[c]: the lookup, tenant and partition it asks for
    options,  \* options[c]: the list it fetched, then returned
    began,    \* history: when call c missed the cache
    cleared   \* history: keys an Invalidate was for while no fetch of them was in
              \* flight, and that have not been fetched since

callVars == <<pc, req, options, began>>
vars == <<now, cache, callVars, cleared>>

NoRequest == << >>

(***************************************************************************)
(* An option list, as far as anybody can tell one from another: whose      *)
(* options they are, and when the backend answered with them.              *)
(***************************************************************************)
Options == [of : Request, asOf : 0..MaxTime]

NoOptions == [of |-> NoRequest, asOf |-> 0]

\* Mutant of CacheKey: the partition scope forgets the partition.
CacheKeyWithoutPartition(r) ==
    IF Scope[r[1]] \in {"tenant", "partition"} THEN <<r[1], r[2]>> ELSE <<r[1]>>

\* buildCacheKey: a scope that is absent or unknown is the global one.
CacheKey(r) == CASE Scope[r[1]] = "tenant" -> <<r[1], r[2]>>
                 [] Scope[r[1]] = "partition" -> r
                 [] OTHER -> <<r[1]>>

Key == {CacheKey(r) : r \in Request}

\* Mutant of Expired: an entry is never past its expiry.
NeverExpired(k) == FALSE

Expired(k) == now > cache[k].expires

Cached(k) == k \in DOMAIN cache /\ ~Expired(k)

Fetching(c) == pc[c] \in {"fetching", "fetched"}

\* The keys of lookup l that mention tenant t, or all of them.
Addressed(l, t) == {k \in Key : k[1] = l /\ (t = AnyTenant \/ (Len(k) > 1 /\ k[2] = t))}

\* Mutant of Matching: the keys with a partition are not found.
MatchingWithoutPartition(l, t) ==
    {k \in Key : /\ k[1] \in Extends[l]
                 /\ t = AnyTenant \/ (Len(k) = 2 /\ k[2] = t)}

\* What an Invalidate of lookup l removes: a prefix match on the id, and,
\* given a tenant, only keys that mention it.
Matching(l, t) ==
    {k \in Key : /\ k[1] \in Extends[l]
                 /\ t = AnyTenant \/ (Len(k) > 1 /\ k[2] = t)}

-----------------------------------------------------------------------------
Init ==
    /\ now = 0
    /\ cache = << >>
    /\ pc = [c \in Call |-> "idle"]
    /\ req = [c \in Call |-> NoRequest]
    /\ options = [c \in Call |-> NoOptions]
    /\ began = [c \in Call |-> 0]
    /\ cleared = {}

\* A request for a lookup the registry knows (for another it is NOT_FOUND,
\* and touches nothing).
Arrive(c) ==
    /\ pc[c] = "idle"
    /\ pc' = [pc EXCEPT ![c] = "lookup"]
    /\ \E r \in Request : req' = [req EXCEPT ![c] = r]
    /\ UNCHANGED <<now, cache, options, began, cleared>>

\* getFromCache finds an entry that is not past its expiry.
Hit(c) ==
    /\ pc[c] = "lookup"
    /\ Cached(CacheKey(req[c]))
    /\ pc' = [pc EXCEPT ![c] = "returned"]
    /\ options' = [options EXCEPT ![c] = cache[CacheKey(req[c])].options]
    /\ UNCHANGED <<now, cache, req, began, cleared>>

\* Nothing usable: the lock is released and the backend invoked.
Miss(c) ==
    /\ pc[c] = "lookup"
    /\ ~Cached(CacheKey(req[c]))
    /\ pc' = [pc EXCEPT ![c] = "fetching"]
    /\ began' = [began EXCEPT ![c] = now]
    /\ cleared' = cleared \ {CacheKey(req[c])}
    /\ UNCHANGED <<now, cache, req, options>>

\* Mutant of FetchAnswered: the call goes back to look for the entry.
FetchAnsweredNowhere(c) ==
    /\ pc[c] = "fetching"
    /\ pc' = [pc EXCEPT ![c] = "answered"]
    /\ options' = [options EXCEPT ![c] = [of |-> req[c], asOf |-> now]]
    /\ UNCHANGED <<now, cache, req, began, cleared>>

\* The backend answers for the caller's own tenant and partition (the
\* invoker forwards both); the response is on its way.
FetchAnswered(c) ==
    /\ pc[c] = "fetching"
    /\ pc' = [pc EXCEPT ![c] = "fetched"]
    /\ options' = [options EXCEPT ![c] = [of |-> req[c], asOf |-> now]]
    /\ UNCHANGED <<now, cache, req, began, cleared>>

\* The invocation fails, or answers outside 2xx: an error, nothing cached,
\* and an expired entry is not served in its place.
FetchFailed(c) ==
    /\ pc[c] = "fetching"
    /\ pc' = [pc EXCEPT ![c] = "failed"]
    /\ UNCHANGED <<now, cache, req, options, began, cleared>>

\* Mutant of Kept: nothing is evicted at capacity.
KeptEverything == DOMAIN cache

\* evictExpired, which putInCache calls when the cache is at capacity.
Kept == IF Cardinality(DOMAIN cache) >= MaxEntries
        THEN {k \in DOMAIN cache : ~Expired(k)}
        ELSE DOMAIN cache

\* putInCache, then the answer.  The entry goes in whether or not evicting
\* made room.
Put(c) ==
    /\ pc[c] = "fetched"
    /\ LET key == CacheKey(req[c])
           entry == [options |-> options[c], expires |-> now + TTL[req[c][1]]]
       IN  cache' = [k \in Kept \cup {key} |-> IF k = key THEN entry ELSE cache[k]]
    /\ pc' = [pc EXCEPT ![c] = "returned"]
    /\ UNCHANGED <<now, req, options, began, cleared>>

\* The response is written.
Finish(c) ==
    /\ pc[c] \in {"returned", "failed"}
    /\ pc' = [pc EXCEPT ![c] = "idle"]
    /\ options' = [options EXCEPT ![c] = NoOptions]
    /\ began' = [began EXCEPT ![c] = 0]
    /\ req' = [req EXCEPT ![c] = NoRequest]
    /\ UNCHANGED <<now, cache, cleared>>

\* Invalidate(lookupID, tenantID), the latter possibly empty.
Invalidate(l, t) ==
    /\ cache' = Restrict(cache, DOMAIN cache \ Matching(l, t))
    /\ cleared' = cleared \cup
          {k \in Addressed(l, t) :
              ~\E c \in Call : Fetching(c) /\ CacheKey(req[c]) = k}
    /\ UNCHANGED <<now, callVars>>

\* Time passes, but no fetch outlives the request's deadline.
Tick ==
    /\ now < MaxTime
    /\ \A c \in Call : Fetching(c) => now < began[c] + MaxFetch
    /\ now' = now + 1
    /\ UNCHANGED <<cache, callVars, cleared>>

GetLookup(c) ==
    Hit(c) \/ Miss(c) \/ FetchAnswered(c) \/ FetchFailed(c) \/ Put(c)

Next ==
    \/ Tick
    \/ \E c \in Call : Arrive(c) \/ GetLookup(c) \/ Finish(c)
    \/ \E l \in Lookup, t \in Tenant \cup {AnyTenant} : Invalidate(l, t)

Spec == Init /\ [][Next]_vars

-----------------------------------------------------------------------------
TypeOK ==
    /\ now \in 0..MaxTime
    /\ DOMAIN cache \subseteq Key
    /\ \A k \in DOMAIN cache :
          /\ cache[k].options \in Options
          /\ cache[k].expires \in 0..(MaxTime + TTL[k[1]])
          /\ DOMAIN cache[k] = {"options", "expires"}
    /\ pc \in [Call -> {"idle", "lookup", "fetching", "fetched", "returned", "failed"}]
    /\ req \in [Call -> Request \cup {NoRequest}]
    /\ options \in [Call -> Options \cup {NoOptions}]
    /\ began \in [Call -> 0..MaxTime]
    /\ cleared \in SUBSET Key

(***************************************************************************)
(* No caller is given another's options: those of a tenant scoped lookup   *)
(* are its tenant's, those of a partition scoped one its partition's, and  *)
(* always those of the lookup it asked for, whoever filled the cache.      *)
(***************************************************************************)
OptionsBelongToCaller ==
    \A c \in Call : pc[c] = "returned" =>
        LET theirs == options[c].of
        IN  /\ theirs[1] = req[c][1]
            /\ Scope[req[c][1]] \in {"tenant", "partition"} => theirs[2] = req[c][2]
            /\ Scope[req[c][1]] = "partition" => theirs[3] = req[c][3]

(***************************************************************************)
(* The options a call returns are what the backend answered at most a TTL  *)
(* and a longest fetch ago, although an entry ages from the put and is     *)
(* still served at the instant it expires, and although a fetch that       *)
(* overlaps an Invalidate, or a later fetch, may put its result last.      *)
(***************************************************************************)
OptionsAreRecent ==
    [][\A c \in Call : pc[c] # "returned" /\ pc'[c] = "returned" =>
          options'[c].asOf + MaxFetch + TTL[req[c][1]] >= now]_vars

(***************************************************************************)
(* The cache grows past MaxEntries only while every entry in it is alive:  *)
(* what has expired makes room first.                                      *)
(***************************************************************************)
OverfullOnlyWithLiveEntries ==
    [][\A k \in DOMAIN cache' :
          /\ Cardinality(DOMAIN cache') > MaxEntries
          /\ ~(DOMAIN cache' \subseteq DOMAIN cache)
          => now <= cache'[k].expires]_vars

(***************************************************************************)
(* What Invalidate removed stays away until it is fetched anew, unless a   *)
(* fetch for it was in flight at the time.                                 *)
(***************************************************************************)
InvalidationHolds == cleared \cap DOMAIN cache = {}
=============================================================================
