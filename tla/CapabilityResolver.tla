------------------------ MODULE CapabilityResolver ------------------------
(***************************************************************************)
(* pkg/capability: Resolver, the in-memory capability cache every request  *)
(* goes through, and KetoPolicyEvaluator, which fills it.                  *)
(*                                                                         *)
(* A call of Resolve looks the key up under the read lock, releases it,    *)
(* evaluates with no lock held (any number of calls may evaluate the same  *)
(* key at once), and stores the outcome under the write lock.  The         *)
(* evaluation is not atomic: one BatchCheck per chunk, and from the first  *)
(* failed chunk on one Check per remaining request, each answered at its   *)
(* own instant.  Every disjunct that asks Keto has a twin in which the     *)
(* call fails: Keto is down, or the request's context is cancelled.        *)
(***************************************************************************)
EXTENDS KetoAuthority, Sequences

CONSTANTS
    Call,        \* concurrent calls of Resolve
    Checks,      \* KetoPolicyEvaluator.checks, a sequence of checks
    BatchSize,   \* maxBatchSize
    TTL,         \* Resolver.ttl
    MaxEval      \* longest time one evaluation takes (Keto client deadlines)

ASSUME ResolverAssumption ==
    /\ Checks \in Seq(Check)
    /\ BatchSize \in Nat \ {0}
    /\ TTL \in Nat
    /\ MaxEval \in Nat

VARIABLES
    cache,     \* Resolver.cache, by cacheKey
    pc,        \* pc[c]: where call c is in Resolve
    key,       \* key[c]: cacheKey of its request context
    pos,       \* pos[c]: first position of Checks not yet asked about
    caps,      \* caps[c]: the set gathered, then returned
    began,     \* history: when the evaluation behind caps[c] began
    failed,    \* history: positions of Checks that evaluation got no answer for
    at,        \* history: when call c returned
    cleared    \* history: keys invalidated with no evaluation of them in
               \* flight, and not evaluated since

callVars == <<pc, key, pos, caps, began, failed, at>>
vars == <<now, held, changedAt, cache, callVars, cleared>>

(***************************************************************************)
(* cacheEntry, with the two history fields.  Resolve tells an absent entry *)
(* from an expired one nowhere, so the absent one expires at 0.            *)
(***************************************************************************)
NoEntry == [caps |-> {}, expires |-> 0, began |-> 0, failed |-> {}]

Entry == [caps    : SUBSET Capability,
          expires : 0..(MaxTime + TTL),
          began   : 0..MaxTime,
          failed  : SUBSET DOMAIN Checks]

\* Mutant: an entry once stored never expires.
FreshForever(k) == cache[k].expires > 0

Fresh(k) == now < cache[k].expires

Evaluating(c) == pc[c] \in {"batch", "fallback"}

\* Mutant: a chunk ends one request early, the next one starts as before.
ChunkOneShort(i) == {j \in DOMAIN Checks : i <= j /\ j < i + BatchSize - 1}

\* The positions one BatchCheck covers when it starts at position i.
Chunk(i) == {j \in DOMAIN Checks : i <= j /\ j < i + BatchSize}

\* Mutant: the results are stitched in without looking at result.Allowed.
AllowedUnchecked(k, I) == {CapabilityOf[Checks[j]] : j \in I}

\* The capabilities Keto allows for k among the checks at positions I.
Allowed(k, I) == {CapabilityOf[Checks[j]] : j \in {i \in I : Checks[i] \in held[k]}}

\* The entries an Invalidate is about: every partition of s in t.
Addressed(s, t) == {s} \X {t} \X Partition

\* Mutant of Matching: the prefix ends before the tenant.
MatchingAnyTenant(s, t) == {k \in Key : k[1] = s}

\* Mutant of Matching: the prefix is built with the tenant first.
MatchingSwapped(s, t) == {k \in Key : k[1] = t /\ k[2] = s}

\* Keys whose colon-joined form starts with "subject:tenant:".
Matching(s, t) == {k \in Key : k[1] = s /\ k[2] = t}

-----------------------------------------------------------------------------
Init ==
    /\ AuthorityInit
    /\ cache = [k \in Key |-> NoEntry]
    /\ pc = [c \in Call |-> "idle"]
    /\ key \in [Call -> Key]
    /\ pos = [c \in Call |-> 1]
    /\ caps = [c \in Call |-> {}]
    /\ began = [c \in Call |-> 0]
    /\ failed = [c \in Call |-> {}]
    /\ at = [c \in Call |-> 0]
    /\ cleared = {}

\* A request reaches the resolver with its subject, tenant and partition.
Arrive(c) ==
    /\ pc[c] = "idle"
    /\ pc' = [pc EXCEPT ![c] = "lookup"]
    /\ \E k \in Key : key' = [key EXCEPT ![c] = k]
    /\ UNCHANGED <<now, held, changedAt, cache, pos, caps, began, failed, at, cleared>>

\* Under the read lock: a fresh entry is returned as it is.
Hit(c) ==
    /\ pc[c] = "lookup"
    /\ Fresh(key[c])
    /\ pc' = [pc EXCEPT ![c] = "returned"]
    /\ caps' = [caps EXCEPT ![c] = cache[key[c]].caps]
    /\ began' = [began EXCEPT ![c] = cache[key[c]].began]
    /\ failed' = [failed EXCEPT ![c] = cache[key[c]].failed]
    /\ at' = [at EXCEPT ![c] = now]
    /\ UNCHANGED <<now, held, changedAt, cache, key, pos, cleared>>

\* No fresh entry: the lock is released and an evaluation begins.
Miss(c) ==
    /\ pc[c] = "lookup"
    /\ ~Fresh(key[c])
    /\ pc' = [pc EXCEPT ![c] = "batch"]
    /\ pos' = [pos EXCEPT ![c] = 1]
    /\ began' = [began EXCEPT ![c] = now]
    /\ cleared' = cleared \ {key[c]}
    /\ UNCHANGED <<now, held, changedAt, cache, key, caps, failed, at>>

\* Mutant: the fallback credits an answer to the check after.
CheckAnsweredNext(c) ==
    /\ pc[c] = "fallback"
    /\ pos[c] <= Len(Checks)
    /\ pos' = [pos EXCEPT ![c] = @ + 1]
    /\ caps' = [caps EXCEPT ![c] = @ \cup
          {CapabilityOf[Checks[j]] : j \in {i \in DOMAIN Checks :
               i = pos[c] + 1 /\ Checks[pos[c]] \in held[key[c]]}}]
    /\ UNCHANGED <<now, held, changedAt, cache, pc, key, began, failed, at, cleared>>

\* Mutant: the chunk loop tests where the chunk before began.
BatchAnsweredPastEnd(c) ==
    /\ pc[c] = "batch"
    /\ pos[c] <= Len(Checks) + BatchSize
    /\ caps' = [caps EXCEPT ![c] = @ \cup Allowed(key[c], Chunk(pos[c]))]
    /\ pos' = [pos EXCEPT ![c] = @ + BatchSize]
    /\ UNCHANGED <<now, held, changedAt, cache, pc, key, began, failed, at, cleared>>

\* Keto answers one chunk.
BatchAnswered(c) ==
    /\ pc[c] = "batch"
    /\ pos[c] <= Len(Checks)
    /\ caps' = [caps EXCEPT ![c] = @ \cup Allowed(key[c], Chunk(pos[c]))]
    /\ pos' = [pos EXCEPT ![c] = @ + BatchSize]
    /\ UNCHANGED <<now, held, changedAt, cache, pc, key, began, failed, at, cleared>>

\* Mutant: a failed chunk restarts the evaluation instead of falling back.
BatchFailedRestart(c) ==
    /\ pc[c] = "batch"
    /\ pos[c] <= Len(Checks)
    /\ pos' = [pos EXCEPT ![c] = 1]
    /\ caps' = [caps EXCEPT ![c] = {}]
    /\ UNCHANGED <<now, held, changedAt, cache, pc, key, began, failed, at, cleared>>

\* Mutant: the fallback is handed what comes after the chunk that failed.
BatchFailedSkipsChunk(c) ==
    /\ pc[c] = "batch"
    /\ pos[c] <= Len(Checks)
    /\ pc' = [pc EXCEPT ![c] = "fallback"]
    /\ pos' = [pos EXCEPT ![c] = @ + BatchSize]
    /\ UNCHANGED <<now, held, changedAt, cache, key, caps, began, failed, at, cleared>>

\* BatchCheck fails: everything from this chunk on is asked one by one.
BatchFailed(c) ==
    /\ pc[c] = "batch"
    /\ pos[c] <= Len(Checks)
    /\ pc' = [pc EXCEPT ![c] = "fallback"]
    /\ UNCHANGED <<now, held, changedAt, cache, key, pos, caps, began, failed, at, cleared>>

\* Keto answers one individual Check of the fallback.
CheckAnswered(c) ==
    /\ pc[c] = "fallback"
    /\ pos[c] <= Len(Checks)
    /\ caps' = [caps EXCEPT ![c] = @ \cup Allowed(key[c], {pos[c]})]
    /\ pos' = [pos EXCEPT ![c] = @ + 1]
    /\ UNCHANGED <<now, held, changedAt, cache, pc, key, began, failed, at, cleared>>

\* An individual Check fails: it is logged and skipped, never reported.
CheckFailed(c) ==
    /\ pc[c] = "fallback"
    /\ pos[c] <= Len(Checks)
    /\ pos' = [pos EXCEPT ![c] = @ + 1]
    /\ failed' = [failed EXCEPT ![c] = @ \cup {pos[c]}]
    /\ UNCHANGED <<now, held, changedAt, cache, pc, key, caps, began, at, cleared>>

(***************************************************************************)
(* Every check is behind: the set is stored under the write lock, over     *)
(* whatever is there, to expire TTL after the store, and returned.  The    *)
(* error return before the store is unreachable: fallbackIndividualChecks  *)
(* and StaticPolicyEvaluator return a nil error in every case.             *)
(***************************************************************************)
Store(c) ==
    /\ Evaluating(c)
    /\ pos[c] > Len(Checks)
    /\ cache' = [cache EXCEPT ![key[c]] =
          [caps |-> caps[c], expires |-> now + TTL,
           began |-> began[c], failed |-> failed[c]]]
    /\ pc' = [pc EXCEPT ![c] = "returned"]
    /\ at' = [at EXCEPT ![c] = now]
    /\ UNCHANGED <<now, held, changedAt, key, pos, caps, began, failed, cleared>>

\* The handler is done with the request and its capability set.
Finish(c) ==
    /\ pc[c] = "returned"
    /\ pc' = [pc EXCEPT ![c] = "idle"]
    /\ pos' = [pos EXCEPT ![c] = 1]
    /\ caps' = [caps EXCEPT ![c] = {}]
    /\ began' = [began EXCEPT ![c] = 0]
    /\ failed' = [failed EXCEPT ![c] = {}]
    /\ at' = [at EXCEPT ![c] = 0]
    /\ UNCHANGED <<now, held, changedAt, cache, key, cleared>>

\* Resolver.Invalidate: every partition of the subject in the tenant.
Invalidate(s, t) ==
    /\ cache' = [k \in Key |-> IF k \in Matching(s, t) THEN NoEntry ELSE cache[k]]
    /\ cleared' = cleared \cup
          {k \in Addressed(s, t) : ~\E c \in Call : Evaluating(c) /\ key[c] = k}
    /\ UNCHANGED <<now, held, changedAt, callVars>>

\* Time passes, but no evaluation outlives the deadlines of Keto's client.
TimePasses ==
    /\ \A c \in Call : Evaluating(c) => now < began[c] + MaxEval
    /\ Tick
    /\ UNCHANGED <<cache, callVars, cleared>>

Resolve(c) ==
    \/ Hit(c) \/ Miss(c)
    \/ BatchAnswered(c) \/ BatchFailed(c)
    \/ CheckAnswered(c) \/ CheckFailed(c)
    \/ Store(c)

Next ==
    \/ Administer /\ UNCHANGED <<cache, callVars, cleared>>
    \/ TimePasses
    \/ \E c \in Call : Arrive(c) \/ Resolve(c) \/ Finish(c)
    \/ \E s \in Subject, t \in Tenant : Invalidate(s, t)

Spec == Init /\ [][Next]_vars

\* A call that has begun goes on: its goroutine runs, and Keto's client
\* answers or fails within its deadline.  Nothing else need ever happen.
FairSpec == Spec /\ \A c \in Call : WF_vars(Resolve(c))

-----------------------------------------------------------------------------
TypeOK ==
    /\ AuthorityTypeOK
    /\ cache \in [Key -> Entry]
    /\ pc \in [Call -> {"idle", "lookup", "batch", "fallback", "returned"}]
    /\ key \in [Call -> Key]
    /\ pos \in [Call -> 1..(Len(Checks) + BatchSize)]
    /\ caps \in [Call -> SUBSET Capability]
    /\ began \in [Call -> 0..MaxTime]
    /\ failed \in [Call -> SUBSET DOMAIN Checks]
    /\ at \in [Call -> 0..MaxTime]
    /\ cleared \in SUBSET Key

(***************************************************************************)
(* Revocation takes effect: a capability that a call returns at time at[c] *)
(* was held by that subject in that tenancy path within the longest        *)
(* evaluation plus the TTL before, whatever revocations, invalidations,    *)
(* overlapping evaluations and Keto failures came in between.  The entry   *)
(* ages from the store, not from the evidence, hence MaxEval; a slow       *)
(* evaluation may overwrite a newer entry or undo an Invalidate, and this  *)
(* still bounds how stale its outcome can be.                              *)
(***************************************************************************)
RevocationTakesEffect ==
    \A c \in Call : pc[c] = "returned" =>
        \A p \in caps[c] : GrantedSince(key[c], p, at[c] - (MaxEval + TTL))

(***************************************************************************)
(* No right is lost in the stitching: a capability held without a break    *)
(* since before an evaluation began is in the set it produced, at whatever *)
(* position of whichever chunk, and whether Keto answered for it in a      *)
(* batch or in the fallback that took over at whichever position; and the  *)
(* set is served from the cache whole.  Only a check whose own question    *)
(* failed may be missing.                                                  *)
(***************************************************************************)
HeldCapabilitiesReturned ==
    \A c \in Call : pc[c] = "returned" =>
        \A i \in DOMAIN Checks \ failed[c] :
            HeldThroughout(key[c], Checks[i], began[c]) =>
                CapabilityOf[Checks[i]] \in caps[c]

(***************************************************************************)
(* Invalidate reaches every partition of the subject in the tenant, and is *)
(* not undone by calls that begin later: until the key is evaluated anew,  *)
(* nothing is cached for it, if none of its evaluations was in flight when *)
(* Invalidate ran.                                                         *)
(***************************************************************************)
InvalidationHolds == \A k \in cleared : cache[k] = NoEntry

(***************************************************************************)
(* Invalidate reaches nobody else: an entry goes away without being        *)
(* replaced by an evaluation of its key only when an Invalidate was for    *)
(* its subject and its tenant.                                             *)
(***************************************************************************)
InvalidationSparesOthers ==
    [][\A k \in Key : cache[k] # NoEntry /\ cache'[k] = NoEntry =>
          k \in cleared' \/ \E c \in Call : Evaluating(c) /\ key[c] = k]_vars

(***************************************************************************)
(* middleware.go, on ResolveCapabilities: "If the authorization service is *)
(* unavailable the request fails with 502".  A call all of whose questions *)
(* to Keto failed must not return a capability set.                        *)
(***************************************************************************)
OutageFailsRequest == \A c \in Call : pc[c] = "returned" => failed[c] # DOMAIN Checks

(***************************************************************************)
(* Every call returns, even when Keto fails every question it is asked.    *)
(***************************************************************************)
EveryCallReturns == \A c \in Call : pc[c] = "lookup" ~> pc[c] = "returned"

-----------------------------------------------------------------------------
(***************************************************************************)
(* Refinement: a call is asking until it returns.                          *)
(***************************************************************************)
PhaseOf(c) == IF pc[c] = "idle" THEN "idle"
              ELSE IF pc[c] = "returned" THEN "answered" ELSE "asking"

AnswerOf(c) == IF pc[c] = "returned" THEN caps[c] ELSE {}

Promise == INSTANCE CapabilityPromise WITH
    Window <- MaxEval + TTL,
    phase  <- [c \in Call |-> PhaseOf(c)],
    answer <- [c \in Call |-> AnswerOf(c)]

\* The resolver keeps what CapabilityPromise promises.
KeepsPromise == Promise!Spec
=============================================================================
