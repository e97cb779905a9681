--------------------- MODULE CapabilityResolverProofs ---------------------
(***************************************************************************)
(* Theorems about CapabilityResolver, for any number of calls, subjects,   *)
(* tenants, partitions and checks, any chunk size, TTL and deadline.       *)
(***************************************************************************)
EXTENDS CapabilityResolver, TLAPS

-----------------------------------------------------------------------------
(***************************************************************************)
(* The inductive invariant.  Evidence: every capability of S was held by k *)
(* since t.  Complete: of the checks before position n, those that held    *)
(* throughout since t are in S, or among those F that Keto did not answer. *)
(***************************************************************************)
Evidence(k, S, t) == \A p \in S : GrantedSince(k, p, t)

Complete(k, n, S, F, t) ==
    \A i \in DOMAIN Checks \ F :
        i < n /\ HeldThroughout(k, Checks[i], t) => CapabilityOf[Checks[i]] \in S

EntryInv(k) ==
    /\ cache[k].began <= now
    /\ cache[k].expires <= cache[k].began + MaxEval + TTL
    /\ Evidence(k, cache[k].caps, cache[k].began)
    /\ cache[k].expires > 0 =>
          Complete(k, Len(Checks) + 1, cache[k].caps, cache[k].failed, cache[k].began)

CallInv(c) ==
    /\ began[c] <= now
    /\ Evidence(key[c], caps[c], began[c])
    /\ pc[c] \in {"idle", "lookup"} => caps[c] = {}
    /\ Evaluating(c) =>
          /\ now <= began[c] + MaxEval
          /\ Complete(key[c], pos[c], caps[c], failed[c], began[c])
    /\ pc[c] = "returned" =>
          /\ at[c] <= now
          /\ at[c] <= began[c] + MaxEval + TTL
          /\ Complete(key[c], Len(Checks) + 1, caps[c], failed[c], began[c])

ClearedInv ==
    \A k \in cleared :
        /\ cache[k] = NoEntry
        /\ \A c \in Call : Evaluating(c) => key[c] # k

Inv ==
    /\ TypeOK
    /\ \A k \in Key : EntryInv(k)
    /\ \A c \in Call : CallInv(c)
    /\ ClearedInv

\* How any step of the specification changes the environment.
AuthorityStep == Administer \/ Tick \/ UNCHANGED <<now, held, changedAt>>

-----------------------------------------------------------------------------
(***************************************************************************)
(* Every step is a step of the environment or leaves it alone.             *)
(***************************************************************************)
LEMMA NextAuthority == [Next]_vars => AuthorityStep
BY DEF Next, vars, callVars, Resolve, Arrive, Hit, Miss, BatchAnswered, BatchFailed,
       CheckAnswered, CheckFailed, Store, Finish, Invalidate, TimePasses, AuthorityStep

(***************************************************************************)
(* The environment keeps its types, and its clock never goes back.         *)
(***************************************************************************)
LEMMA AuthorityType ==
    AuthorityTypeOK /\ AuthorityStep => AuthorityTypeOK' /\ now <= now'
<1> SUFFICES ASSUME AuthorityTypeOK, AuthorityStep
             PROVE  AuthorityTypeOK' /\ now <= now'
  OBVIOUS
<1> USE DEF AuthorityTypeOK
<1>1. CASE Administer
  <2> PICK k \in Key, x \in Check : Grant(k, x) \/ Revoke(k, x)
    BY <1>1 DEF Administer
  <2>1. now' = now
    BY <1>1 DEF Administer
  <2>2. held' \in [Key -> SUBSET Check]
    BY DEF Grant, Revoke
  <2>3. changedAt' = [changedAt EXCEPT ![k][x] = now]
    BY DEF Grant, Revoke
  <2> QED
    BY <2>1, <2>2, <2>3, AuthorityAssumption
<1>2. CASE Tick
  BY <1>2, AuthorityAssumption DEF Tick
<1>3. CASE UNCHANGED <<now, held, changedAt>>
  BY <1>3
<1> QED
  BY <1>1, <1>2, <1>3 DEF AuthorityStep

(***************************************************************************)
(* Evidence that a capability was held since t stays evidence.             *)
(***************************************************************************)
LEMMA GrantedSinceStable ==
    ASSUME AuthorityTypeOK, AuthorityStep,
           NEW k \in Key, NEW p, NEW t \in Int, t <= now, GrantedSince(k, p, t)
    PROVE  GrantedSince(k, p, t)'
<1> USE DEF AuthorityTypeOK
<1> PICK x \in Check : CapabilityOf[x] = p /\ HeldSince(k, x, t)
  BY DEF GrantedSince
<1> SUFFICES HeldSince(k, x, t)'
  BY DEF GrantedSince
<1>1. CASE Administer
  <2> PICK k2 \in Key, x2 \in Check : Grant(k2, x2) \/ Revoke(k2, x2)
    BY <1>1 DEF Administer
  <2>1. CASE k2 = k /\ x2 = x
    BY <2>1 DEF Grant, Revoke, HeldSince
  <2>2. CASE ~(k2 = k /\ x2 = x)
    BY <2>2 DEF Grant, Revoke, HeldSince
  <2> QED
    BY <2>1, <2>2
<1>2. CASE Tick \/ UNCHANGED <<now, held, changedAt>>
  BY <1>2 DEF Tick, HeldSince
<1> QED
  BY <1>1, <1>2 DEF AuthorityStep

(***************************************************************************)
(* A check that has held without a break since before t did so one step    *)
(* earlier.                                                                *)
(***************************************************************************)
LEMMA HeldThroughoutBefore ==
    ASSUME AuthorityTypeOK, AuthorityStep,
           NEW k \in Key, NEW x \in Check, NEW t \in Int, t <= now,
           HeldThroughout(k, x, t)'
    PROVE  HeldThroughout(k, x, t)
<1> USE DEF AuthorityTypeOK
<1>1. CASE Administer
  <2> PICK k2 \in Key, x2 \in Check : Grant(k2, x2) \/ Revoke(k2, x2)
    BY <1>1 DEF Administer
  <2>1. CASE k2 = k /\ x2 = x
    BY <2>1 DEF Grant, Revoke, HeldThroughout
  <2>2. CASE ~(k2 = k /\ x2 = x)
    BY <2>2 DEF Grant, Revoke, HeldThroughout
  <2> QED
    BY <2>1, <2>2
<1>2. CASE Tick \/ UNCHANGED <<now, held, changedAt>>
  BY <1>2 DEF Tick, HeldThroughout
<1> QED
  BY <1>1, <1>2 DEF AuthorityStep

-----------------------------------------------------------------------------
(***************************************************************************)
(* What one answer of Keto says of the checks it covers.                   *)
(***************************************************************************)
LEMMA AllowedEvidence ==
    ASSUME TypeOK, NEW k \in Key, NEW I \in SUBSET DOMAIN Checks, NEW t
    PROVE  /\ Allowed(k, I) \in SUBSET Capability
           /\ Evidence(k, Allowed(k, I), t)
           /\ \A i \in I : HeldThroughout(k, Checks[i], t) =>
                 CapabilityOf[Checks[i]] \in Allowed(k, I)
<1>1. \A i \in DOMAIN Checks : Checks[i] \in Check /\ CapabilityOf[Checks[i]] \in Capability
  BY ResolverAssumption, AuthorityAssumption
<1>2. Allowed(k, I) \in SUBSET Capability
  BY <1>1 DEF Allowed
<1>3. ASSUME NEW p \in Allowed(k, I)
      PROVE  GrantedSince(k, p, t)
  <2> PICK i \in I : Checks[i] \in held[k] /\ p = CapabilityOf[Checks[i]]
    BY <1>3 DEF Allowed
  <2> QED
    BY <1>1 DEF GrantedSince, HeldSince
<1>4. ASSUME NEW i \in I, HeldThroughout(k, Checks[i], t)
      PROVE  CapabilityOf[Checks[i]] \in Allowed(k, I)
  BY <1>4 DEF HeldThroughout, Allowed
<1> QED
  BY <1>2, <1>3, <1>4 DEF Evidence

(***************************************************************************)
(* The prefix finds the keys an Invalidate is about, and no others.        *)
(***************************************************************************)
LEMMA AddressedIsMatching ==
    ASSUME NEW s \in Subject, NEW t \in Tenant PROVE Addressed(s, t) = Matching(s, t)
BY DEF Addressed, Matching, Key

-----------------------------------------------------------------------------
(***************************************************************************)
(* Type correctness.                                                       *)
(***************************************************************************)
LEMMA NoEntryType == NoEntry \in Entry
BY AuthorityAssumption, ResolverAssumption DEF NoEntry, Entry

LEMMA InitType == Init => TypeOK
BY NoEntryType, AuthorityAssumption, ResolverAssumption
   DEF Init, AuthorityInit, TypeOK, AuthorityTypeOK

LEMMA NextType == TypeOK /\ [Next]_vars => TypeOK'
<1> SUFFICES ASSUME TypeOK, [Next]_vars
             PROVE  TypeOK'
  OBVIOUS
<1>1. AuthorityTypeOK'
  BY NextAuthority, AuthorityType DEF TypeOK
<1>2. now \in 0..MaxTime /\ Len(Checks) \in Nat
  BY ResolverAssumption DEF TypeOK, AuthorityTypeOK
<1> USE <1>1, <1>2, AuthorityAssumption, ResolverAssumption DEF TypeOK
<1>3. ASSUME NEW c \in Call, Arrive(c)
      PROVE  TypeOK'
  BY <1>3 DEF Arrive
<1>4. ASSUME NEW c \in Call, Hit(c)
      PROVE  TypeOK'
  <2>1. cache[key[c]] \in Entry
    OBVIOUS
  <2>2. /\ cache[key[c]].caps \in SUBSET Capability
        /\ cache[key[c]].began \in 0..MaxTime
        /\ cache[key[c]].failed \in SUBSET DOMAIN Checks
    BY <2>1 DEF Entry
  <2> QED
    BY <1>4, <2>2 DEF Hit
<1>5. ASSUME NEW c \in Call, Miss(c)
      PROVE  TypeOK'
  BY <1>5 DEF Miss
<1>6. ASSUME NEW c \in Call, BatchAnswered(c)
      PROVE  TypeOK'
  <2>1. Allowed(key[c], Chunk(pos[c])) \in SUBSET Capability
    BY AllowedEvidence DEF Chunk
  <2> QED
    BY <1>6, <2>1 DEF BatchAnswered
<1>7. ASSUME NEW c \in Call, BatchFailed(c)
      PROVE  TypeOK'
  BY <1>7 DEF BatchFailed
<1>8. ASSUME NEW c \in Call, CheckAnswered(c)
      PROVE  TypeOK'
  <2>1. {pos[c]} \in SUBSET DOMAIN Checks
    BY <1>8 DEF CheckAnswered
  <2>2. Allowed(key[c], {pos[c]}) \in SUBSET Capability
    BY <2>1, AllowedEvidence
  <2>3. caps' \in [Call -> SUBSET Capability]
    BY <1>8, <2>2 DEF CheckAnswered
  <2>4. pos' \in [Call -> 1..(Len(Checks) + BatchSize)]
    BY <1>8 DEF CheckAnswered
  <2> QED
    BY <1>8, <2>3, <2>4 DEF CheckAnswered
<1>9. ASSUME NEW c \in Call, CheckFailed(c)
      PROVE  TypeOK'
  BY <1>9 DEF CheckFailed
<1>10. ASSUME NEW c \in Call, Store(c)
       PROVE  TypeOK'
  <2>1. [caps |-> caps[c], expires |-> now + TTL,
         began |-> began[c], failed |-> failed[c]] \in Entry
    BY DEF Entry
  <2> QED
    BY <1>10, <2>1 DEF Store
<1>11. ASSUME NEW c \in Call, Finish(c)
       PROVE  TypeOK'
  BY <1>11 DEF Finish
<1>12. ASSUME NEW s \in Subject, NEW t \in Tenant, Invalidate(s, t)
       PROVE  TypeOK'
  <2>1. Addressed(s, t) \in SUBSET Key
    BY AddressedIsMatching DEF Matching
  <2> QED
    BY <1>12, <2>1, NoEntryType DEF Invalidate, callVars
<1>13. CASE \/ Administer /\ UNCHANGED <<cache, callVars, cleared>>
            \/ TimePasses
            \/ UNCHANGED vars
  BY <1>13 DEF TimePasses, vars, callVars
<1> QED
  BY <1>3, <1>4, <1>5, <1>6, <1>7, <1>8, <1>9, <1>10, <1>11, <1>12, <1>13
     DEF Next, Resolve

(***************************************************************************)
(* Every reachable state of the resolver has its types.                    *)
(***************************************************************************)
THEOREM TypeCorrect == Spec => []TypeOK
BY InitType, NextType, PTL DEF Spec

-----------------------------------------------------------------------------
(***************************************************************************)
(* The invariant holds initially.                                          *)
(***************************************************************************)
LEMMA InitInv == Init => Inv
<1> SUFFICES ASSUME Init
             PROVE  Inv
  OBVIOUS
<1> USE AuthorityAssumption, ResolverAssumption
<1>1. TypeOK
  BY InitType
<1>2. \A k \in Key : EntryInv(k)
  BY DEF Init, AuthorityInit, NoEntry, EntryInv, Evidence
<1>3. \A c \in Call : CallInv(c)
  BY DEF Init, AuthorityInit, CallInv, Evidence, Evaluating
<1>4. ClearedInv
  BY DEF Init, ClearedInv
<1> QED
  BY <1>1, <1>2, <1>3, <1>4 DEF Inv

(***************************************************************************)
(* Evidence and completeness survive a step that leaves their subject      *)
(* alone: tuples change, but only at the present.                          *)
(***************************************************************************)
LEMMA EvidenceStable ==
    ASSUME AuthorityTypeOK, AuthorityStep,
           NEW k \in Key, NEW S, NEW t \in Int, t <= now, Evidence(k, S, t)
    PROVE  \A p \in S : GrantedSince(k, p, t)'
BY GrantedSinceStable DEF Evidence

LEMMA CompleteStable ==
    ASSUME AuthorityTypeOK, AuthorityStep,
           NEW k \in Key, NEW n, NEW S, NEW F, NEW t \in Int, t <= now,
           Complete(k, n, S, F, t)
    PROVE  \A i \in DOMAIN Checks \ F :
              i < n /\ HeldThroughout(k, Checks[i], t)' => CapabilityOf[Checks[i]] \in S
<1>1. \A i \in DOMAIN Checks : Checks[i] \in Check
  BY ResolverAssumption
<1> QED
  BY <1>1, HeldThroughoutBefore DEF Complete

LEMMA EntryStable ==
    ASSUME Inv, AuthorityStep, NEW k \in Key, cache'[k] = cache[k]
    PROVE  EntryInv(k)'
<1>1. AuthorityTypeOK /\ cache[k] \in Entry /\ cache[k].began \in Int
  BY DEF Inv, TypeOK, Entry
<1>2. AuthorityTypeOK' /\ now <= now' /\ now \in Int /\ now' \in Int
  BY <1>1, AuthorityType DEF AuthorityTypeOK
<1>3. EntryInv(k)
  BY DEF Inv
<1>4. Evidence(k, cache[k].caps, cache[k].began)'
  BY <1>1, <1>3, EvidenceStable DEF EntryInv, Evidence
<1>5. Complete(k, Len(Checks) + 1, cache[k].caps, cache[k].failed, cache[k].began) =>
          Complete(k, Len(Checks) + 1, cache[k].caps, cache[k].failed, cache[k].began)'
  BY <1>1, <1>3, CompleteStable DEF EntryInv, Complete
<1> QED
  BY <1>1, <1>2, <1>3, <1>4, <1>5 DEF EntryInv

LEMMA CallStable ==
    ASSUME Inv, AuthorityStep, NEW c \in Call,
           pc'[c] = pc[c], key'[c] = key[c], pos'[c] = pos[c], caps'[c] = caps[c],
           began'[c] = began[c], failed'[c] = failed[c], at'[c] = at[c],
           Evaluating(c) => now' <= began[c] + MaxEval
    PROVE  CallInv(c)'
<1>1. AuthorityTypeOK /\ key[c] \in Key /\ began[c] \in Int /\ at[c] \in Int
  BY DEF Inv, TypeOK
<1>2. AuthorityTypeOK' /\ now <= now' /\ now \in Int /\ now' \in Int
  BY <1>1, AuthorityType DEF AuthorityTypeOK
<1>3. CallInv(c)
  BY DEF Inv
<1>4. Evidence(key[c], caps[c], began[c])'
  BY <1>1, <1>3, EvidenceStable DEF CallInv, Evidence
<1>5. \A n : Complete(key[c], n, caps[c], failed[c], began[c]) =>
                 Complete(key[c], n, caps[c], failed[c], began[c])'
  BY <1>1, <1>3, CompleteStable DEF CallInv, Complete
<1>6. Complete(key[c], pos[c], caps[c], failed[c], began[c]) =>
          Complete(key[c], pos[c], caps[c], failed[c], began[c])'
  BY <1>1, <1>3, CompleteStable DEF CallInv, Complete
<1> QED
  BY <1>1, <1>2, <1>3, <1>4, <1>5, <1>6 DEF CallInv, Evaluating

(***************************************************************************)
(* What a step of one call leaves alone.                                   *)
(***************************************************************************)
OthersUnchanged(c) ==
    \A d \in Call \ {c} :
        /\ pc'[d] = pc[d] /\ key'[d] = key[d] /\ pos'[d] = pos[d]
        /\ caps'[d] = caps[d] /\ began'[d] = began[d]
        /\ failed'[d] = failed[d] /\ at'[d] = at[d]

LEMMA OthersStable ==
    ASSUME Inv, AuthorityStep, now' = now, NEW c \in Call, OthersUnchanged(c)
    PROVE  \A d \in Call \ {c} : CallInv(d)'
<1> SUFFICES ASSUME NEW d \in Call \ {c}
             PROVE  CallInv(d)'
  OBVIOUS
<1>1. Evaluating(d) => now' <= began[d] + MaxEval
  BY DEF Inv, CallInv
<1> QED
  BY <1>1, CallStable DEF OthersUnchanged

(***************************************************************************)
(* The steps of one call, one lemma per action.                            *)
(***************************************************************************)
LEMMA ArriveInv == ASSUME Inv, TypeOK', NEW c \in Call, Arrive(c) PROVE Inv'
<1>1. AuthorityStep /\ now' = now
  BY DEF Arrive, AuthorityStep
<1>2. \A k \in Key : EntryInv(k)'
  BY <1>1, EntryStable DEF Arrive
<1>3. OthersUnchanged(c)
  BY DEF Arrive, OthersUnchanged, Inv, TypeOK
<1>4. CallInv(c)'
  BY DEF Arrive, CallInv, Evidence, Evaluating, Inv, TypeOK
<1>5. ClearedInv'
  BY DEF Arrive, ClearedInv, Evaluating, Inv, TypeOK
<1> QED
  BY <1>1, <1>2, <1>3, <1>4, <1>5, OthersStable DEF Inv

LEMMA HitInv == ASSUME Inv, TypeOK', NEW c \in Call, Hit(c) PROVE Inv'
<1> DEFINE e == cache[key[c]]
<1>1. AuthorityStep /\ now' = now
  BY DEF Hit, AuthorityStep
<1>2. \A k \in Key : EntryInv(k)'
  BY <1>1, EntryStable DEF Hit
<1>3. OthersUnchanged(c)
  BY DEF Hit, OthersUnchanged, Inv, TypeOK
<1>4. CallInv(c)'
  <2>1. key[c] \in Key /\ e \in Entry /\ EntryInv(key[c])
    BY DEF Inv, TypeOK
  <2>2. /\ pc'[c] = "returned" /\ key'[c] = key[c] /\ caps'[c] = e.caps
        /\ began'[c] = e.began /\ failed'[c] = e.failed /\ at'[c] = now
        /\ now < e.expires
    BY DEF Hit, Fresh, Inv, TypeOK
  <2>3. /\ now \in Nat /\ e.began \in Nat /\ e.expires \in Nat
    BY <2>1, AuthorityAssumption, ResolverAssumption DEF Entry, Inv, TypeOK, AuthorityTypeOK
  <2>4. now <= e.began + MaxEval + TTL
    <3>1. e.expires <= e.began + MaxEval + TTL
      BY <2>1 DEF EntryInv
    <3>2. MaxEval \in Nat /\ TTL \in Nat
      BY ResolverAssumption
    <3> HIDE DEF e
    <3> QED
      BY <2>2, <2>3, <3>1, <3>2
  <2>5. Evidence(key[c], e.caps, e.began)'
    BY <1>1, <2>1 DEF EntryInv, Evidence, GrantedSince, HeldSince, Hit
  <2>6. Complete(key[c], Len(Checks) + 1, e.caps, e.failed, e.began)'
    BY <1>1, <2>1, <2>2, <2>3 DEF EntryInv, Complete, HeldThroughout, Hit
  <2>7. Evidence(key[c], caps[c], began[c])'
    BY <2>2, <2>5 DEF Evidence, Hit
  <2>8. Complete(key[c], Len(Checks) + 1, caps[c], failed[c], began[c])'
    BY <2>2, <2>6 DEF Complete, Hit
  <2> QED
    BY <1>1, <2>1, <2>2, <2>3, <2>4, <2>7, <2>8 DEF CallInv, Evaluating, EntryInv
<1>5. ClearedInv'
  BY DEF Hit, ClearedInv, Evaluating, Inv, TypeOK
<1> QED
  BY <1>1, <1>2, <1>3, <1>4, <1>5, OthersStable DEF Inv

LEMMA MissInv == ASSUME Inv, TypeOK', NEW c \in Call, Miss(c) PROVE Inv'
<1>1. AuthorityStep /\ now' = now
  BY DEF Miss, AuthorityStep
<1>2. \A k \in Key : EntryInv(k)'
  BY <1>1, EntryStable DEF Miss
<1>3. OthersUnchanged(c)
  BY DEF Miss, OthersUnchanged, Inv, TypeOK
<1>4. CallInv(c)'
  <2>1. /\ pc'[c] = "batch" /\ pos'[c] = 1 /\ began'[c] = now /\ caps'[c] = {}
    BY DEF Miss, Inv, TypeOK, CallInv
  <2>2. now \in Nat
    BY AuthorityAssumption DEF Inv, TypeOK, AuthorityTypeOK
  <2>3. Complete(key[c], pos[c], caps[c], failed[c], began[c])' /\ Evidence(key[c], caps[c], began[c])'
    BY <2>1, ResolverAssumption DEF Complete, Evidence
  <2> QED
    BY <1>1, <2>1, <2>2, <2>3, ResolverAssumption DEF CallInv, Evaluating
<1>5. ClearedInv'
  BY DEF Miss, ClearedInv, Evaluating, Inv, TypeOK
<1> QED
  BY <1>1, <1>2, <1>3, <1>4, <1>5, OthersStable DEF Inv

(***************************************************************************)
(* An answer of Keto for the positions I extends the evidence, and the     *)
(* positions known complete, if I begins where those end.                  *)
(***************************************************************************)
LEMMA AnswerExtends ==
    ASSUME Inv, NEW c \in Call, Evaluating(c), UNCHANGED <<now, held, changedAt>>,
           NEW I \in SUBSET DOMAIN Checks, NEW n \in Nat,
           \A i \in DOMAIN Checks : pos[c] <= i /\ i < n => i \in I,
           key'[c] = key[c], began'[c] = began[c], failed'[c] = failed[c],
           caps'[c] = caps[c] \cup Allowed(key[c], I)
    PROVE  /\ Evidence(key[c], caps[c], began[c])'
           /\ Complete(key'[c], n, caps'[c], failed'[c], began'[c])
<1>1. TypeOK /\ CallInv(c) /\ key[c] \in Key /\ pos[c] \in Int
  BY ResolverAssumption DEF Inv, TypeOK
<1>2. /\ Evidence(key[c], Allowed(key[c], I), began[c])
      /\ \A i \in I : HeldThroughout(key[c], Checks[i], began[c]) =>
            CapabilityOf[Checks[i]] \in Allowed(key[c], I)
  BY <1>1, AllowedEvidence
<1>3. Evidence(key[c], caps[c], began[c])'
  BY <1>1, <1>2 DEF CallInv, Evidence, GrantedSince, HeldSince
<1>4. ASSUME NEW i \in DOMAIN Checks \ failed[c], i < n, HeldThroughout(key[c], Checks[i], began[c])
      PROVE  CapabilityOf[Checks[i]] \in caps'[c]
  <2>1. i \in Int
    BY ResolverAssumption
  <2>2. CASE i < pos[c]
    BY <1>1, <1>4, <2>2 DEF CallInv, Complete
  <2>3. CASE pos[c] <= i
    BY <1>2, <1>4, <2>3
  <2> QED
    BY <1>1, <2>1, <2>2, <2>3
<1> QED
  BY <1>3, <1>4 DEF Complete

LEMMA BatchAnsweredInv ==
    ASSUME Inv, TypeOK', NEW c \in Call, BatchAnswered(c) PROVE Inv'
<1> DEFINE n == pos[c] + BatchSize
<1>1. AuthorityStep /\ UNCHANGED <<now, held, changedAt>>
  BY DEF BatchAnswered, AuthorityStep
<1>2. \A k \in Key : EntryInv(k)'
  BY <1>1, EntryStable DEF BatchAnswered
<1>3. OthersUnchanged(c)
  BY DEF BatchAnswered, OthersUnchanged, Inv, TypeOK
<1>4. CallInv(c)'
  <2>1. TypeOK /\ CallInv(c) /\ pos[c] \in Nat /\ n \in Nat /\ began[c] \in Nat
    <3>1. TypeOK /\ CallInv(c)
      BY DEF Inv
    <3>2. pos \in [Call -> 1..(Len(Checks) + BatchSize)] /\ began \in [Call -> 0..MaxTime]
      BY <3>1 DEF TypeOK
    <3>3. pos[c] \in Nat /\ began[c] \in Nat
      BY <3>2
    <3> QED BY <3>1, <3>3, ResolverAssumption
  <2>2. /\ pc[c] = "batch" /\ pc'[c] = "batch" /\ pos'[c] = n
        /\ key'[c] = key[c] /\ began'[c] = began[c]
        /\ caps'[c] = caps[c] \cup Allowed(key[c], Chunk(pos[c]))
        /\ failed'[c] = failed[c]
    BY DEF BatchAnswered, Inv, TypeOK
  <2>3. Chunk(pos[c]) \in SUBSET DOMAIN Checks
    BY DEF Chunk
  <2>4. \A i \in DOMAIN Checks : pos[c] <= i /\ i < n => i \in Chunk(pos[c])
    BY DEF Chunk
  <2>5. Evaluating(c) /\ n \in Nat
    BY <2>1, <2>2 DEF Evaluating
  <2> HIDE DEF n
  <2>6. /\ Evidence(key[c], caps[c], began[c])'
        /\ Complete(key'[c], n, caps'[c], failed'[c], began'[c])
    BY <1>1, <2>2, <2>3, <2>4, <2>5, AnswerExtends
  <2>7. Complete(key[c], pos[c], caps[c], failed[c], began[c])'
    BY <1>1, <2>2, <2>6 DEF Complete, HeldThroughout
  <2> QED
    BY <1>1, <2>1, <2>2, <2>5, <2>6, <2>7 DEF CallInv, Evaluating
<1>5. ClearedInv'
  BY DEF BatchAnswered, ClearedInv, Evaluating, Inv, TypeOK
<1> QED
  BY <1>1, <1>2, <1>3, <1>4, <1>5, OthersStable DEF Inv

LEMMA BatchFailedInv ==
    ASSUME Inv, TypeOK', NEW c \in Call, BatchFailed(c) PROVE Inv'
<1>1. AuthorityStep /\ UNCHANGED <<now, held, changedAt>>
  BY DEF BatchFailed, AuthorityStep
<1>2. \A k \in Key : EntryInv(k)'
  BY <1>1, EntryStable DEF BatchFailed
<1>3. OthersUnchanged(c)
  BY DEF BatchFailed, OthersUnchanged, Inv, TypeOK
<1>4. CallInv(c)'
  <2>1. pc[c] = "batch" /\ pc'[c] = "fallback"
    BY DEF BatchFailed, Inv, TypeOK
  <2>2. Evidence(key[c], caps[c], began[c])'
    BY DEF BatchFailed, Inv, CallInv, Evidence, GrantedSince, HeldSince
  <2>3. Complete(key[c], pos[c], caps[c], failed[c], began[c])'
    BY <2>1 DEF BatchFailed, Inv, CallInv, Evaluating, Complete, HeldThroughout
  <2> QED
    BY <2>1, <2>2, <2>3 DEF BatchFailed, Inv, CallInv, Evaluating
<1>5. ClearedInv'
  BY DEF BatchFailed, ClearedInv, Evaluating, Inv, TypeOK
<1> QED
  BY <1>1, <1>2, <1>3, <1>4, <1>5, OthersStable DEF Inv

LEMMA CheckAnsweredInv ==
    ASSUME Inv, TypeOK', NEW c \in Call, CheckAnswered(c) PROVE Inv'
<1>1. AuthorityStep /\ UNCHANGED <<now, held, changedAt>>
  BY DEF CheckAnswered, AuthorityStep
<1>2. \A k \in Key : EntryInv(k)'
  BY <1>1, EntryStable DEF CheckAnswered
<1>3. OthersUnchanged(c)
  BY DEF CheckAnswered, OthersUnchanged, Inv, TypeOK
<1>4. CallInv(c)'
  <2>1. TypeOK /\ CallInv(c) /\ pos[c] \in Nat /\ pos[c] \in DOMAIN Checks
    BY ResolverAssumption DEF Inv, TypeOK, CheckAnswered
  <2>2. /\ pc[c] = "fallback" /\ pc'[c] = "fallback"
        /\ key'[c] = key[c] /\ began'[c] = began[c]
        /\ caps'[c] = caps[c] \cup Allowed(key[c], {pos[c]})
        /\ pos'[c] = pos[c] + 1 /\ failed'[c] = failed[c]
    BY <2>1 DEF CheckAnswered, Inv, TypeOK, CallInv
  <2>3. {pos[c]} \in SUBSET DOMAIN Checks
    BY <2>1
  <2>4. \A i \in DOMAIN Checks : pos[c] <= i /\ i < pos[c] + 1 => i \in {pos[c]}
    BY <2>1, ResolverAssumption
  <2>5. Evaluating(c) /\ pos[c] + 1 \in Nat
    BY <2>1, <2>2 DEF Evaluating
  <2>6. /\ Evidence(key[c], caps[c], began[c])'
        /\ Complete(key'[c], pos[c] + 1, caps'[c], failed'[c], began'[c])
    BY <1>1, <2>1, <2>2, <2>3, <2>4, <2>5, AnswerExtends
  <2>7. Complete(key[c], pos[c], caps[c], failed[c], began[c])'
    BY <1>1, <2>2, <2>6 DEF Complete, HeldThroughout
  <2> QED
    BY <1>1, <2>1, <2>2, <2>5, <2>6, <2>7 DEF CallInv, Evaluating
<1>5. ClearedInv'
  BY DEF CheckAnswered, ClearedInv, Evaluating, Inv, TypeOK
<1> QED
  BY <1>1, <1>2, <1>3, <1>4, <1>5, OthersStable DEF Inv

LEMMA CheckFailedInv ==
    ASSUME Inv, TypeOK', NEW c \in Call, CheckFailed(c) PROVE Inv'
<1>1. AuthorityStep /\ UNCHANGED <<now, held, changedAt>>
  BY DEF CheckFailed, AuthorityStep
<1>2. \A k \in Key : EntryInv(k)'
  BY <1>1, EntryStable DEF CheckFailed
<1>3. OthersUnchanged(c)
  BY DEF CheckFailed, OthersUnchanged, Inv, TypeOK
<1>4. CallInv(c)'
  <2>1. /\ pc[c] = "fallback" /\ pc'[c] = "fallback"
        /\ pos[c] \in Nat /\ pos'[c] = pos[c] + 1 /\ failed'[c] = failed[c] \cup {pos[c]}
    BY ResolverAssumption DEF CheckFailed, Inv, TypeOK
  <2>2. Evidence(key[c], caps[c], began[c])'
    BY DEF CheckFailed, Inv, CallInv, Evidence, GrantedSince, HeldSince
  <2>3. Complete(key[c], pos[c], caps[c], failed[c], began[c])
    BY <2>1 DEF Inv, CallInv, Evaluating
  <2>4. \A i \in DOMAIN Checks \ failed'[c] : i < pos'[c] => i \notin failed[c] /\ i < pos[c]
    BY <2>1, ResolverAssumption
  <2>5. Complete(key[c], pos[c], caps[c], failed[c], began[c])'
    BY <2>3, <2>4 DEF CheckFailed, Complete, HeldThroughout
  <2> QED
    BY <2>1, <2>2, <2>5 DEF CheckFailed, Inv, CallInv, Evaluating
<1>5. ClearedInv'
  BY DEF CheckFailed, ClearedInv, Evaluating, Inv, TypeOK
<1> QED
  BY <1>1, <1>2, <1>3, <1>4, <1>5, OthersStable DEF Inv

LEMMA StoreInv == ASSUME Inv, TypeOK', NEW c \in Call, Store(c) PROVE Inv'
<1>1. AuthorityStep /\ UNCHANGED <<now, held, changedAt>>
  BY DEF Store, AuthorityStep
<1>2. /\ TypeOK /\ CallInv(c) /\ Evaluating(c) /\ key[c] \in Key
      /\ now \in Nat /\ began[c] \in Nat
      /\ MaxEval \in Nat /\ TTL \in Nat /\ pos[c] \in Nat /\ Len(Checks) \in Nat
  BY AuthorityAssumption, ResolverAssumption DEF Inv, TypeOK, AuthorityTypeOK, Store
<1>3. now <= began[c] + MaxEval /\ began[c] <= now
  BY <1>2 DEF CallInv
<1>4. Evidence(key[c], caps[c], began[c])'
  BY <1>2 DEF Store, CallInv, Evidence, GrantedSince, HeldSince
<1>5. Complete(key[c], Len(Checks) + 1, caps[c], failed[c], began[c])'
  <2>1. \A i \in DOMAIN Checks : i \in Int /\ i < pos[c]
    BY <1>2, ResolverAssumption DEF Store
  <2> QED
    BY <1>2, <2>1 DEF Store, CallInv, Complete, HeldThroughout
<1>6. EntryInv(key[c])'
  <2>1. cache'[key[c]] = [caps |-> caps[c], expires |-> now + TTL,
                          began |-> began[c], failed |-> failed[c]]
    BY <1>2 DEF Store, TypeOK
  <2>2. now + TTL <= began[c] + MaxEval + TTL
    BY <1>2, <1>3
  <2> QED
    BY <1>1, <1>3, <1>4, <1>5, <2>1, <2>2 DEF EntryInv, Store, Evidence, Complete
<1>7. ASSUME NEW k \in Key
      PROVE  EntryInv(k)'
  <2>1. CASE k = key[c]
    <3>1. key'[c] = key[c]
      BY DEF Store
    <3> QED
      BY <1>6, <2>1, <3>1 DEF EntryInv, Evidence, Complete
  <2>2. CASE k # key[c]
    <3>1. cache'[k] = cache[k]
      BY <1>2, <2>2 DEF Store, TypeOK
    <3> QED
      BY <1>1, <3>1, EntryStable
  <2> QED
    BY <2>1, <2>2
<1>8. OthersUnchanged(c)
  BY DEF Store, OthersUnchanged, Inv, TypeOK
<1>9. CallInv(c)'
  <2>1. pc'[c] = "returned" /\ at'[c] = now
    BY <1>2 DEF Store, TypeOK
  <2>2. now <= began[c] + MaxEval + TTL
    BY <1>2, <1>3
  <2> QED
    BY <1>1, <1>2, <1>3, <1>4, <1>5, <2>1, <2>2 DEF CallInv, Evaluating, Store
<1>10. ClearedInv'
  <2>1. key[c] \notin cleared
    BY <1>2 DEF Inv, ClearedInv
  <2> QED
    BY <1>2, <2>1 DEF Store, ClearedInv, Evaluating, Inv, TypeOK
<1> QED
  BY <1>1, <1>7, <1>8, <1>9, <1>10, OthersStable DEF Inv

LEMMA FinishInv == ASSUME Inv, TypeOK', NEW c \in Call, Finish(c) PROVE Inv'
<1>1. AuthorityStep /\ now' = now
  BY DEF Finish, AuthorityStep
<1>2. \A k \in Key : EntryInv(k)'
  BY <1>1, EntryStable DEF Finish
<1>3. OthersUnchanged(c)
  BY DEF Finish, OthersUnchanged, Inv, TypeOK
<1>4. CallInv(c)'
  <2>1. pc'[c] = "idle" /\ caps'[c] = {} /\ began'[c] = 0
    BY DEF Finish, Inv, TypeOK
  <2>2. now' >= 0
    BY <1>1, AuthorityAssumption DEF Inv, TypeOK, AuthorityTypeOK
  <2> QED
    BY <2>1, <2>2 DEF CallInv, Evidence, Evaluating
<1>5. ClearedInv'
  BY DEF Finish, ClearedInv, Evaluating, Inv, TypeOK
<1> QED
  BY <1>1, <1>2, <1>3, <1>4, <1>5, OthersStable DEF Inv

(***************************************************************************)
(* The steps of the rest: Invalidate, administrators, the clock.           *)
(***************************************************************************)
LEMMA InvalidateInv ==
    ASSUME Inv, TypeOK', NEW s \in Subject, NEW t \in Tenant, Invalidate(s, t)
    PROVE  Inv'
<1>1. AuthorityStep /\ now' = now /\ UNCHANGED callVars
  BY DEF Invalidate, AuthorityStep
<1>2. ASSUME NEW k \in Key
      PROVE  EntryInv(k)'
  <2>1. CASE k \in Matching(s, t)
    <3>1. cache'[k] = NoEntry
      BY <2>1 DEF Invalidate
    <3>2. now' \in Nat
      BY <1>1, AuthorityAssumption DEF Inv, TypeOK, AuthorityTypeOK
    <3> QED
      BY <3>1, <3>2, ResolverAssumption DEF EntryInv, NoEntry, Evidence
  <2>2. CASE k \notin Matching(s, t)
    <3>1. cache'[k] = cache[k]
      BY <2>2 DEF Invalidate
    <3> QED
      BY <1>1, <3>1, EntryStable
  <2> QED
    BY <2>1, <2>2
<1>3. ASSUME NEW c \in Call
      PROVE  CallInv(c)'
  <2>1. Evaluating(c) => now' <= began[c] + MaxEval
    BY <1>1 DEF Inv, CallInv
  <2> QED
    BY <1>1, <2>1, CallStable DEF callVars
<1>4. ClearedInv'
  BY <1>1, AddressedIsMatching DEF Invalidate, ClearedInv, Evaluating, Inv, TypeOK, callVars
<1> QED
  BY <1>2, <1>3, <1>4 DEF Inv

LEMMA EnvironmentInv ==
    ASSUME Inv, TypeOK', AuthorityStep, UNCHANGED <<cache, callVars, cleared>>,
           \A c \in Call : Evaluating(c) => now' <= began[c] + MaxEval
    PROVE  Inv'
<1>1. \A k \in Key : EntryInv(k)'
  BY EntryStable
<1>2. \A c \in Call : CallInv(c)'
  BY CallStable DEF callVars
<1>3. ClearedInv'
  BY DEF ClearedInv, Evaluating, Inv, callVars
<1> QED
  BY <1>1, <1>2, <1>3 DEF Inv

(***************************************************************************)
(* Every step preserves the invariant.                                     *)
(***************************************************************************)
LEMMA NextInv == Inv /\ [Next]_vars => Inv'
<1> SUFFICES ASSUME Inv, [Next]_vars
             PROVE  Inv'
  OBVIOUS
<1>1. TypeOK' /\ AuthorityStep
  BY NextType, NextAuthority DEF Inv
<1>2. ASSUME NEW c \in Call, Arrive(c) \/ Resolve(c) \/ Finish(c)
      PROVE  Inv'
  BY <1>1, <1>2, ArriveInv, HitInv, MissInv, BatchAnsweredInv, BatchFailedInv,
     CheckAnsweredInv, CheckFailedInv, StoreInv, FinishInv DEF Resolve
<1>3. ASSUME NEW s \in Subject, NEW t \in Tenant, Invalidate(s, t)
      PROVE  Inv'
  BY <1>1, <1>3, InvalidateInv
<1>4. CASE now' = now /\ UNCHANGED <<cache, callVars, cleared>>
  <2>1. \A c \in Call : Evaluating(c) => now' <= began[c] + MaxEval
    BY <1>4 DEF Inv, CallInv
  <2> QED
    BY <1>1, <1>4, <2>1, EnvironmentInv
<1>5. CASE TimePasses
  <2>1. ASSUME NEW c \in Call, Evaluating(c)
        PROVE  now' <= began[c] + MaxEval
    <3>1. now \in Nat /\ began[c] \in Nat /\ MaxEval \in Nat
      BY AuthorityAssumption, ResolverAssumption DEF Inv, TypeOK, AuthorityTypeOK
    <3>2. now < began[c] + MaxEval /\ now' = now + 1
      BY <1>5, <2>1 DEF TimePasses, Tick
    <3> QED
      BY <3>1, <3>2
  <2> QED
    BY <1>1, <1>5, <2>1, EnvironmentInv DEF TimePasses
<1> QED
  BY <1>2, <1>3, <1>4, <1>5 DEF Next, Administer, vars, callVars

LEMMA InvariantHolds == Spec => []Inv
BY InitInv, NextInv, PTL DEF Spec

-----------------------------------------------------------------------------
(***************************************************************************)
(* Revocation takes effect: no call ever returns a capability whose last   *)
(* grant is more than a longest evaluation and a TTL in the past.          *)
(***************************************************************************)
THEOREM RevocationBound == Spec => []RevocationTakesEffect
<1>1. Inv => RevocationTakesEffect
  <2> SUFFICES ASSUME Inv, NEW c \in Call, pc[c] = "returned", NEW p \in caps[c]
               PROVE  GrantedSince(key[c], p, at[c] - (MaxEval + TTL))
    BY DEF RevocationTakesEffect
  <2>1. /\ CallInv(c) /\ GrantedSince(key[c], p, began[c])
        /\ key[c] \in Key /\ began[c] \in Nat /\ at[c] \in Nat
        /\ MaxEval \in Nat /\ TTL \in Nat
    BY AuthorityAssumption, ResolverAssumption DEF Inv, TypeOK, CallInv, Evidence
  <2>2. at[c] - (MaxEval + TTL) <= began[c]
    BY <2>1 DEF CallInv
  <2>3. \A x \in Check : changedAt[key[c]][x] \in Int
    BY <2>1 DEF Inv, TypeOK, AuthorityTypeOK
  <2> QED
    BY <2>1, <2>2, <2>3 DEF GrantedSince, HeldSince
<1> QED
  BY <1>1, InvariantHolds, PTL

(***************************************************************************)
(* No right is lost: an evaluation yields, and its cache entry serves,     *)
(* every capability held since before it, but for the checks whose own     *)
(* question failed in the fallback.                                        *)
(***************************************************************************)
THEOREM NothingHeldIsDropped == Spec => []HeldCapabilitiesReturned
<1>1. Inv => HeldCapabilitiesReturned
  <2> SUFFICES ASSUME Inv, NEW c \in Call, pc[c] = "returned",
                      NEW i \in DOMAIN Checks \ failed[c],
                      HeldThroughout(key[c], Checks[i], began[c])
               PROVE  CapabilityOf[Checks[i]] \in caps[c]
    BY DEF HeldCapabilitiesReturned
  <2>1. Complete(key[c], Len(Checks) + 1, caps[c], failed[c], began[c])
    BY DEF Inv, CallInv
  <2>2. i < Len(Checks) + 1
    BY ResolverAssumption
  <2> QED
    BY <2>1, <2>2 DEF Complete
<1> QED
  BY <1>1, InvariantHolds, PTL

(***************************************************************************)
(* Invalidate clears a key for every call that begins after it, unless an  *)
(* evaluation of the key was in flight.                                    *)
(***************************************************************************)
THEOREM InvalidationIsNotUndone == Spec => []InvalidationHolds
<1>1. Inv => InvalidationHolds
  BY DEF Inv, ClearedInv, InvalidationHolds
<1> QED
  BY <1>1, InvariantHolds, PTL

(***************************************************************************)
(* And it clears no other key: an entry that goes away was addressed by an *)
(* Invalidate of its subject and tenant, or replaced by an evaluation of   *)
(* its own key.                                                            *)
(***************************************************************************)
THEOREM InvalidationReachesNobodyElse == Spec => InvalidationSparesOthers
<1>1. Inv /\ [Next]_vars =>
        [\A k \in Key : cache[k] # NoEntry /\ cache'[k] = NoEntry =>
             k \in cleared' \/ \E c \in Call : Evaluating(c) /\ key[c] = k]_vars
  <2> SUFFICES ASSUME Inv, Next, NEW k \in Key, cache[k] # NoEntry, cache'[k] = NoEntry
               PROVE  k \in cleared' \/ \E c \in Call : Evaluating(c) /\ key[c] = k
    OBVIOUS
  <2>1. ASSUME NEW c \in Call, Store(c)
        PROVE  Evaluating(c) /\ key[c] = k
    BY <2>1 DEF Store, Inv, TypeOK
  <2>2. ASSUME NEW s \in Subject, NEW t \in Tenant, Invalidate(s, t)
        PROVE  k \in cleared' \/ \E c \in Call : Evaluating(c) /\ key[c] = k
    <3>1. k \in Matching(s, t)
      BY <2>2 DEF Invalidate
    <3> QED BY <2>2, <3>1, AddressedIsMatching DEF Invalidate
  <2> QED
    BY <2>1, <2>2 DEF Next, Resolve, Administer, TimePasses, Arrive, Hit, Miss, BatchAnswered,
                      BatchFailed, CheckAnswered, CheckFailed, Finish
<1> QED
  BY <1>1, InvariantHolds, PTL DEF Spec, InvalidationSparesOthers

-----------------------------------------------------------------------------
(***************************************************************************)
(* Returning from Resolve, by a hit or after a store, answers the call     *)
(* within the window.                                                      *)
(***************************************************************************)
LEMMA ReturnAnswers ==
    ASSUME Inv, Inv', NEW c \in Call, pc[c] \notin {"idle", "returned"},
           UNCHANGED <<now, held, changedAt, key>>,
           pc' = [pc EXCEPT ![c] = "returned"], at'[c] = now,
           \A d \in Call \ {c} : caps'[d] = caps[d]
    PROVE  Promise!Answer(c)
<1> DEFINE S == caps'[c]
<1>1. TypeOK /\ TypeOK' /\ CallInv(c)'
  BY DEF Inv
<1>2. pc'[c] = "returned" /\ \A d \in Call \ {c} : pc'[d] = pc[d]
  BY <1>1 DEF TypeOK
<1>3. S \in SUBSET Capability
  BY <1>1 DEF TypeOK
<1>4. \A p \in S : Promise!GrantedSince(key[c], p, now - (MaxEval + TTL))
  <2>1. /\ now \in Nat /\ began'[c] \in Nat /\ MaxEval \in Nat /\ TTL \in Nat
        /\ key[c] \in Key
    BY <1>1, AuthorityAssumption, ResolverAssumption DEF TypeOK, AuthorityTypeOK
  <2>2. now <= began'[c] + MaxEval + TTL /\ \A p \in S : GrantedSince(key[c], p, began[c])'
    BY <1>1, <1>2 DEF CallInv, Evidence
  <2>3. now - (MaxEval + TTL) <= began'[c]
    BY <2>1, <2>2
  <2>4. \A x \in Check : changedAt[key[c]][x] \in Int
    BY <1>1, <2>1 DEF TypeOK, AuthorityTypeOK
  <2> QED
    BY <2>1, <2>2, <2>3, <2>4
       DEF GrantedSince, HeldSince, Promise!GrantedSince, Promise!HeldSince
<1>5. /\ [d \in Call |-> PhaseOf(d)][c] = "asking"
      /\ [d \in Call |-> PhaseOf(d)]' =
            [[d \in Call |-> PhaseOf(d)] EXCEPT ![c] = "answered"]
  BY <1>2 DEF PhaseOf
<1>6. [d \in Call |-> AnswerOf(d)]' = [[d \in Call |-> AnswerOf(d)] EXCEPT ![c] = S]
  BY <1>2 DEF AnswerOf
<1> HIDE DEF S
<1> QED
  BY <1>3, <1>4, <1>5, <1>6 DEF Promise!Answer, PhaseOf, AnswerOf

(***************************************************************************)
(* The resolver implements the promise: every capability a request works   *)
(* with was really held within the window, and nothing a call does inside  *)
(* is visible to the request.                                              *)
(***************************************************************************)
THEOREM ResolverKeepsPromise == Spec => KeepsPromise
<1>1. Init => Promise!Init
  BY DEF Init, AuthorityInit, PhaseOf, AnswerOf, Promise!Init, Promise!AuthorityInit, Key,
         Promise!Key
<1>2. Inv /\ Inv' /\ [Next]_vars => [Promise!Next]_Promise!vars
  <2> SUFFICES ASSUME Inv, Inv', [Next]_vars
               PROVE  [Promise!Next]_Promise!vars
    OBVIOUS
  <2>1. ASSUME NEW c \in Call, Arrive(c)
        PROVE  Promise!Ask(c)
    <3>1. /\ [d \in Call |-> PhaseOf(d)][c] = "idle"
          /\ [d \in Call |-> PhaseOf(d)]' =
                [[d \in Call |-> PhaseOf(d)] EXCEPT ![c] = "asking"]
          /\ [d \in Call |-> AnswerOf(d)]' = [d \in Call |-> AnswerOf(d)]
      BY <2>1 DEF Arrive, PhaseOf, AnswerOf, Inv, TypeOK
    <3> QED
      BY <2>1, <3>1 DEF Arrive, PhaseOf, AnswerOf, Promise!Ask, Key, Promise!Key
  <2>2. ASSUME NEW c \in Call, Hit(c) \/ Store(c)
        PROVE  Promise!Answer(c)
    <3>1. /\ pc[c] \notin {"idle", "returned"}
          /\ UNCHANGED <<now, held, changedAt, key>>
          /\ pc' = [pc EXCEPT ![c] = "returned"]
          /\ at'[c] = now
          /\ \A d \in Call \ {c} : caps'[d] = caps[d]
      BY <2>2 DEF Hit, Store, Evaluating, Inv, TypeOK
    <3> QED
      BY <3>1, ReturnAnswers
  <2>3. ASSUME NEW c \in Call,
               \/ Miss(c) \/ BatchAnswered(c) \/ BatchFailed(c)
               \/ CheckAnswered(c) \/ CheckFailed(c)
        PROVE  UNCHANGED Promise!vars
    <3>1. /\ pc[c] \notin {"idle", "returned"} /\ pc'[c] \notin {"idle", "returned"}
          /\ \A d \in Call \ {c} : pc'[d] = pc[d] /\ caps'[d] = caps[d]
          /\ UNCHANGED <<now, held, changedAt, key>>
      BY <2>3 DEF Miss, BatchAnswered, BatchFailed, CheckAnswered, CheckFailed, Inv, TypeOK
    <3>2. \A d \in Call : PhaseOf(d)' = PhaseOf(d) /\ AnswerOf(d)' = AnswerOf(d)
      BY <3>1 DEF PhaseOf, AnswerOf
    <3> QED
      BY <3>1, <3>2 DEF Promise!vars, PhaseOf, AnswerOf
  <2>4. ASSUME NEW c \in Call, Finish(c)
        PROVE  Promise!Finish(c)
    <3>1. /\ [d \in Call |-> PhaseOf(d)][c] = "answered"
          /\ [d \in Call |-> PhaseOf(d)]' =
                [[d \in Call |-> PhaseOf(d)] EXCEPT ![c] = "idle"]
          /\ [d \in Call |-> AnswerOf(d)]' =
                [[d \in Call |-> AnswerOf(d)] EXCEPT ![c] = {}]
      BY <2>4 DEF Finish, PhaseOf, AnswerOf, Inv, TypeOK
    <3> QED
      BY <2>4, <3>1 DEF Finish, PhaseOf, AnswerOf, Promise!Finish
  <2>5. ASSUME NEW s \in Subject, NEW t \in Tenant, Invalidate(s, t)
        PROVE  UNCHANGED Promise!vars
    BY <2>5 DEF Invalidate, callVars, PhaseOf, AnswerOf, Promise!vars
  <2>6. CASE Administer /\ UNCHANGED <<cache, callVars, cleared>>
    BY <2>6 DEF Administer, Grant, Revoke, callVars, Key, PhaseOf, AnswerOf,
                Promise!Next, Promise!Administer, Promise!Grant, Promise!Revoke, Promise!Key
  <2>7. CASE TimePasses
    BY <2>7 DEF TimePasses, Tick, callVars, PhaseOf, AnswerOf, Promise!Next, Promise!Tick
  <2>8. CASE UNCHANGED vars
    BY <2>8 DEF vars, callVars, PhaseOf, AnswerOf, Promise!vars
  <2> QED
    BY <2>1, <2>2, <2>3, <2>4, <2>5, <2>6, <2>7, <2>8 DEF Next, Resolve, Promise!Next
<1> QED
  BY <1>1, <1>2, InvariantHolds, PTL DEF Spec, KeepsPromise, Promise!Spec

-----------------------------------------------------------------------------
(***************************************************************************)
(* How many steps a call has left at most: one for each check not yet      *)
(* asked about, one for a chunk that fails, one for the lookup and one for *)
(* the store.                                                              *)
(***************************************************************************)
Ahead(c) == IF pos[c] > Len(Checks) THEN 0 ELSE Len(Checks) + 1 - pos[c]

StepsLeft(c) ==
    CASE pc[c] = "lookup" -> Len(Checks) + 3
      [] pc[c] = "batch" -> Ahead(c) + 2
      [] pc[c] = "fallback" -> Ahead(c) + 1
      [] pc[c] \in {"idle", "returned"} -> 0

LEMMA StepsLeftType ==
    ASSUME TypeOK, NEW c \in Call
    PROVE  /\ StepsLeft(c) \in 0..(Len(Checks) + 3) /\ Ahead(c) \in 0..Len(Checks)
           /\ StepsLeft(c) = 0 <=> pc[c] \in {"idle", "returned"}
<1>1. /\ Len(Checks) \in Nat /\ pos[c] \in Nat /\ pos[c] >= 1
      /\ pc[c] \in {"idle", "lookup", "batch", "fallback", "returned"}
  BY ResolverAssumption DEF TypeOK
<1>2. Ahead(c) \in 0..Len(Checks)
  BY <1>1 DEF Ahead
<1> QED BY <1>1, <1>2 DEF StepsLeft

LEMMA ResolveGetsOn ==
    ASSUME TypeOK, TypeOK', NEW c \in Call, Resolve(c)
    PROVE  StepsLeft(c)' < StepsLeft(c)
<1>1. /\ Len(Checks) \in Nat /\ BatchSize \in Nat /\ BatchSize > 0
      /\ pos[c] \in Nat /\ pos[c] >= 1
  BY ResolverAssumption DEF TypeOK
<1>2. CASE Hit(c) \/ Store(c)
  <2>1. pc[c] \in {"lookup", "batch", "fallback"} /\ pc'[c] = "returned"
    BY <1>2 DEF Hit, Store, Evaluating, TypeOK
  <2>2. StepsLeft(c) \in Nat /\ StepsLeft(c) # 0
    BY <2>1, StepsLeftType
  <2>3. StepsLeft(c)' = 0
    BY <2>1 DEF StepsLeft
  <2> QED BY <2>2, <2>3
<1>3. CASE Miss(c)
  <2>1. pc[c] = "lookup" /\ pc'[c] = "batch" /\ pos'[c] = 1
    BY <1>3 DEF Miss, TypeOK
  <2> QED BY <1>1, <2>1 DEF StepsLeft, Ahead
<1>4. CASE BatchAnswered(c)
  <2>1. /\ pc[c] = "batch" /\ pc'[c] = "batch" /\ pos[c] <= Len(Checks)
        /\ pos'[c] = pos[c] + BatchSize
    BY <1>4 DEF BatchAnswered, TypeOK
  <2> QED BY <1>1, <2>1 DEF StepsLeft, Ahead
<1>5. CASE BatchFailed(c)
  <2>1. pc[c] = "batch" /\ pc'[c] = "fallback" /\ pos'[c] = pos[c]
    BY <1>5 DEF BatchFailed, TypeOK
  <2> QED BY <1>1, <2>1 DEF StepsLeft, Ahead
<1>6. CASE CheckAnswered(c) \/ CheckFailed(c)
  <2>1. /\ pc[c] = "fallback" /\ pc'[c] = "fallback" /\ pos[c] <= Len(Checks)
        /\ pos'[c] = pos[c] + 1
    BY <1>6 DEF CheckAnswered, CheckFailed, TypeOK
  <2> QED BY <1>1, <2>1 DEF StepsLeft, Ahead
<1> QED BY <1>2, <1>3, <1>4, <1>5, <1>6 DEF Resolve

(***************************************************************************)
(* The safe part of EveryCallReturns.  However Keto fails, a call asks it  *)
(* at most once more than there are checks, and each step of Resolve       *)
(* leaves fewer.  What other calls store and invalidate, what is granted   *)
(* and revoked, and the time that passes meanwhile never set it back: it   *)
(* does not start over when its key is evaluated or cleared by others.     *)
(***************************************************************************)
THEOREM CallsGetOn ==
    Spec => /\ [](\A c \in Call : /\ StepsLeft(c) \in 0..(Len(Checks) + 3)
                                  /\ StepsLeft(c) = 0 <=> pc[c] \in {"idle", "returned"})
            /\ [][\A c \in Call : pc[c] # "idle" =>
                     IF Resolve(c) THEN StepsLeft(c)' < StepsLeft(c)
                                   ELSE StepsLeft(c)' = StepsLeft(c)]_vars
<1>1. TypeOK /\ TypeOK' /\ [Next]_vars =>
        [\A c \in Call : pc[c] # "idle" =>
            IF Resolve(c) THEN StepsLeft(c)' < StepsLeft(c) ELSE StepsLeft(c)' = StepsLeft(c)]_vars
  <2> SUFFICES ASSUME TypeOK, TypeOK', Next, NEW c \in Call, pc[c] # "idle", ~Resolve(c)
               PROVE  StepsLeft(c)' = StepsLeft(c)
    BY ResolveGetsOn
  <2>1. ASSUME pc'[c] = pc[c], pos'[c] = pos[c]
        PROVE  StepsLeft(c)' = StepsLeft(c)
    BY <2>1 DEF StepsLeft, Ahead
  <2>2. ASSUME NEW d \in Call, Arrive(d) \/ Resolve(d) \/ Finish(d)
        PROVE  StepsLeft(c)' = StepsLeft(c)
    <3>1. CASE d = c
      <4>1. Finish(c)
        BY <2>2, <3>1 DEF Arrive
      <4>2. pc[c] = "returned" /\ pc'[c] = "idle"
        BY <4>1 DEF Finish, TypeOK
      <4> QED BY <4>2 DEF StepsLeft
    <3>2. CASE d # c
      <4>1. pc' = [pc EXCEPT ![d] = pc'[d]] /\ pos' = [pos EXCEPT ![d] = pos'[d]]
        BY <2>2 DEF Arrive, Resolve, Hit, Miss, BatchAnswered, BatchFailed, CheckAnswered,
                    CheckFailed, Store, Finish, TypeOK
      <4> QED BY <2>1, <3>2, <4>1 DEF TypeOK
    <3> QED BY <3>1, <3>2
  <2>3. CASE ~\E d \in Call : Arrive(d) \/ Resolve(d) \/ Finish(d)
    <3>1. UNCHANGED callVars
      BY <2>3 DEF Next, TimePasses, Invalidate
    <3> QED BY <2>1, <3>1 DEF callVars
  <2> QED BY <2>2, <2>3
<1>2. TypeOK => \A c \in Call : /\ StepsLeft(c) \in 0..(Len(Checks) + 3)
                                /\ StepsLeft(c) = 0 <=> pc[c] \in {"idle", "returned"}
  BY StepsLeftType
<1> QED BY <1>1, <1>2, TypeCorrect, PTL DEF Spec

=============================================================================
