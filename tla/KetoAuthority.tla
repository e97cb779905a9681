-------------------------- MODULE KetoAuthority --------------------------
(***************************************************************************)
(* The environment of capability resolution: the authorization service     *)
(* (Ory Keto, reached through Frame's security.Authorizer), whose relation *)
(* tuples administrators change at any moment, and the clock.  It is code  *)
(* outside the repository; only what resolver.go and keto_policy.go rely   *)
(* on is stated here.                                                      *)
(***************************************************************************)
EXTENDS Integers

CONSTANTS
    Subject,       \* claims.GetProfileID()
    Tenant,        \* claims.GetTenantID()
    Partition,     \* claims.GetPartitionID()
    Check,         \* (capability, namespace) pairs derived from definitions
    Capability,    \* capability names
    CapabilityOf,  \* CapabilityOf[x]: the name that check x stands for
    MaxTime        \* horizon of the clock (bounds the model)

ASSUME AuthorityAssumption ==
    /\ CapabilityOf \in [Check -> Capability]
    /\ MaxTime \in Nat

(***************************************************************************)
(* cacheKey: a capability set belongs to a subject in one tenant and one   *)
(* partition.  The code joins the three ids with colons; ids hold none.    *)
(***************************************************************************)
Key == Subject \X Tenant \X Partition

VARIABLES
    now,        \* the monotonic clock behind time.Now()
    held,       \* held[k]: the checks the authorization service allows for k
    changedAt   \* changedAt[k][x]: when held last changed for x, -1 if never

AuthorityTypeOK ==
    /\ now \in 0..MaxTime
    /\ held \in [Key -> SUBSET Check]
    /\ changedAt \in [Key -> [Check -> -1..MaxTime]]
    /\ \A k \in Key, x \in Check : changedAt[k][x] <= now

(***************************************************************************)
(* The check x held for k at some instant not before t.  A check that is   *)
(* no longer held was held until its last change; one that never changed   *)
(* and is not held was never held.                                         *)
(***************************************************************************)
HeldSince(k, x, t) ==
    \/ x \in held[k]
    \/ changedAt[k][x] >= 0 /\ changedAt[k][x] >= t

\* The check x has held for k without a break since before t.
HeldThroughout(k, x, t) ==
    x \in held[k] /\ changedAt[k][x] < t

\* Capability p of k rests on a check that held at some instant since t.
GrantedSince(k, p, t) ==
    \E x \in Check : CapabilityOf[x] = p /\ HeldSince(k, x, t)

-----------------------------------------------------------------------------
AuthorityInit ==
    /\ now = 0
    /\ held \in [Key -> SUBSET Check]
    /\ changedAt = [k \in Key |-> [x \in Check |-> -1]]

\* An administrator adds the relation tuple behind x.
Grant(k, x) ==
    /\ x \notin held[k]
    /\ held' = [held EXCEPT ![k] = @ \cup {x}]
    /\ changedAt' = [changedAt EXCEPT ![k][x] = now]

\* An administrator removes the relation tuple behind x.
Revoke(k, x) ==
    /\ x \in held[k]
    /\ held' = [held EXCEPT ![k] = @ \ {x}]
    /\ changedAt' = [changedAt EXCEPT ![k][x] = now]

Administer ==
    /\ \E k \in Key, x \in Check : Grant(k, x) \/ Revoke(k, x)
    /\ UNCHANGED now

Tick ==
    /\ now < MaxTime
    /\ now' = now + 1
    /\ UNCHANGED <<held, changedAt>>
=============================================================================
