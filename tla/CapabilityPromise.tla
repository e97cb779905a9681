------------------------ MODULE CapabilityPromise ------------------------
(***************************************************************************)
(* What a request is promised about the capabilities it works with, free   *)
(* of caches, chunks, fallbacks and concurrent evaluations: each of them   *)
(* was really held at some instant of the last Window units of time.       *)
(* CapabilityResolver implements this specification.                       *)
(***************************************************************************)
EXTENDS KetoAuthority

CONSTANTS
    Call,     \* concurrent calls of CapabilityResolver.Resolve
    Window    \* how old the evidence behind an answer may be

VARIABLES
    phase,    \* phase[c]: progress of call c
    key,      \* key[c]: whom call c asks about
    answer    \* answer[c]: the capability set call c was given

vars == <<now, held, changedAt, phase, key, answer>>

Init ==
    /\ AuthorityInit
    /\ phase = [c \in Call |-> "idle"]
    /\ key \in [Call -> Key]
    /\ answer = [c \in Call |-> {}]

\* A request asks for the capabilities of its subject, tenant and partition.
Ask(c) ==
    /\ phase[c] = "idle"
    /\ phase' = [phase EXCEPT ![c] = "asking"]
    /\ \E k \in Key : key' = [key EXCEPT ![c] = k]
    /\ UNCHANGED <<now, held, changedAt, answer>>

\* The answer: any set of capabilities the window can vouch for.
Answer(c) ==
    /\ phase[c] = "asking"
    /\ phase' = [phase EXCEPT ![c] = "answered"]
    /\ \E S \in SUBSET Capability :
          /\ \A p \in S : GrantedSince(key[c], p, now - Window)
          /\ answer' = [answer EXCEPT ![c] = S]
    /\ UNCHANGED <<now, held, changedAt, key>>

\* The request is over, and its capability set with it.
Finish(c) ==
    /\ phase[c] = "answered"
    /\ phase' = [phase EXCEPT ![c] = "idle"]
    /\ answer' = [answer EXCEPT ![c] = {}]
    /\ UNCHANGED <<now, held, changedAt, key>>

Next ==
    \/ (Administer \/ Tick) /\ UNCHANGED <<phase, key, answer>>
    \/ \E c \in Call : Ask(c) \/ Answer(c) \/ Finish(c)

Spec == Init /\ [][Next]_vars
=============================================================================
