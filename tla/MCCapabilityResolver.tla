---------------------- MODULE MCCapabilityResolver ----------------------
(***************************************************************************)
(* Small instances of CapabilityResolver.                                  *)
(***************************************************************************)
EXTENDS CapabilityResolver, TLC

CONSTANTS c1, c2, p1, p2, x1, x2, x3, s1, t1, t2, q1, q2

\* Two names, one of them checked in two namespaces.
TwoNames == (x1 :> p1) @@ (x2 :> p2) @@ (x3 :> p1)

OneName == (x1 :> p1)

\* One chunk of two, then a chunk of one.
ThreeChecks == <<x1, x2, x3>>

OneCheck == <<x1>>

\* No definition names a namespace: there is nothing to ask.
NoNames == << >>

NoChecks == << >>

CallSymmetry == Permutations(Call)

CallerSymmetry ==
    Permutations(Call) \cup Permutations(Tenant) \cup Permutations(Partition)
=============================================================================
