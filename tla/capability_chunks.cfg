\* One call of two chunks, under every order of grants, revocations and failures.
SPECIFICATION FairSpec
CONSTANTS
    c1 = c1
    c2 = c2
    p1 = p1
    p2 = p2
    x1 = x1
    x2 = x2
    x3 = x3
    s1 = s1
    t1 = t1
    t2 = t2
    q1 = q1
    q2 = q2
    Call = {c1}
    Subject = {s1}
    Tenant = {t1}
    Partition = {q1}
    Check = {x1, x2, x3}
    Capability = {p1, p2}
    CapabilityOf <- TwoNames
    Checks <- ThreeChecks
    BatchSize = 2
    TTL = 1
    MaxEval = 1
    MaxTime = 1
INVARIANTS TypeOK HeldCapabilitiesReturned
PROPERTIES EveryCallReturns KeepsPromise
