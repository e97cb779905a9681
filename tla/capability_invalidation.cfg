\* Two calls of one subject, who has two tenants of two partitions each.
SPECIFICATION Spec
CONSTANTS
    c1 = c1
    c2 = c2
    p1 = p1
    p2 = p2
    x1 = x1
    x2 = x2
    x3 = x3
    s1 = s1
    t1 = t1
    t2 = t2
    q1 = q1
    q2 = q2
    Call = {c1, c2}
    Subject = {s1}
    Tenant = {t1, t2}
    Partition = {q1, q2}
    Check = {}
    Capability = {p1}
    CapabilityOf <- NoNames
    Checks <- NoChecks
    BatchSize = 2
    TTL = 1
    MaxEval = 1
    MaxTime = 2
SYMMETRY CallerSymmetry
INVARIANTS InvalidationHolds
PROPERTIES InvalidationSparesOthers
