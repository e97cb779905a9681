\* What resolveFilter says of the wildcard.
SPECIFICATION Spec
CONSTANTS
    c1 = c1
    c2 = c2
    u1 = u1
    n1 = n1
    n2 = n2
    g = g
    t1 = t1
    t2 = t2
    top = top
    a = a
    b = b
    NoTenant = NoTenant
    NoPartition = NoPartition
    All = All
    Allowed = {"payments_total", "engine/latency", "engine/completed_calls"}
    MetricName <- Metrics
    LabelName <- Labels
    Body <- Bodies
    Call = {c1, c2}
    Caller = {n1}
    TenantOf <- EachTenant
    PartitionOf <- EachPartition
    GlobalViewer = {}
    Children <- RootChildren
    Request <- OnlyWildcard
    MaxScopes = 1
    MaxResults = 1
    ScopeTTL = 1
    MaxResolve = 1
INVARIANTS WildcardMeansAll
