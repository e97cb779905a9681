\* Overlapping queries that share scopes and answers.
SPECIFICATION Spec
CONSTANTS
    c1 = c1
    c2 = c2
    u1 = u1
    n1 = n1
    n2 = n2
    g = g
    t1 = t1
    t2 = t2
    top = top
    a = a
    b = b
    NoTenant = NoTenant
    NoPartition = NoPartition
    All = All
    Allowed = {"payments_total", "engine/latency", "engine/completed_calls"}
    MetricName <- Metrics
    LabelName <- Labels
    Body <- Bodies
    Call = {c1, c2}
    Caller = {u1, n2, g}
    TenantOf <- EachTenant
    PartitionOf <- EachPartition
    GlobalViewer = {g}
    Children <- OneChild
    Request <- Mixed
    MaxScopes = 1
    MaxResults = 1
    ScopeTTL = 1
    MaxResolve = 1
SYMMETRY CallSymmetry
INVARIANTS TypeOK AnswerIsOfScope AnswerIsToQuestion OnlyAllowedMetricsAreRead ScopeIsRecent CachesStayBounded
