\* Two overlapping calls that share entries of a tenant and of a partition, with invalidations.
SPECIFICATION Spec
CONSTANTS
    c1 = c1
    c2 = c2
    lt = lt
    lp = lp
    t1 = t1
    t2 = t2
    p1 = p1
    p2 = p2
    AnyTenant = AnyTenant
    Call = {c1, c2}
    Lookup = {lt, lp}
    Scope <- EachScope
    Extends <- SharedPrefix
    Tenant = {t1, t2}
    Partition = {p1, p2}
    Request <- Sharing
    MaxEntries = 1
    TTL <- EachTTL
    MaxFetch = 1
    MaxTime = 2
SYMMETRY CallSymmetry
INVARIANTS TypeOK OptionsBelongToCaller InvalidationHolds
PROPERTIES OptionsAreRecent OverfullOnlyWithLiveEntries
