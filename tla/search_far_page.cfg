\* Pages far beyond the last result, with an int of four bits.
SPECIFICATION Spec
CONSTANTS
    p1 = p1
    p2 = p2
    d1 = d1
    d2 = d2
    cap = cap
    a = a
    b = b
    AnyDomain = AnyDomain
    Provider = {p1, p2}
    Domain <- TheDomain
    Required <- TheRequired
    Route <- TheRoute
    Weight <- Unequal
    MaxResults <- TheMax
    DefaultMaxResults = 2
    DefaultPageSize = 2
    MaxPageSize = 3
    Items <- ShortLists
    IntMax = 7
    Request <- FarPages
INVARIANTS PageBeyondIsEmpty
