\* Two providers of one page route, every kind of request.
SPECIFICATION FairSpec
CONSTANTS
    p1 = p1
    p2 = p2
    d1 = d1
    d2 = d2
    cap = cap
    a = a
    b = b
    AnyDomain = AnyDomain
    Provider = {p1, p2}
    Domain <- TheDomain
    Required <- TheRequired
    Route <- TheRoute
    Weight <- Unequal
    MaxResults <- TheMax
    DefaultMaxResults = 2
    DefaultPageSize = 2
    MaxPageSize = 3
    Items <- Lists
    IntMax = 1000
    Request <- Requests
INVARIANTS TypeOK SendersNeverBlock PositionsAreEarned
PROPERTIES KeepsPromise SearchReturns
