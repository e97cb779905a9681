\* Retries not set, a single attempt, and up to three, for every method.
SPECIFICATION FairSpec
CONSTANTS
    MaxAttempts = {0, 1, 3}
INVARIANTS TypeOK NonIdempotentAtMostOnce OutcomeIsOfLatestAttempt
PROPERTIES RetriesAreJustified CallReturns KeepsPromise
