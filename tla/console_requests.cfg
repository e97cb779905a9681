\* A session of any length with deployments that come up and that do not.
SPECIFICATION FairSpec
CONSTANTS
    Deployment <- Deployments
    Grant <- Grants
    Target <- Targets
    Body <- Bodies
INVARIANTS
    TypeOK CallsAreEntitled RefusedMeansUntouched OffersAreHonoured
    DryRunPredicts SuccessMeansDone FailuresAreOwned MenuSurvivesBackends FormDataIsOfForm
PROPERTIES EveryRequestAnswered
