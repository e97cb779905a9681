\* A page's row action is shown to the console and followed.
SPECIFICATION Spec
CONSTANTS
    Deployment <- WholeOnly
    Grant <- Grants
    Target <- Targets
    Body <- Bodies
INVARIANTS RowOffersAreHonoured
