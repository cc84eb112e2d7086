SPECIFICATION Spec
CONSTANTS
    Deliveries <- TwoDeliveries
    Routed <- FirstDelivery
    Requests = {r1}
    Artifacts <- TwoArtifacts
    Limit = 1
    MaxFailures = 2
    MaxCalls = 2

INVARIANTS
    CancelReachesEverything
    AnswersLagOnlyWhileOpen
    NoEventIsMissed
    PassIsComplete
