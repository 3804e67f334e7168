SPECIFICATION MCFairSpec
CONSTANTS
    m1 = m1
    e1 = e1
    r1 = r1
    r2 = r2
    NoDelivery = NoDelivery
    Mutations <- OneMutation
    Endpoints <- OneEndpoint
    Drains <- TwoDrains
    MaxEmissions = 2
    MaxDeliveries = 2
    CountLimit = 4
    OutboxLease = 2
    DrainLimit = 1
    PromptDrains = {TRUE, FALSE}
    MaxIncidents = 2
INVARIANTS
    OutboxTypeOK
    SuccessIsAnnounced
    OutcomeIsTrue
    AttemptsAreBounded
PROPERTIES
    DeliveredIsFinal
    DeliveriesSettle
