SPECIFICATION Spec
CONSTANTS
    Rpcs <- OfTwoServices
    Subscribed <- BehindSubscribe
    Inside <- SubscribeInside
    MaxRuns = 3
    MaxEdits = 4
INVARIANTS
    DefinedOnce
    LinksAsCreated
PROPERTY
    DeveloperCodeKept
CHECK_DEADLOCK FALSE
