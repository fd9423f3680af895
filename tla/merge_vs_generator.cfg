SPECIFICATION Spec
CONSTANTS
    Rpcs <- OfTwoServices
    Subscribed <- BehindSubscribe
    Inside <- SubscribeInside
    MaxRuns = 2
    MaxEdits = 4
INVARIANT
    NewRpcsMerged
CHECK_DEADLOCK FALSE
