SPECIFICATION Spec
CONSTANTS
    Full = 3
    Packets <- SomePackets
    MinLen = 1
    MaxSent = 3
    MaxFaults = 1
    MaxAccumulator = 3
    MaxLen = 6
INVARIANTS
    TypeOK
    CobsHolds
    FramesArrive
    DeliveredOnce
PROPERTIES
    ImplementsChannel
CHECK_DEADLOCK FALSE
