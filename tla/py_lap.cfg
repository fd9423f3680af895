SPECIFICATION LapSpec
CONSTANTS
    Calls = {c1, c2}
    NoCall = NoCall
    Methods = {get, high}
    Events = {alert}
    HighBit = {alert, high}
    SysError = SysError
    SeqSpace = 4
    Codes = {}
    MaxDups = 1
    Runt = Runt
    NoFrame = NoFrame
    Registered = {get, high}
    NoBody = {}
    RequestOnly = {}
    TxSizes = {8}
    PayloadLens = {2}
    PushTrigger = get
SYMMETRY Symmetry
INVARIANTS
    AwaitedHasEntry
    Correlated
PROPERTIES
    ImplementsContract
CHECK_DEADLOCK FALSE
