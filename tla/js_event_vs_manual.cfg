SPECIFICATION Spec
CONSTANTS
    Calls = {c1, c2}
    NoCall = NoCall
    Methods = {get, set, other}
    Events = {alert}
    HighBit = {alert}
    SysError = SysError
    SeqSpace = 2
    Codes = {5}
    MaxDups = 1
    Runt = Runt
    NoFrame = NoFrame
    Registered = {get, set}
    NoBody = {}
    RequestOnly = {set}
    TxSizes = {8}
    PayloadLens = {2}
    PushTrigger = get
INVARIANT EventsReachCallback
CHECK_DEADLOCK FALSE
