SPECIFICATION FairSpec
CONSTANTS
    Calls = {c1, c2}
    NoCall = NoCall
    Methods = {get}
    Events = {alert}
    HighBit = {alert}
    SysError = SysError
    SeqSpace = 2
    Codes = {}
    MaxDups = 0
    Runt = Runt
    NoFrame = NoFrame
INVARIANTS
    EntryOwner
    EventIdIsFree
PROPERTIES
    EveryCallEnds
CHECK_DEADLOCK FALSE
