SPECIFICATION PacketSpec
CONSTANTS
    Calls = {c1, c2}
    NoCall = NoCall
    Methods = {get, set, other}
    Events = {alert}
    HighBit = {alert}
    SysError = SysError
    SeqSpace = 2
    Codes = {5}
    MaxDups = 0
    Runt = Runt
    NoFrame = NoFrame
    Registered = {get, set}
    NoBody = {set}
    RequestOnly = {set}
    TxSizes = {4, 9}
    PayloadLens = {0, 2, 3, 4}
    MaxResp = 8
    MaxRuns = 2
INVARIANTS
    OutputAnswersThisPacket
PROPERTIES
    ResponseMeansRun
    ReturnTellsOutput
