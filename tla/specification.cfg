SPECIFICATION Spec
CONSTANTS
    EventBit = 4
    Core = 1
    Words = {"led", "fan", "on", "subscribe"}
    Services <- LedAndFan
    Names <- OnAndOff
    IdsOffered <- Offered
    Spellings = {"upper", "lower"}
    ValuesOffered = {0, 1, 2, 4}
    NoValue = NoValue
    Enums = {1, 2}
    PrefixWords <- PrefixesGiven
    MemberWords <- MembersWritten
    UpperWord <- Capitals
    ServiceOrder <- Order
    TypeNamesUsed = {"Empty", "State", "Bool"}
    Spelled = {"Empty", "State", "Bool", "state", "bool"}
    AsPascal <- Pascal
    ScalarAnyCase = {"Bool", "bool"}
    ScalarExact = {"bool"}
    TypesOffered = {"string", "bytes", "int32", "uint32", "message"}
    NumbersOffered = {1, 16}
    CountsOffered = {3, 200}
    SizesOffered = {120, 32700}
    DefaultsOffered = {1, 200}
    NotGiven = NotGiven
    MaxRpcs = 2
    MaxMembers = 4
    MaxNamed = 3
    MaxDeclared = 3
    MaxUses = 2
    MaxFields = 2
INVARIANTS
    EveryRpcIsServed
    WireIdsDistinct
    ClientsAgree
    HelpersAreServed
    
    MembersClashAsWritten
    TypesAgree
    ProtosLoad
    SizedMessagesFit
CHECK_DEADLOCK FALSE
