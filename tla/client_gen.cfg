SPECIFICATION Spec
CONSTANTS
    Runs = {here, other}
    NoRun = NoRun
    Here = here
    Services = {"led", "fan"}
    Specs <- Versions
    Absent = Absent
    Truncated = Truncated
    MaxEdits <- EditsByRunner
INVARIANTS
    SdkHasClasses
    DoneMeansCurrent
    FreshFilesCompile
    RestIsUsable
    AloneInstalls
CHECK_DEADLOCK FALSE
