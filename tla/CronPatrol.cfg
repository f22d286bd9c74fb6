SPECIFICATION FairSpec
CONSTANTS
    Id = {a}
    Foreign = {}
    Session = {s1}
    Setting = {x}
    Caller = {c1}
    Slot <- MCSlot
    MaxCalls = 2
    None = None
PROPERTY NoJobIsForgotten
CHECK_DEADLOCK FALSE
