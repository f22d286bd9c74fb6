SPECIFICATION Spec
CONSTANTS
    Id = {a}
    Foreign = {f}
    Session = {s1}
    Setting = {x, y}
    Caller = {c1, c2}
    Slot <- MCSlot
    MaxCalls = 2
    None = None
SYMMETRY Callers
INVARIANTS OneChain FutureIsArmed StoreMatches
 
CHECK_DEADLOCK FALSE
