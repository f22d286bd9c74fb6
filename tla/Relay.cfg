SPECIFICATION Spec
CONSTANTS
    Session = {s1, s2}
    None = None
    MaxEvents = 2
    MaxFaults = 2
    DedupWindow = 2
    ReplayRoom = 1
INVARIANTS  ReadyMissesNothing 
SYMMETRY Symmetry
CHECK_DEADLOCK FALSE
