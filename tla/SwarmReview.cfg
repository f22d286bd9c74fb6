SPECIFICATION Spec
CONSTANTS
    amy = amy
    bob = bob
    leader = leader
    NoOwner = NoOwner
    Unset = Unset
    MaxTask = 1
    TaskID <- MCTaskID
    Owner <- MCOwner
    Teammate <- MCOwner
    Caller <- MCCaller
    maxTransientTaskRetries = 2
    Drafts <- SingleDrafts
    InboxSize = 1
    MaxCalls = 3
    MaxFaults = 1
SYMMETRY Symmetry
INVARIANTS
    NoLeakedClaim
    OneRunnerPerTask
    RetriesBounded
PROPERTY
    CompletedStays
CHECK_DEADLOCK FALSE
