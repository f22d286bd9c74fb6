SPECIFICATION FairSpec
CONSTANTS
    amy = amy
    bob = bob
    leader = leader
    NoOwner = NoOwner
    Unset = Unset
    MaxTask = 2
    TaskID <- MCTaskID
    Owner <- MCOwner
    Teammate <- MCOwner
    Caller <- MCCaller
    maxTransientTaskRetries = 1
    Drafts <- DependentDrafts
    InboxSize = 1
    MaxCalls = 0
    MaxFaults = 1
INVARIANTS
    Typed
    DependentsWait
PROPERTY
    ReadyTaskIsTaken
CHECK_DEADLOCK FALSE
