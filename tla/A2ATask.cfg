SPECIFICATION FairSpec
CONSTANTS
    Task = {t, u}
    Message = {m, n}
    NoID = NoID
    NoTask = NoTask
    MaxTasks = 1
    MaxGen = 2
INVARIANTS WaitersWoken CancelReaches MessageOnce
PROPERTIES TerminalFinal TaskEnds
CHECK_DEADLOCK FALSE
