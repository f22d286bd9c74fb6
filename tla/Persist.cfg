SPECIFICATION PersistSpec
CONSTANTS
    Seat = {desk}
    Creator = {desk}
    MaxTask = 2
    TaskID <- MCTaskID
    Owner = {amy, bob}
    Claimer = Claimer
    Unloaded = Unloaded
    MaxCalls = 3
    MaxClaims = 2
    MaxQuiet = 1
    MaxCrashes = 1
SYMMETRY OwnerSymmetry
INVARIANTS
    FileIsWhole
    OneWinnerUntilRestart
    
CHECK_DEADLOCK FALSE
