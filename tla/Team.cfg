SPECIFICATION FairSpec
CONSTANTS
    Team = {red}
    Mate = {amy, bob}
    Caller = {leader, user}
    MaxTeammatesPerTeam = 1
    maxStoredResults = 1
    None = None
INVARIANTS
    NoOrphan
    TeamConsistent
PROPERTY
    UngovernedStops
CHECK_DEADLOCK FALSE
