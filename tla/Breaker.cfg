SPECIFICATION FairBreakerSpec
CONSTANTS
    old = old
    new = new
    Runner <- MCRunner
    teammateBreakerThreshold = 3
    teammateBreakerCooldown = 2
INVARIANTS
    OpenExactlyAfterStreak
    ProbeDiscipline
PROPERTY
    GateReopens
CHECK_DEADLOCK FALSE
