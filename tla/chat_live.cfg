SPECIFICATION FairSpec
CONSTANTS
    r1 = r1
    r2 = r2
    s1 = s1
    s2 = s2
    NoRun = NoRun
    NoSession = NoSession
    Runs <- MCRuns2
    Sessions <- MCSessions1
    Abortable <- MCNone
    MaxAttempts = 1
    MaxRecords = 1
    MaxCrashes = 2
INVARIANTS InvocationBudget
PROPERTIES TurnsSettle SignalledRunStops
CHECK_DEADLOCK FALSE
