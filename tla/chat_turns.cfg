SPECIFICATION Spec
CONSTANTS
    r1 = r1
    r2 = r2
    s1 = s1
    s2 = s2
    NoRun = NoRun
    NoSession = NoSession
    Runs <- MCRuns2
    Sessions <- MCSessions2
    Abortable <- MCSessions1
    MaxAttempts = 1
    MaxRecords = 1
    MaxCrashes = 1
SYMMETRY RunSymmetry
INVARIANTS TypeOK OpenRowHasTask LoneSessionSettles
PROPERTIES NoInvocationAfterAnswer TerminalIsFinal ImplementsLedger
CHECK_DEADLOCK FALSE
