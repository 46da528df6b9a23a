\* Clean-context rollovers against turns, repeated requests, aborts, reports of
\* native threads and server deaths.
SPECIFICATION MCFairSpec
CONSTANTS
    t1 = t1
    t2 = t2
    c1 = c1
    c2 = c2
    c3 = c3
    c4 = c4
    Turns = {t1, t2}
    Calls = {c1, c2, c3, c4}
    Kind <- MCKind
    Request <- MCRequest
    MaxRecoveries = 1
    MaxDeaths = 1
INVARIANTS RollTypeOK PromptAnsweredOnce ActivationIsWhole TranscriptKept
PROPERTIES ThreadNeverGoesBack RolloversSettle
\* A chat that nobody uses any more stops.
CHECK_DEADLOCK FALSE
