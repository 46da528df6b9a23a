\* What is left to a chat that asks for recovery.
SPECIFICATION MCSpec
CONSTANTS
    t1 = t1
    t2 = t2
    c1 = c1
    c2 = c2
    c3 = c3
    c4 = c4
    Turns = {t1, t2}
    Calls = {c1, c2, c3, c4}
    Kind <- MCKind
    Request <- MCRequest
    MaxRecoveries = 1
    MaxDeaths = 1
\* A chat that nobody uses any more stops.
CHECK_DEADLOCK FALSE
INVARIANT RetryRemainsPossible
