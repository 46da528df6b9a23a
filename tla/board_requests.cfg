SPECIFICATION RequestsSpec
SYMMETRY WorkerSymmetry
ACTION_CONSTRAINT Focused
CONSTANTS
    b1 = b1 b2 = b2 t1 = t1 t2 = t2 w1 = w1 w2 = w2
    Boards = {b1, b2}
    Tasks = {t1, t2}
    Workers = {w1, w2}
    NoBoard = NoBoard NoTask = NoTask NoWorker = NoWorker
    DependsOn <- MCChain
    AutoRetry = {b1}
    Requests = {"pause", "start", "retry", "now", "schedule", "unschedule", "promote", "demote"}
    MaxRetries = 1
    MaxRevision = 3
    MaxCrashes = 1
INVARIANTS TypeOK ClaimHasWorker WorkFollowsDependencies
PROPERTIES RevisionsGrow
CHECK_DEADLOCK FALSE
