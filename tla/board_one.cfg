SPECIFICATION Spec
SYMMETRY WorkerSymmetry
CONSTANTS
    b1 = b1 b2 = b2 t1 = t1 t2 = t2 w1 = w1 w2 = w2
    Boards = {b1}
    Tasks = {t1, t2}
    Workers = {w1, w2}
    NoBoard = NoBoard NoTask = NoTask NoWorker = NoWorker
    DependsOn <- MCChain
    AutoRetry = {}
    Requests = {"start", "pause"}
    MaxRetries = 1
    MaxRevision = 5
    MaxCrashes = 0
INVARIANTS OneExecutor
CHECK_DEADLOCK FALSE
