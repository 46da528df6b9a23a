SPECIFICATION MCSpec
CONSTANTS
    c1 = c1 c2 = c2 t1 = t1 t2 = t2 t3 = t3 x1 = x1 x2 = x2 x3 = x3
    g1 = g1 g2 = g2
    Calls = {g1, g2}
    Branches = {"main", "topic"}
    Hunks = {1, 2}
    Lossy = {2}
    MaxCalls = 4
    MaxChanges = 2
    Conns = {c1, c2}
    Sqlite = {c1}
    Tables = {t1, t2, t3}
    Home <- MCHome
    Handlers = {x1, x2, x3}
    Rows <- MCRows
    Batch = 2
    MaxPools = 1
    MaxEdits = 1
    MaxRows = 4
    Shift = 1
    Room = 1
    MaxTools = 1
    MaxOutput = 3
    MaxErrors = 1
    LineRoom = 2
    NoteRoom = 2
    MaxHistory = 4 MaxBytes = 4 MaxReply = 2 MaxLate = 2
INVARIANTS TypeOK DatabaseServed RepliesServed OwnTurnServed
PROPERTY GitServed
CHECK_DEADLOCK FALSE
