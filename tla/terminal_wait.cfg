SPECIFICATION MCSpec
CONSTANTS
    p1 = p1
    p2 = p2
    s1 = s1
    Procs = {p1, p2}
    Kinds = {"pipe", "pty"}
    Controls = {"input", "resize", "kill"}
    MaxChunks = 2
    MaxInputs = 1
    ReplayLimit = 1
    EventCap = 2
    Sessions = {s1}
    HubCap = 2
    DirectCap = 4
    CommandCap = 1
    MaxConnects = 1
    MaxCommands = 2
    MaxSessionEvents = 1
INVARIANTS HandlerNeverWaits
CHECK_DEADLOCK FALSE
