SPECIFICATION MCSpec
CONSTANTS
    s1 = s1
    s2 = s2
    h1 = h1
    h2 = h2
    f1 = f1
    f2 = f2
    r1 = r1
    r2 = r2
    Sessions = {s1, s2}
    Forks = {h1, h2}
    ForkOf <- MCForkOf
    MaxCached = 1
    MaxRestarts = 1
    Files = {f1, f2}
    Readers = {r1, r2}
    MaxWrites = 3
    CacheLines = 1
INVARIANTS TypeOK RegistryServed HistoryServed
\* Requests come to an end.
CHECK_DEADLOCK FALSE
