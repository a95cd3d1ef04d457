CONSTANTS
    SongId = {s1}
    Id = {p1, p2}
    Slot = {c1, c2}
    Handler = {h1}
    MaxRetries = 1
    MaxCalls = 3
    MaxFaults = 2
SPECIFICATION FairSerialSpec
CHECK_DEADLOCK FALSE
INVARIANTS OneActive ActiveIsAwaited
PROPERTIES AnsweredEnds
