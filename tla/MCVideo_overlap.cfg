CONSTANTS
    Attempt = {u1, u2, u3}
    NoAttempt = NoAttempt
    StartTime = {0, 1}
    Handler = {h1, h2}
    Slot = {c1}
    Fragile = {u3}
    MaxCalls = 1
    MaxFaults = 1

SPECIFICATION FairSpec
CHECK_DEADLOCK FALSE

INVARIANTS VideoInv
PROPERTIES CompletedIsShown ReplacedGoes
