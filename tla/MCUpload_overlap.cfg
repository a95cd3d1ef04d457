CONSTANTS
    Upload = {u1, u2}
    Musician = {m1, m2}
    Slot = {c1, c2}
    Handler = {h1}
    MaxCalls = 4
    MaxFaults = 1
    MaxRetries = 1
    Fragile = {u2}
    NoUpload = NoUpload

SPECIFICATION Spec
SYMMETRY Interchangeable
CHECK_DEADLOCK FALSE

INVARIANTS UploadInv CompletedWasProcessed
PROPERTIES CompletedProcessStays
