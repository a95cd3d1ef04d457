CONSTANTS
    Upload = {u1, u2}
    Musician = {m1, m2}
    Slot = {c1}
    Handler = {h1}
    MaxCalls = 4
    MaxFaults = 2
    MaxRetries = 1
    Fragile = {u1}
    NoUpload = NoUpload

SPECIFICATION FairPatientSpec

CHECK_DEADLOCK FALSE

PROPERTIES ActiveAttemptChanges FollowsLifecycle ActiveSettles
