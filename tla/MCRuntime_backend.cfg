SPECIFICATION FairSpec
CONSTANTS
    Signal = {sigint, sigterm}
    Message = {m1, m2}
    MaxRequests = 2
INVARIANTS RuntimeInv CleanExit
PROPERTIES Ends
CHECK_DEADLOCK FALSE
