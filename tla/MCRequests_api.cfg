CONSTANTS
    Node = {"entry", "details", "inner", "deep", "text"}
    MaxDepth = 3
    Connection = {s1, s2}
    User = {u1}
    Operation = {"bandDeleteRemove", "songInstrumentPatchMusicianAssign", "instrumentsPutUpdate", "profilePost", "userPostRegister"}
    Payload <- AllPayloads
    NoDetails <- OnlyMessage
    MaxRequests = 3

SPECIFICATION FairSpec
CHECK_DEADLOCK FALSE

INVARIANTS RequestsInv EntitledRuns SecretsStayOut TheRestIsLogged
PROPERTIES StatusesStay EveryRequestEnds
