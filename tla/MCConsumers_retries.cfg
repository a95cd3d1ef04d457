CONSTANTS
    m1 = m1
    m2 = m2
    q1 = q1
    q2 = q2
    Message = {m1, m2}
    Queue = {q1}
    QueueOf <- Together
    MaxRetries = 1
    MaxReconnects = 1
    MaxFaults = 2

SPECIFICATION FairSpec
CHECK_DEADLOCK FALSE

INVARIANTS ConsumersInv HeldUnlessStrayed DeadWasTried
PROPERTIES Settles
CONSTRAINT NotStrayed
