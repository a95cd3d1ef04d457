SPECIFICATION FairSpec
CONSTANTS
    create = create
    update = update
    e1 = e1
    e2 = e2
    e3 = e3
    UseCase = {create, update}
    EventsOf <- OneAndTwo
    Event = {e1, e2, e3}
    DrainsFirst = {update}
    Instance = {i1}
    MaxRetries = 2
    BatchSize = 2
    Grace = 1
    MaxFaults = 1
INVARIANTS
    OutboxInv
    RowsCommitWithAggregate
    NoPhantomEvent
    RetryBudget
PROPERTIES
    RowsAreSettled
    DeliversAtLeastOnceOrGivesUp
