SPECIFICATION FairDeskSpec
CONSTANTS
    Workers = {w1}
    Users = {u1}
    MaxDispatchAttempts = 2
    MaxEvents = 3
    MaxHooks = 1
    MaxCopies = 1
    MaxFaults = 2
    NewStatuses = {"succeeded"}
    MayContradict = FALSE
INVARIANTS
    TypeOK
PROPERTIES
    PendingIsLeft
    Converges
    OutboxDrains
