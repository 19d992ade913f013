SPECIFICATION Spec
CONSTANTS
    Workers = {w1, w2}
    Users = {u1}
    MaxDispatchAttempts = 2
    MaxEvents = 2
    MaxHooks = 1
    MaxCopies = 2
    MaxFaults = 1
    NewStatuses = {"succeeded"}
    MayContradict = FALSE
SYMMETRY Interchangeable
INVARIANTS
    SingleEffect
    RefundedIsBacked
    PendingHasWork
PROPERTIES
    KeepsPromise
