SPECIFICATION Spec
CONSTANTS
    Workers = {w1, w2}
    Users = {u1}
    MaxDispatchAttempts = 2
    MaxEvents = 1
    MaxHooks = 0
    MaxCopies = 1
    MaxFaults = 1
    NewStatuses = {"succeeded"}
    MayContradict = FALSE
PROPERTIES
    UnknownNeedsEvidence
