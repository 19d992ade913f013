SPECIFICATION Spec
CONSTANTS
    Workers = {w1}
    Users = {u1}
    MaxDispatchAttempts = 2
    MaxEvents = 1
    MaxHooks = 1
    MaxCopies = 1
    MaxFaults = 0
    NewStatuses = {"succeeded"}
    MayContradict = FALSE
PROPERTIES
    SuccessIsFinal
