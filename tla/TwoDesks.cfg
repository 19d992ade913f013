SPECIFICATION Spec
CONSTANTS
    Workers = {w1}
    Users = {u1, u2}
    MaxDispatchAttempts = 2
    MaxEvents = 2
    MaxHooks = 1
    MaxCopies = 1
    MaxFaults = 1
    NewStatuses = {"succeeded", "pending"}
    MayContradict = TRUE
SYMMETRY Interchangeable
INVARIANTS
    IInv
    NextActionExists
    BooksAgree
PROPERTIES
    UnknownNeedsEvidence
    CaseMovesForward
