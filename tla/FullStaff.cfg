SPECIFICATION Spec
SYMMETRY Interchangeable
CONSTANTS
    Requests = {r1, r2}
    Users <- Members
    RoleOf <- MemberRole
    Amounts = {1, 2}
    Thresholds = {1, 2}
    MaxVersion = 7
INVARIANTS
    TypeOK
    FourEyes
    PlannedAsApproved
    RejectedMovesNoMoney
    RefundStaysReachable
    AuditRetraces
    OffersHonoured
PROPERTIES
    KeepsGate
