SPECIFICATION AttendedSpec
CHECK_DEADLOCK FALSE
CONSTANTS
    Cases = {c1, c2, c3}
    AttentionLimit = 1
PROPERTIES
    ListedUntilHandled
    EveryCaseIsReached
