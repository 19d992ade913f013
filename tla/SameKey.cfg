SPECIFICATION Spec
SYMMETRY Interchangeable
CONSTANTS
    Tabs = {t1}
    Flows = {n1, n2}
    TabKeys = {k1, k2}
    EventKey = event
    Forms = {f1, f2}
    Slots = {s1, s2, s3}
    MaxFaults = 1
    MayEdit = TRUE
    NoKey = nokey
INVARIANTS
    TypeOK
    AnswersAgree
    RaceIsResolved
PROPERTIES
    KeepsOnce
