SPECIFICATION PatientSpec
CHECK_DEADLOCK FALSE
CONSTANTS
    Tabs = {t1}
    Flows = {n1}
    TabKeys = {k1, k2}
    EventKey = event
    Forms = {f1, f2}
    Slots = {s1, s2}
    MaxFaults = 2
    MayEdit = FALSE
    NoKey = nokey
INVARIANTS
    OncePerKey
    RecordedTogether
    NoConflictWithItself
PROPERTIES
    RequestsEnd
    FormsGoThrough
