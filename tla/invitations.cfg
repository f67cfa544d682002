\* Five requests of any kind, two addresses.
CONSTANTS
    r1 = r1
    r2 = r2
    r3 = r3
    r4 = r4
    r5 = r5
    e1 = e1
    e2 = e2
    Request = {r1, r2, r3, r4, r5}
    Email = {e1, e2}
    None = None
SPECIFICATION Spec
SYMMETRY Symmetry
\* The last request is answered.
CHECK_DEADLOCK FALSE
INVARIANTS
    TypeOK
    OneAccountPerEmail
    NobodyUnknown
    HealingComplete
    SecondPendingExplained
PROPERTIES
    OnlyOverlapUndoesAcceptance
