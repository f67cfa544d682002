\* Four requests, an invitation and a record that can be deleted, one crash.
CONSTANTS
    r1 = r1
    r2 = r2
    r3 = r3
    r4 = r4
    d1 = d1
    i1 = i1
    Request = {r1, r2, r3, r4}
    Doc = {d1, i1}
    Invitation = {i1}
    MaxCrashes = 1
    None = None
SPECIFICATION Spec
SYMMETRY Symmetry
\* Every request has run and every write is over.
CHECK_DEADLOCK FALSE
INVARIANTS
    TypeOK
    WriteHasItsChange
    QuietMeansSaved
    DeletedStaysDeleted
PROPERTIES
    LandedChangeLostOnlyToOlderWrite
    ImplementsSnapshotStore
