\* A tenant moves in and sends the same payment twice at the same time.
CONSTANTS
    r1 = r1
    r2 = r2
    r3 = r3
    u1 = u1
    k1 = k1
    Request = {r1, r2, r3}
    Unit = {u1}
    AutoUnit = {}
    Key = {k1}
    None = None
SPECIFICATION Spec
CHECK_DEADLOCK FALSE
INVARIANTS
    OneEntryPerKey
