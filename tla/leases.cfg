\* Four requests of any kind, two units, one idempotency key.
CONSTANTS
    r1 = r1
    r2 = r2
    r3 = r3
    r4 = r4
    u1 = u1
    u2 = u2
    k1 = k1
    Request = {r1, r2, r3, r4}
    Unit = {u1, u2}
    AutoUnit = {u1}
    Key = {k1}
    None = None
SPECIFICATION Spec
SYMMETRY Symmetry
\* The last request is answered.
CHECK_DEADLOCK FALSE
INVARIANTS
    TypeOK
    CurrentLeaseIsOfUnit
    VacancyExplained
    ApprovedHasLease
    RetryPaysOnce
