\* Four requests of any kind, two users, one address, three tiers.
CONSTANTS
    r1 = r1
    r2 = r2
    r3 = r3
    r4 = r4
    u1 = u1
    u2 = u2
    e1 = e1
    Request = {r1, r2, r3, r4}
    Account = {u1, u2}
    Email = {e1}
    MaxLevel = 3
    None = None
SPECIFICATION AllSpec
SYMMETRY Symmetry
\* The last request is answered, or all wait for the mutex.
CHECK_DEADLOCK FALSE
INVARIANTS
    AllTypesOK
    RevocationHolds
    QuietAccountSaved
    SharedAddressExplained
    TierExplained
