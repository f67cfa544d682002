\* One server, a user and another, two connections at a time, one message in
\* Redis and one under way.
CONSTANTS
    c1 = c1
    c2 = c2
    u1 = u1
    u2 = u2
    s1 = s1
    Conn = {c1, c2}
    User = {u1, u2}
    Server = {s1}
    Nobody = Nobody
    Subject = u1
    Capacity = 1
SPECIFICATION FairSpec
INVARIANTS
    TypeOK
    NoGhostOnline
    OfflineOnlyByOverlap
PROPERTIES
    LeaversLeave
