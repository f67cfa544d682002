\* An invitation, a crash and the next start.
CONSTANTS
    r1 = r1
    i1 = i1
    Request = {r1}
    Doc = {i1}
    Invitation = {i1}
    MaxCrashes = 1
    None = None
SPECIFICATION Spec
CHECK_DEADLOCK FALSE
INVARIANTS
    LinkFindsInvitation
