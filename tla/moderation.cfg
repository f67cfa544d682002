\* Two listings, one property; ages count in steps of which a day has four.
CONSTANTS
    l1 = l1
    l2 = l2
    p1 = p1
    Listing = {l1, l2}
    Property = {p1}
    WarnAge = 1
    Day = 4
SPECIFICATION Spec
\* A stalled peer stops the worker, and with the mutex held everybody.
CHECK_DEADLOCK FALSE
INVARIANTS
    TypeOK
    CronWaitsADay
    ApprovalCoversLastChange
PROPERTIES
    DelistedStaysHidden
    DecisionStands
    EveryListingDecided
