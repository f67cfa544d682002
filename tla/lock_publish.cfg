\* The handler of /api/properties/publish beside an ordinary one.
CONSTANTS
    g1 = g1
    g2 = g2
    Goroutine = {g1, g2}
    Handler = {"PayRent", "PublishProperty"}
    Paths <- HandlerPaths
    Nobody = Nobody
SPECIFICATION FairSpec
\* The self-deadlocked goroutine keeps the mutex, and everybody else stops.
CHECK_DEADLOCK FALSE
PROPERTIES
    PublishAnswered
