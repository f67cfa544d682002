\* Handlers that never re-enter the mutex: everybody is answered.
CONSTANTS
    g1 = g1
    g2 = g2
    g3 = g3
    Goroutine = {g1, g2, g3}
    Handler = {"PayRent", "DeleteRegion"}
    Paths <- HandlerPaths
    Nobody = Nobody
SPECIFICATION FairSpec
INVARIANTS
    TypeOK
PROPERTIES
    EveryRequestAnswered
    ImplementsReadersWriter
