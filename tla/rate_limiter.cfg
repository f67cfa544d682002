\* Two addresses; a bucket of two and a half tokens, each refilled in two steps,
\* over a time in which it can be filled up twice.
CONSTANTS
    a1 = a1
    a2 = a2
    Ip = {a1, a2}
    Cost = 2
    Burst = 5
    MaxTime = 10
SPECIFICATION Spec
INVARIANTS
    TypeOK
    WindowBound
PROPERTIES
    RefusalIsEarned
