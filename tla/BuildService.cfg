CONSTANTS
    SlotLen = 12
    SubmitTime = 1
    Window = 3
    LagLimit = 60
    MaxTime = 36

SPECIFICATION Spec

\* The clock stops at its bound; every head thread then ends.
CHECK_DEADLOCK FALSE

INVARIANTS
    TypeOK
    
