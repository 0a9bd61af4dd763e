CONSTANTS
    Slots <- MCSlots
    Attrs = {a, b}
    Values <- MCValues
    IsOptimistic = TRUE
    CheckedCap = 2
    MaxSends = 3

SPECIFICATION Spec

\* The builder stops sending after MaxSends requests; the threads then
\* finish and the system rests.
CHECK_DEADLOCK FALSE

INVARIANTS
    TypeOK
    CheckedUnique
    OptimisticAfterPass

PROPERTIES
    SubmissionsSettle
