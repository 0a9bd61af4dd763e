CONSTANTS
    Slots <- MCSlots
    Attrs = {a, b}
    Values <- MCValues
    IsOptimistic = TRUE
    CheckedCap = 2
    MaxSends = 3

SPECIFICATION Spec

CHECK_DEADLOCK FALSE

PROPERTIES
    NoLowerResubmit
