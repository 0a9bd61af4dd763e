\* Two relays, duty lists reaching three slots ahead, a map of three
\* entries, five slots of time.
SPECIFICATION Spec
CONSTANTS
    Relays = {r1, r2}
    Cap = 3
    Ahead = 3
    MaxSlot = 4
INVARIANTS TypeOK FutureKept

