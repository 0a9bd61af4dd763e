CONSTANTS
    Bundles <- MCBundles
    Uuid <- MCUuid
    BlockOf <- MCBlockOf
    MinTs <- MCMinTs
    MaxTs <- MCMaxTs
    Times = {0, 1, 2}
    MaxBlock = 2
    HistCap = 2

SPECIFICATION Spec

INVARIANTS
    TypeOK
    HistoryUnique
    LiveNotRetired
