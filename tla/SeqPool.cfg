CONSTANTS
    Txs <- MCTxs
    Caller <- MCCaller
    Nonce <- MCNonce
    Max = 3
    MaxSeq = 9

SPECIFICATION Spec

\* Pushes stop at the bound on the sequence counter; with every tx
\* removed the pool then rests.
CHECK_DEADLOCK FALSE

INVARIANTS
    TypeOK
    Consistent
    
