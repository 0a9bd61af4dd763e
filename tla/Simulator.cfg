CONSTANTS
    Workers = 2
    BatchTxs <- MCBatchTxs
    MaxAsync = 3

SPECIFICATION Spec

\* Once the batch has returned, the stream has made its calls and the
\* pool has drained, nothing is left to run.
CHECK_DEADLOCK FALSE

INVARIANTS
    TypeOK
    BatchOkInOrder
    AsyncQueueBound


    
