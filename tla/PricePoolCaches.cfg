CONSTANTS
    AccountOrder <- MCAccountOrder
    Txs <- MCTxs
    Caller <- MCCaller
    Nonce <- MCNonce
    MaxFee <- MCMaxFee
    TipCap <- MCTipCap
    BaseFees = {1, 2}
    Filters <- MCFilters
    UserMax = 2
    LimitedSize = 3
    ListLimit = 1

SPECIFICATION Spec


INVARIANT KnownOnlyIfPending
