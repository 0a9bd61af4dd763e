CONSTANTS
    Accounts <- MCAccounts
    Txs <- MCTxs
    TipsTx = 0
    Payer = "P"
    Caller <- MCCaller
    Nonce <- MCNonce
    GasLimitOf <- MCGasLimitOf
    Fee <- MCFee
    TipOK <- MCTipOK
    AllowRevert <- MCAllowRevert
    Outcomes <- MCOutcomes
    TipsOutcomes <- MCTipsOutcomes
    InitNonce <- MCInitNonce
    BundleList <- MCBundleList
    SeqList <- MCSeqList
    PricePending <- MCPricePending
    GasLimit = 160000
    TX_GAS_RESERVE = 32000
    TX_GAS_INTRINSIC = 21000
    PageLimit = 1

SPECIFICATION Spec

\* A round stops in "done" or "failed": the builder thread returns there.
CHECK_DEADLOCK FALSE

INVARIANTS
    TypeOK
    GasAccounting
    BundleAtomic
    NonceAccounting

PROPERTIES
    RoundTerminates
