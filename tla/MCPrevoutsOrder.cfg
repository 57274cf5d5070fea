CONSTANTS
    t1 = t1
    t2 = t2
    segwit = segwit
    other = other
    legacy = legacy
    MaxInputs = 2
    None = None
    Txid <- MCTxid
    TxOut <- MCTxOut
    Outputs <- MCOutputs
    Legacy = {legacy}
    Psbts <- MCPsbts

SPECIFICATION Spec
CHECK_DEADLOCK FALSE

INVARIANT
    InternallyConsistent
