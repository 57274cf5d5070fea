CONSTANTS
    A = A
    B = B
    U = U
    pA = pA
    pB = pB
    m1 = m1
    m2 = m2
    t1 = t1
    tree = tree
    future = future
    None = None
    Key <- MCKey
    Point <- MCPoint
    Compressed = {A, B}
    Message = {m1}
    Utf8 = {m1}
    PrevTx <- MCPrevTx
    PrevOutputs <- MCPrevOutputs
    NullOutpoint <- MCNullOutpoint
    MaxProofInputs = 3
    MaxElementSize = 105
    MaxScriptSize = 250
    MaxOpsPerScript = 2
    MaxStackSize = 4
    SignatureLen = 72
    Leaves <- MCLeaves
    Proofs <- InputProofs

SPECIFICATION Spec
CHECK_DEADLOCK FALSE

INVARIANTS
    TypeOK
    ValidIsAuthorised
    InconclusiveIsReserved
    SatisfiedIsValid
