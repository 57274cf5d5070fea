CONSTANTS
    A = A
    B = B
    U = U
    pA = pA
    pB = pB
    m1 = m1
    m2 = m2
    t1 = t1
    zero = zero
    tree = tree
    None = None
    Key <- MCKey
    Point <- MCPoint
    Compressed = {A, B}
    Message = {m1, m2}
    Utf8 = {m1}
    PrevTx <- MCPrevTx
    PrevOutputs <- MCPrevOutputs
    NullOutpoint <- MCNullOutpoint
    MaxProofInputs = 3
    MaxElementSize = 105
    MaxScriptSize = 10000
    MaxOpsPerScript = 201
    MaxStackSize = 1000
    SignatureLen = 72
    Leaves <- MCLeaves
    Calls <- MCCalls

SPECIFICATION Spec
CHECK_DEADLOCK FALSE

INVARIANTS
    TypeOK
    DirectProofVerifies
    RefusesOnlyWhatRolesRefuse
    RolesProveWhatIsSigned
