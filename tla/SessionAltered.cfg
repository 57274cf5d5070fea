CONSTANTS
    A = A
    B = B
    C = C
    U = U
    pA = pA
    pB = pB
    pC = pC
    m1 = m1
    m2 = m2
    m3 = m3
    t1 = t1
    t2 = t2
    coordinator = coordinator
    alice = alice
    bob = bob
    None = None
    Key <- MCKey
    Point <- MCPoint
    Compressed = {A, B, C}
    Message <- MCMessage
    Utf8 = {m1, m2}
    PrevTx <- MCPrevTx
    PrevOutputs <- MCPrevOutputs
    NullOutpoint <- MCNullOutpoint
    MaxProofInputs = 3
    MaxElementSize = 105
    MaxScriptSize = 10000
    MaxOpsPerScript = 201
    MaxStackSize = 1000
    SignatureLen = 72
    Leaves <- MCLeaves
    Party <- MCAlteredParty
    Creator = alice
    KeyOf <- MCAlteredKeyOf
    Requests <- AlteredRequests
    Addresses <- MCAddresses
    EditScripts <- MCEditScripts
    EditOuts <- MCEditOuts
    EditOutputs <- MCEditOutputs
    MaxAlterations = 1

SPECIFICATION Spec
CHECK_DEADLOCK FALSE

INVARIANTS
    TypeOK
    SignedOnlyAsDisplayed
    ValidImpliesConsent
