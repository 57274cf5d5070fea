CONSTANTS
    Base = 8
    Widths <- MCWidths
    Magic <- MCMagic
    VersionSize = 1
    OutpointSize = 2
    SequenceSize = 1
    ValueSize = 1
    LockTimeSize = 1
    UnsignedTx = 0
    NonWitnessUtxo = 0
    FinalScriptwitness = 3
    MaxEncodingSize = 24
    MaxProofInputs = 2
    Payloads <- MCPayloads

SPECIFICATION Spec
CHECK_DEADLOCK FALSE

INVARIANTS
    TypeOK
    AllocationBounded
    DiffersOnlyInLength
PROPERTY
    Terminates
