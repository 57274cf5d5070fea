CONSTANTS
    a = a
    b = b
    ab = ab
    bad = bad
    junk = junk
    nil = nil
    A = A
    B = B
    Key <- MCKey
    Item <- MCItem
    Empty = nil
    WellFormed <- MCWellFormed
    Verifies <- MCVerifies
    Stacks <- MCStacks
    KeyLists <- MCKeyLists

SPECIFICATION Spec
CHECK_DEADLOCK FALSE

INVARIANTS
    TypeOK
    AcceptsOnlySatisfied
    RejectsOnlyUnsatisfied
PROPERTY
    Terminates
