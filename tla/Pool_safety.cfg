CONSTANTS
    alice = alice
    bob = bob
    Pool = pool
    Accounts = {alice, bob}
    Closers = {alice}
    Supply = 2
    InitialBalance <- MCInitialBalance
    TREE_DEPTH = 2
    ROOTS_WINDOW = 2
    ReceiptIds = {n1, n2}
    MaxAmount = 2
    LeftoverGas = {10}
SYMMETRY ReceiptSymmetry
SPECIFICATION Spec
INVARIANTS
    TypeOK
    Solvency
    EveryNoteProvable
PROPERTIES
    ImplementsLedger
    PauseFreezesNotes
    PayoutNeverLost
