CONSTANTS
    alice = alice
    bob = bob
    Pool = pool
    Accounts = {alice, bob}
    Closers = {}
    Supply = 2
    InitialBalance <- MCInitialBalance
    TREE_DEPTH = 1
    ROOTS_WINDOW = 2
    ReceiptIds = {n1, n2}
    MaxAmount = 2
    LeftoverGas = {10}
SPECIFICATION FairSpec
PROPERTIES
    DepositsSettle
    PayoutsSettle
