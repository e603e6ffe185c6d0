CONSTANTS
    alice = alice
    bob = bob
    shared = shared
    alices = alices
    bobs = bobs
    Users = {alice, bob}
    Auditors = {x, y}
    Clients = {shared}
    ClientOf <- SharedClient
    ROOTS_WINDOW = 2
    TreeCapacity = 4
    FeeUsdcBase = 0
    Tasks = {t1}
    DepositBound = 5
    DepositAmounts = {1}
    Amounts = {1}
    AnswersMayBeLost = FALSE
SYMMETRY Symmetry
SPECIFICATION Spec
INVARIANTS
    EveryTransferCanBeProved
