CONSTANTS
    alice = alice
    bob = bob
    shared = shared
    alices = alices
    bobs = bobs
    Users = {alice, bob}
    Auditors = {x}
    Clients = {alices, bobs}
    ClientOf <- OwnClients
    ROOTS_WINDOW = 2
    TreeCapacity = 6
    FeeUsdcBase = 0
    Tasks = {t1, t2}
    DepositBound = 2
    DepositAmounts = {1}
    Amounts = {1, 2}
    AnswersMayBeLost = TRUE
SYMMETRY Symmetry
SPECIFICATION Spec
INVARIANTS
    WalletMatchesChain
    BalanceWhenSettled
    CheckedTreeIsTheChains
PROPERTIES
    ImplementsPrivateLedger
