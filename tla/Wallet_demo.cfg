CONSTANTS
    alice = alice
    bob = bob
    shared = shared
    alices = alices
    bobs = bobs
    Users = {alice, bob}
    Auditors = {x, y}
    Clients = {shared}
    ClientOf <- SharedClient
    ROOTS_WINDOW = 2
    TreeCapacity = 4
    FeeUsdcBase = 1
    Tasks = {t1}
    DepositBound = 5
    DepositAmounts = {1}
    Amounts = {1, 2}
    AnswersMayBeLost = FALSE
SYMMETRY Symmetry
SPECIFICATION Spec
INVARIANTS
    TypeOK
    ProvedIsAccepted
    ClientFollowsChain
    DisclosureIsExact
    AuditorsBooksBalance
PROPERTIES
    ImplementsPrivateLedger
