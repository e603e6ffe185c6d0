CONSTANTS
    DEPTH = 3
    ZeroLeaf <- EmptyLeaf
    FieldOrder = 17
    RANGE_BITS = 3
    WITHDRAW_BITS = 2
    Auditors = {a1, a2}
    ROOTS_WINDOW = 2
    FeeUsdcBase = 1
    DepositAmounts = {1, 4}
    Amounts = {1, 4}
    Deposits = 2
    AMT_A = 4
    AMT_B = 3
    AMT_OUT0 = 5
    AMT_OUT1 = 2
    RELAYER_FEE = 1
SPECIFICATION E2ESpec
INVARIANTS
    CountedWithinCapacity
    FilledSubtreesAreLeftSiblings
    RootsAgree
    EveryPathVerifies
    AcceptedIffProved
    ProvableExactly
    ProofFixesTheCall
    AnyWitnessConserves
    NotesAreCommitted
    FixturesReplay
CHECK_DEADLOCK FALSE
