CONSTANTS
    Circuits = {"deposit", "transfer"}
    Names <- TwoNames
    Beacons = {"drand", "block"}
    Rejected = {"typo"}
    Scripts = {s1}
    MaxTries = 2
    MaxRepeats = 1
    MaxCrashes = 2
SPECIFICATION FairSpec
INVARIANTS
    TypeOK
    FinishedIsTold
PROPERTIES
    NothingForgotten
    CeremonyCompletes
CHECK_DEADLOCK FALSE
