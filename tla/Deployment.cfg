CONSTANTS
    Circuits <- TwoCircuits
    Origins = {"dev-setup", "ceremony"}
    Verifiers = {"groth16-verifier", "integration-testing"}
    CommandLines <- UpToThreeFlags
    Config <- Files
    FirstBuilds <- AnyArtifact
    Bins = {}
    MaxRuns = 2
    MaxChanges = 2
SPECIFICATION Spec
INVARIANTS
    KeysPassedGates
    DeployedAsSummarised
    NoCommandUnready
CHECK_DEADLOCK FALSE
