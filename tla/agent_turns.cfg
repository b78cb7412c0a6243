SPECIFICATION FairSpec
CONSTANTS
    f1 = f1
    NoFile = NoFile
    Files = {f1}
    Configured = {"fmt", "full"}
    RunProfiles = {"AutonomousHost"}
    MaxIterations = 1
    VerifierDrainBudget = 1
    ParserRecoveryBudget = 2
    Cancellable = FALSE
    Timed = FALSE
    TokenLimited = FALSE
    MaxTotalTokens = 2
    NativeToolCalls = TRUE
    JsonRequired = TRUE
    RollbackOnFailure = TRUE
    Batches <- MCSingleActions
    MaxResumes = 0
CHECK_DEADLOCK FALSE
PROPERTY RunEnds
