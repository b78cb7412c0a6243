SPECIFICATION FairSpec
CONSTANTS
    f1 = f1
    NoFile = NoFile
    Files = {f1}
    Configured = {"fmt", "full"}
    RunProfiles = {"AutonomousSandboxed"}
    MaxIterations = 2
    VerifierDrainBudget = 1
    ParserRecoveryBudget = 2
    Cancellable = TRUE
    Timed = TRUE
    TokenLimited = TRUE
    MaxTotalTokens = 1
    NativeToolCalls = FALSE
    JsonRequired = FALSE
    RollbackOnFailure = TRUE
    Batches <- MCSingleActions
    MaxResumes = 0
CHECK_DEADLOCK FALSE
PROPERTIES TokenBudgetRespected RereadBeforeEdit StopRequestHonoured
