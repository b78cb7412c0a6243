SPECIFICATION Spec
CONSTANTS
    f1 = f1
    NoFile = NoFile
    Files = {f1}
    Configured = {"fmt", "full"}
    RunProfiles = {"Interactive", "AutonomousHost", "AutonomousSandboxed"}
    MaxIterations = 2
    VerifierDrainBudget = 1
    ParserRecoveryBudget = 1
    Cancellable = FALSE
    Timed = FALSE
    TokenLimited = FALSE
    MaxTotalTokens = 2
    NativeToolCalls = TRUE
    JsonRequired = TRUE
    RollbackOnFailure = TRUE
    Batches <- MCBatches
    MaxResumes = 1
CHECK_DEADLOCK FALSE
INVARIANTS TypeOK SuccessIsVerified DrainedBeforeModel IterationsBounded
