SPECIFICATION MCSpec
CONSTANTS
    p = p
    q = q
    x = x
    Paths = {p, q}
    Blank = Blank
    Dashed = Dashed
    Plussed = Plussed
    header = header
    Naming <- MCNaming
    Lines = {x, Blank, Dashed, Plussed, header}
    Missing = Missing
    Truncated = Truncated
    Originals <- MCOriginals
    Diffs <- MCDiffs
    MaxUserEdits = 1
    mismatch = mismatch
    Clusters = {mismatch}
    MaxVerdicts = 5
    Consumers = {memory_writer, rule_forge_observer}
    Run = Run
    OtherRuns = {run2}
    Others = {other}
    Events <- MCEvents
    MaxFaults = 1
    MaxOpens = 3
    MaxElsewhere = 1
    fmt = fmt
    test = test
    Commands = {fmt, test}
    ValidationPlans <- MCValidationPlans
    RollsBack = TRUE
    NoContent = NoContent
    Unreadable = Unreadable
    MaxContents = 2
    MaxWriteFaults = 1
    MaxAttempts = 2
    Budget = 1
    MaxBill = 2
    NoFile = NoFile
    Torn = Torn
    MaxEdits = 2
    MaxStarts = 2
    CaseCount = 2
    SchemaLimit = 1
    NoReport = NoReport
    Illegible = Illegible
    MaxBatches = 2
    Processes = {p1, p2, p3, case}
    BatchCases = {case}
    NoLock = NoLock
    code = code
    spec = spec
    toml = toml
    Sources = {code}
    Tests = {spec}
    Manifests = {toml}
    NoPath = NoPath
    Ledgers <- MCLedgers
    Failures <- MCFailures
    OutsidePaths = {code}
    MaxFailures = 2
    r1 = r1
    Writers = {r1, r2}
    SharedFiles = {shared}
    User = User
    NoEdit = NoEdit
    MaxPatches <- MCMaxPatches
    MaxEnds = 2
    SourceFiles = {indexed}
    Builders = {b1, b2}
    NoRecord = NoRecord
    MaxTexts = 2
    MaxMillis = 1
    MaxTries = 2
    Unset = Unset
    o1 = o1
    Outputs = {o1, o2}
    MaxAgentEvents = 1
    MaxValidations = 2
    MaxCommands = 2
    MaxKills = 1
    LogProcesses = {w1, w2}
    AtEnd = AtEnd
    Hole = Hole
    MaxLog = 2
    LineParts = 2
    MaxSubmitted = 5
    MaxOutages = 1
    MaxExits = 2
CHECK_DEADLOCK FALSE
INVARIANTS StoresTypeOK AppliedOrRefused RecordsKept RulesFollowFailures VerdictsExplained ReportsTruthful LockExclusive RepairKeepsMoving
