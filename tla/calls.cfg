SPECIFICATION MCSpec
CONSTANTS
    Requests = {r1, r2}
    NoDecision = NoDecision
    MaxStarts = 2
    Kinds <- MCKinds
    Labels = {"Success", "Cancelled"}
    BatchLimit = 1
    NoRun = NoRun
    MaxEvents = 2
    MaxTicks = 1
    MaxClosed = 1
    MaxCancelled = 1
    Callers = {open, a, b}
    Opener = open
    Silence = Silence
    Broken = Broken
    Cap = 1
    MaxAsks = 1
    MaxStray = 1
    Lookups = {init, def, ref}
    Initialize = init
    Unanswered = Unanswered
    Error = Error
    PipeSize = 1
    MaxRequests = 1
    MaxRepeats = 1
    MaxCalls = 2
    Retries = 1
    Backoff = 1
    FirstToken = 2
    IdleTimeout = 1
    Total = 3
    ReadTimeout = 2
    MaxTexts = 2
    NoLine = NoLine
    Tools = {1, 2}
    NoTool = 0
    Jobs <- MCJobs
    MaxWrite = 2
    MaxPolls = 2
    MaxSaid = 2
    PipeRoom = 1
    OutputLines = 1
    ByteLimit = 2
    MaxBytes = 5
CHECK_DEADLOCK FALSE
INVARIANTS CallsTypeOK AnswersAccounted CallsAccounted StatusTracksTask
PROPERTIES BrokerReplies McpReplies LspReplies CallersReturn
