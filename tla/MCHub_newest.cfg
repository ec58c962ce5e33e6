SPECIFICATION HistorySpec
CONSTANTS
    v1 = v1
    v2 = v2
    NoTxn = NoTxn
    Nothing = Nothing
    Short = Short
    Unknown = Unknown
    Reqs <- MCReqs
    Wvalues <- MCWvalues
    Payloads <- MCPayloads
    Data <- MCData
    Statuses <- MCStatuses
    Events <- MCEvents
    ParamEvents <- MCParamEvents
    Params <- OneParam
    Values <- MCValues
    FixedReads <- MCFixedReads
    ToggleOrder <- NoReads
    ProbeReads <- NoReads
    ProbeTxn <- MCProbeTxn
    InputSource = "INPUT_SOURCE"
    InputRate = "INPUT_SOURCE"
    QueueDepth = 2
    DefaultToggles = {}
    Settable = {"INPUT_SOURCE"}
    MaxRetries = 1
    Polling = FALSE
    BootSource = Nothing
    Missing = {}
    NotifySettings = {TRUE}
    NotifyModulus = 256
    OfflineAfter = 2
    CounterModulus = 256
    MaxLate = 0
    FreeReplies = {"OK"}
    FaultReplies = {"BUSY"}
    BaselineLoss = TRUE
    MaxCalls = 2
    MaxChanges = 0
    MaxFaults = 1
INVARIANT NewestQueued
