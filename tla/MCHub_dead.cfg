SPECIFICATION HistoryFairSpec
CONSTANTS
    v1 = v1
    v2 = v2
    NoTxn = NoTxn
    Nothing = Nothing
    Short = Short
    Unknown = Unknown
    Reqs <- MCReqs
    Wvalues <- MCWvalues
    Payloads <- MCPayloads
    Data <- MCData
    Statuses <- MCStatuses
    Events <- MCEvents
    ParamEvents <- MCParamEvents
    Params <- OneParam
    Values <- MCValues
    FixedReads <- MCFixedReads
    ToggleOrder <- NoReads
    ProbeReads <- NoReads
    ProbeTxn <- MCProbeTxn
    InputSource = "INPUT_SOURCE"
    InputRate = "INPUT_SOURCE"
    QueueDepth = 2
    DefaultToggles = {}
    Settable = {"INPUT_SOURCE"}
    MaxRetries = 1
    Polling = FALSE
    BootSource = Nothing
    Missing = {}
    NotifySettings = {TRUE}
    NotifyModulus = 256
    OfflineAfter = 2
    CounterModulus = 4
    MaxLate = 1
    FreeReplies = {"BUSY", "REQUEST_LOST"}
    FaultReplies = {"ERROR"}
    BaselineLoss = TRUE
    MaxCalls = 1
    MaxChanges = 0
    MaxFaults = 1
PROPERTIES GivesUp ProbedUntilIdentified RefreshServed
