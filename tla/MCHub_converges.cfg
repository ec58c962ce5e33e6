SPECIFICATION HistoryFairSpec
CONSTANTS
    v1 = v1
    v2 = v2
    NoTxn = NoTxn
    Nothing = Nothing
    Short = Short
    Unknown = Unknown
    Reqs <- MCReqs
    Wvalues <- MCWvalues
    Payloads <- MCPayloads
    Data <- MCData
    Statuses <- MCStatuses
    Events <- MCEvents
    ParamEvents <- MCParamEvents
    Params <- OneParam
    Values <- MCValues
    FixedReads <- MCFixedReads
    ToggleOrder <- NoReads
    ProbeReads <- OneProbeRead
    ProbeTxn <- MCProbeTxn
    InputSource = "INPUT_SOURCE"
    InputRate = "INPUT_SOURCE"
    QueueDepth = 3
    DefaultToggles = {}
    Settable = {"INPUT_SOURCE"}
    MaxRetries = 2
    Polling = TRUE
    BootSource = Nothing
    Missing = {}
    NotifySettings = {TRUE, FALSE}
    NotifyModulus = 256
    OfflineAfter = 2
    CounterModulus = 256
    MaxLate = 0
    FreeReplies = {"OK"}
    FaultReplies = {"IGNORED", "NOTIFY_LOST", "REBOOT"}
    BaselineLoss = FALSE
    MaxCalls = 1
    MaxChanges = 2
    MaxFaults = 1
INVARIANTS StaleHasRemedy MissedShows SettledAgrees
PROPERTY Converges
