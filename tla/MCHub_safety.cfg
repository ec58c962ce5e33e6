SPECIFICATION HistorySpec
CONSTANTS
    v1 = v1
    v2 = v2
    NoTxn = NoTxn
    Nothing = Nothing
    Short = Short
    Unknown = Unknown
    Reqs <- ToggleReqs
    Wvalues <- MCWvalues
    Payloads <- MCPayloads
    Data <- MCData
    Statuses <- MCStatuses
    Events <- MCEvents
    ParamEvents <- MCParamEvents
    Params <- ToggleParams
    Values <- MCValues
    FixedReads <- MCFixedReads
    ToggleOrder <- TwoToggles
    ProbeReads <- OneProbeRead
    ProbeTxn <- MCProbeTxn
    InputSource = "INPUT_SOURCE"
    InputRate = "INPUT_SOURCE"
    QueueDepth = 3
    DefaultToggles = {"LOUDNESS"}
    Settable = {"INPUT_SOURCE", "USER_MUTE"}
    MaxRetries = 1
    Polling = FALSE
    BootSource = v1
    Missing = {"LOUDNESS"}
    NotifySettings = {TRUE}
    NotifyModulus = 256
    OfflineAfter = 1
    CounterModulus = 256
    MaxLate = 0
    FreeReplies = {"OK"}
    FaultReplies = {"SHORT", "BUSY", "REQUEST_LOST", "ANSWER_LOST", "REBOOT"}
    BaselineLoss = TRUE
    MaxCalls = 1
    MaxChanges = 0
    MaxFaults = 2
INVARIANTS TypeOK UniqueRequests OfflineForgets Attributed LatchedOnlyRefused TransmissionsBounded
PROPERTIES BurstWhole CommandsKept PublishesSamples
