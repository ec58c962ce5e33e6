SPECIFICATION FairSpec
CONSTANTS
    NoTxn = NoTxn
    Nothing = Nothing
    Reqs <- MCReqs
    Wvalues <- MCWvalues
    Payloads <- MCPayloads
    Data <- MCData
    Statuses <- MCStatuses
    Events = {}
    ProbeTxn <- MCProbeTxn
    Others <- MCOthers
    Channels <- TwoChannels
    DevChannels <- TwoChannels
    Taps = {"input"}
    Orders = {10}
    DevOrders = {10}
    DefaultOrder = 10
    Chunks = 1
    StartConfig <- MCStartConfig
    AutoEnable = TRUE
    Uptimes = {"early"}
    Kinds = {"V3", "V2", "NONE"}
    QueueDepth = 4
    CounterModulus = 256
    OfflineAfter = 2
    MaxRetries = 0
    FreeReplies = {"OK"}
    FaultReplies = {"SHORT", "STALE", "BUSY", "ERROR", "REQUEST_LOST", "ANSWER_LOST", "FOREIGN"}
    MaxCalls = 2
    MaxFaults = 1
INVARIANTS TypeOK BusyMeansWork NeverParked
PROPERTIES VerdictNeedsRefusal Streams AppliesUndisturbed PolledInTurn
