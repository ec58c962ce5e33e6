SPECIFICATION FairSpec
CONSTANTS
    NoTxn = NoTxn
    Nothing = Nothing
    Reqs <- MCReqs
    Wvalues <- MCWvalues
    Payloads <- MCPayloads
    Data <- MCData
    Statuses <- MCStatuses
    Events = {}
    ProbeTxn <- MCProbeTxn
    Others <- MCOthers
    Channels <- TwoChannels
    DevChannels <- TwoChannels
    Taps = {"input"}
    Orders = {10}
    DevOrders = {10}
    DefaultOrder = 10
    Chunks = 1
    StartConfig <- MCStartConfig
    AutoEnable = FALSE
    Uptimes = {"early"}
    Kinds = {"V3"}
    QueueDepth = 4
    CounterModulus = 256
    OfflineAfter = 2
    MaxRetries = 1
    FreeReplies = {"OK"}
    FaultReplies = {}
    MaxCalls = 2
    MaxFaults = 0
PROPERTY DisablingStops
