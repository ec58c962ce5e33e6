SPECIFICATION Spec
CONSTANTS
    NoTxn = NoTxn
    Nothing = Nothing
    OutOfRange = OutOfRange
    Reqs <- MCReqs
    Wvalues <- MCSlots
    Payloads <- MCPayloads
    Data <- MCPayloads
    Statuses <- MCStatuses
    Events = {}
    PresetSlots <- MCSlots
    ProbeReads <- MCProbeReads
    BurstReads <- MCBurstReads
    ProbeTxn <- MCProbeTxn
    QueueDepth = 6
    CounterModulus = 8
    OfflineAfter = 2
    ConfirmAttempts = 1
    MaxRetries = 1
    FreeReplies = {"OK"}
    FaultReplies = {}
    MaxCalls = 1
    MaxFaults = 0
INVARIANTS NameAttributed
