SPECIFICATION FairSpec
CONSTANTS
    NoTxn = NoTxn
    Nothing = Nothing
    OutOfRange = OutOfRange
    Reqs <- MCReqs
    Wvalues <- MCSlots
    Payloads <- MCPayloads
    Data <- MCPayloads
    Statuses <- MCStatuses
    Events = {}
    PresetSlots <- MCSlots
    ProbeReads <- MCProbeReads
    BurstReads <- MCBurstReads
    ProbeTxn <- MCProbeTxn
    QueueDepth = 7
    CounterModulus = 8
    OfflineAfter = 1
    ConfirmAttempts = 1
    MaxRetries = 0
    FreeReplies = {"OK"}
    FaultReplies = {"DENIED", "BUSY", "ERROR", "REQUEST_LOST", "ANSWER_LOST", "UNUSABLE", "HINT_LOST"}
    MaxCalls = 1
    MaxFaults = 1
INVARIANTS TypeOK ConfirmsOwnLoad SlotHasRemedy
PROPERTIES ConfirmEnds ActiveFollows
