SPECIFICATION LiveSpec
CONSTANTS
    c1 = c1
    p1 = p1
    p2 = p2
    Correlations <- OneCommand
    Processes <- TwoProcesses
    None = None
    MaxReceipts = 1
    Grace = 1
    Ttl = 1
    Faults = {"append", "kill", "ledger", "coverage", "rename", "crash"}
    MaxFaults = 1
INVARIANTS
    TypeOK
    KeyKept
    OrphanRejectionReported
PROPERTIES
    AttributionKept
    RotationWaits
    ReceiptsSettle
