SPECIFICATION Spec
CONSTANTS
    c1 = c1
    p1 = p1
    p2 = p2
    Correlations <- OneCommand
    Processes <- TwoProcesses
    None = None
    MaxReceipts = 1
    Grace = 1
    Ttl = 2
    Faults = {}
    MaxFaults = 0
INVARIANT
    EveryReceiptCounted
CHECK_DEADLOCK FALSE
