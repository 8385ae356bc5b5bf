SPECIFICATION Spec
CONSTANTS
    r1 = r1
    r2 = r2
    r3 = r3
    Reservations <- ThreeReservations
    MaxOperations = 2
    MaxTokens = 3
    Sizes = {1, 2}
    Faults = {"persist", "persist_sync", "ledger", "remove", "remove_sync", "unmovable"}
    MaxFaults = 2
SYMMETRY Symmetry
INVARIANTS
    TypeOK
    RunAccounted
    ReceiptTruthful
    WithinAllowance
    TokensWithinAllowance
PROPERTIES
    AllowanceSpec
