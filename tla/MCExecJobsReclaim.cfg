SPECIFICATION Spec
CONSTANTS
    i1 = i1
    i2 = i2
    i3 = i3
    w1 = w1
    w2 = w2
    h1 = h1
    h2 = h2
    NoHash = NoHash
    NoRecord = NoRecord
    NoId = NoId
    NoOp = NoOp
    Ids <- ThreeIds
    Workspaces <- OneWorkspace
    Hashes <- OneHash
    MaxActive = 1
    MaxRecords = 2
    MaxUnits = 2
    ReceiptSize <- OneSize
    MaxReceiptSize = 2
    KeepRecent = 1
    Batch = 2
    Disruptions = {"crash", "shutdown", "write", "sync", "receipt", "unlink", "output"}
    MaxDisruptions = 1
SYMMETRY Symmetry
INVARIANTS
    ClientNeverGoesBack
    QuotaRespected
    SpilledOutputKept
PROPERTIES
    LiveApprovalKept
