SPECIFICATION Spec
CONSTANTS
    i1 = i1
    i2 = i2
    i3 = i3
    w1 = w1
    w2 = w2
    h1 = h1
    h2 = h2
    NoHash = NoHash
    NoRecord = NoRecord
    NoId = NoId
    NoOp = NoOp
    Ids <- TwoIds
    Workspaces <- TwoWorkspaces
    Hashes <- TwoHashes
    MaxActive = 2
    MaxRecords = 1
    MaxUnits = 2
    ReceiptSize <- OneSize
    MaxReceiptSize = 2
    KeepRecent = 0
    Batch = 1
    Disruptions = {"crash", "power", "sync", "output"}
    MaxDisruptions = 2
INVARIANTS
    TypeOK
    AtMostOnce
    TombstoneNeverRuns
    ExecutedStaysBound
PROPERTIES
    BindingStable
    OnceSpec
