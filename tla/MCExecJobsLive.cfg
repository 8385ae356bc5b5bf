SPECIFICATION LiveSpec
CONSTANTS
    i1 = i1
    i2 = i2
    i3 = i3
    w1 = w1
    w2 = w2
    h1 = h1
    h2 = h2
    NoHash = NoHash
    NoRecord = NoRecord
    NoId = NoId
    NoOp = NoOp
    Ids <- TwoIds
    Workspaces <- OneWorkspace
    Hashes <- OneHash
    MaxActive = 1
    MaxRecords = 1
    MaxUnits = 1
    ReceiptSize <- TwoSizes
    MaxReceiptSize = 1
    KeepRecent = 0
    Batch = 1
    Disruptions = {"crash", "write"}
    MaxDisruptions = 1
PROPERTIES
    JobsEnd
    EveryStartAdmitted
