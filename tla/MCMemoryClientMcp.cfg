SPECIFICATION LiveSpec
CONSTANTS
    c1 = c1
    c2 = c2
    c3 = c3
    NoCall = NoCall
    Calls <- ThreeCalls
    Kinds = {"recall", "store", "health"}
    Transport = "StdioMcp"
    CliFallback = "yes"
    Threshold = 2
    MaxFailures = 2
INVARIANTS ReceiptIsStored
PROPERTY CallsEnd
CHECK_DEADLOCK FALSE
