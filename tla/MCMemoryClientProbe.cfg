SPECIFICATION Spec
CONSTANTS
    c1 = c1
    c2 = c2
    c3 = c3
    NoCall = NoCall
    Calls <- ThreeCalls
    Kinds = {"recall", "store"}
    Transport = "Http"
    CliFallback = "no"
    Threshold = 1
    MaxFailures = 2
INVARIANT ProbeIsOut
CHECK_DEADLOCK FALSE
