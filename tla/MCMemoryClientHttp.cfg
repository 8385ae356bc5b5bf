SPECIFICATION Spec
CONSTANTS
    c1 = c1
    c2 = c2
    c3 = c3
    NoCall = NoCall
    Calls <- ThreeCalls
    Kinds = {"recall", "store"}
    Transport = "Http"
    CliFallback = "yes"
    Threshold = 1
    MaxFailures = 4
SYMMETRY Symmetry
INVARIANTS TypeOK StoreAtMostOnce OneProbe
PROPERTY ReclosedByProbe
CHECK_DEADLOCK FALSE
