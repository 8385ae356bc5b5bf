SPECIFICATION Spec
CONSTANTS
    s1 = s1
    s2 = s2
    s3 = s3
    p1 = p1
    p2 = p2
    p3 = p3
    None = None
    Garbled = Garbled
    Supervisors <- ThreeSupervisors
    Processes <- ThreeProcesses
    Transport = "Http"
    Sharings = {"daemon", "library"}
    MaxFailures = 2
SYMMETRY Symmetry
INVARIANTS
    TypeOK
    OneWriter
    OneOwner
CHECK_DEADLOCK FALSE
