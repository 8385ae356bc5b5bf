SPECIFICATION LiveSpec
CONSTANTS
    w1 = w1  w2 = w2  x1 = x1  x2 = x2  t1 = t1  t2 = t2
    None = None
    Workspaces <- TwoWorkspaces
    Watchers <- TwoWatchers
    Tasks <- TwoTasks
    Limit = 1
    Ttl = 1
INVARIANTS TypeOK Supervised WithinLimit
PROPERTY RequestsEnd
