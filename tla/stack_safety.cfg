SPECIFICATION Spec
CONSTANTS
    t1 = t1
    t2 = t2
    t3 = t3
    Threads = {t1,t2}
    Pushers = {t1,t2}
    Poppers = {t1,t2}
    Scheduled = {}
    Width = 2
    Depth = 1
    RandomHops = 1
    ReadOrders = {"node_first", "count_first"}
    PushOps = 3
    PopOps = 3
    MaxOps <- Operations
    VersionModulus = 5
INVARIANTS
    TypeOK
    StacksWhole
    NeverBelowZero
PROPERTIES
    EmptyRoundJustified
