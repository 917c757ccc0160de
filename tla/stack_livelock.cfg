SPECIFICATION FairSpec
CONSTANTS
    t1 = t1
    t2 = t2
    t3 = t3
    Threads = {t1,t2}
    Pushers = {t1}
    Poppers = {t2}
    Scheduled = {t1,t2}
    Width = 2
    Depth = 1
    RandomHops = 0
    ReadOrders = {"count_first"}
    PushOps = 3
    PopOps = 1
    MaxOps <- Operations
    VersionModulus = 6
PROPERTIES
    SomeReturns
