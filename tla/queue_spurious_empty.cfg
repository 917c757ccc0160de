SPECIFICATION Spec
CONSTANTS
    t1 = t1
    t2 = t2
    t3 = t3
    Threads = {t1, t2}
    Producers = {t1, t2}
    Consumers = {t1, t2}
    Scheduled = {}
    Width = 2
    Depth = 1
    RandomHops = 1
    PutReadOrders = {"node_first"}
    GetReadOrders = {"count_first"}
    MaxOps = 3
PROPERTIES
    EmptyJustified
