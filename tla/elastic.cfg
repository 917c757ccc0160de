SPECIFICATION Spec
CONSTANTS
    t1 = t1
    t2 = t2
    Threads = {t1, t2}
    Producers = {t1, t2}
    Consumers = {t2}
    Widths = {1, 2}
    Depths = {1, 2}
    LawDepths = {1, 2}
    LawProducers = {t1}
    LawConsumers = {t1, t2}
    LpwDepths = {1}
    RandomHops = 0
    MaxOps = 3
    MaxUpdates = 1
    Designs = {"law", "lpw"}
INVARIANTS
    HeadHasNext
    PutRows
    LateralSorted
    ShiftUp
