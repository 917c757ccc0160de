SPECIFICATION ScheduleSpec
CONSTANTS
    t1 = t1
    t2 = t2
    Threads = {t1, t2}
    Producers = {t1}
    Consumers = {t1, t2}
    Widths = {1, 2}
    Depths = {1}
    LawDepths = {1}
    LawProducers = {t1}
    LawConsumers = {t1, t2}
    LpwDepths = {1}
    RandomHops = 2
    MaxOps = 9
    MaxUpdates = 2
    Designs = {"law"}
INVARIANTS
    HeadHasNext
