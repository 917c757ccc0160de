SPECIFICATION Spec
CONSTANTS
    t1 = t1
    t2 = t2
    t3 = t3
    Designs = {"segment_queue_1", "segment_queue_2", "segment_stack", "queue_ms", "multi_queue", "queue_dra", "treiber", "elimination", "multi_stack", "stack_dra"}
    MaxSegments = 4
INVARIANTS
    SegmentsUsedUp
    NoneLost
    ExactlyOnce
PROPERTIES
    StrictQueues
    StrictStacks
    SegmentsOutOfOrder
    EmptyObserved
    TakenOnce
