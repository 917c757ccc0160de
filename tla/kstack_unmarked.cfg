SPECIFICATION Spec
CONSTANTS
    t1 = t1
    t2 = t2
    t3 = t3
    Designs = {"segment_stack"}
    MaxSegments = 4
INVARIANTS
    RemoveCounts
