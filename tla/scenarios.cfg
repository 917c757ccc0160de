SPECIFICATION Spec
CONSTANTS
    t1 = t1
    t2 = t2
    t3 = t3
    t4 = t4
SYMMETRY Symmetry
INVARIANTS
    LagHasOwner
    GetWindowLag
    WindowCeiling
    WindowFloor
    PushesWithinWindow
PROPERTIES
    EmptyJustified
    QueueKOutOfOrder
    
    
    EmptyOnlyToFresh
