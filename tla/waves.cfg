CONSTANTS
    c1 = c1
    c2 = c2
    c3 = c3
    o1 = o1
    Child = {c1, c2, c3}
    Links <- Shapes
    Operator = {o1}
    MaxLive = 1
    MaxFaults = 1
SPECIFICATION FairSpec
CHECK_DEADLOCK FALSE
INVARIANTS PlanIsLayered
PROPERTIES BlockersFirst EpicFinishes
