CONSTANTS
    s1 = s1
    s2 = s2
    Setups <- BusSetups
    Subscriber = {s1, s2}
    MaxEvents = 2
    Batch = 2
    MaxRetries = 1
    MaxMarks = 1
    MaxTrouble = 1
SPECIFICATION Spec
INVARIANTS TypeOK  InOrder
PROPERTIES Delivered
CHECK_DEADLOCK FALSE
