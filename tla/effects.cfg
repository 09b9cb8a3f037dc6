CONSTANTS
    t1 = t1
    t2 = t2
    k1 = k1
    k2 = k2
    Thread = {t1, t2}
    Task = {k1, k2}
    MaxRounds = 3
    MaxHeads = 2
    MaxTrouble = 2
SPECIFICATION Spec
CHECK_DEADLOCK FALSE
INVARIANTS TypeOK RepeatNeedsTwoFaults
PROPERTIES CompletedIsPosted
