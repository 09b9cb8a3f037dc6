CONSTANTS
    a1 = a1
    a2 = a2
    a3 = a3
    b1 = b1
    a = a
    b = b
    None = None
    Task = {a1, a2, a3, b1}
    Correlation = {a, b}
    CorrOf <- TwoWorkflows
    Cap = 3
SPECIFICATION FairSpec
CHECK_DEADLOCK FALSE
INVARIANTS TypeOK SlotsAccounted CapHolds
PROPERTIES SlotHandedOn NotOvertaken EveryoneServed
