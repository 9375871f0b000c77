SPECIFICATION Spec
CONSTANTS
    shelfA = shelfA
    shelfB = shelfB
    patrol = patrol
    operator = operator
    x1 = x1
    x2 = x2
    x3 = x3
    None = None
    Robots <- TwoRobots
    Subtasks <- AllSubtasks
    Compatible <- CompatibleOf
    Operator = operator
    LeaseS = 1
    Subscribers = 2
    LeaseIds <- ThreeLeases
CHECK_DEADLOCK FALSE
SYMMETRY LeaseSymmetry
INVARIANTS TypeOK OneDriverWithinLeases EndedTasksHoldNothing SubscribersAgree
