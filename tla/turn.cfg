SPECIFICATION TurnSpec
CONSTANTS
    home = home
    other = other
    verb = verb
    action = action
    skill = skill
    far = far
    chat = chat
    Calls <- EveryKind
    Robots <- FleetOfTwo
    TaskRobot = home
    Kind <- KindOf
    Target <- TargetOf
    Cmds <- CmdsOf
    MayCancel = TRUE
CHECK_DEADLOCK FALSE
INVARIANTS GateBeforeMotion ViolationIsNeverSwallowed OwnRobotSiblingsStopped
PROPERTY TurnEnds
