SPECIFICATION Spec
CONSTANTS
    home = home
    other = other
    verb = verb
    action = action
    skill = skill
    far = far
    chat = chat
    Calls <- FleetPair
    Robots <- FleetOfTwo
    TaskRobot = home
    Kind <- KindOf
    Target <- TargetOf
    Cmds <- CmdsOf
    MayCancel = FALSE
CHECK_DEADLOCK FALSE
INVARIANT AbortReachesAddressedRobot
