SPECIFICATION Spec
CONSTANTS
    home = home
    other = other
    verb = verb
    action = action
    skill = skill
    far = far
    chat = chat
    Calls <- OneVerb
    Robots <- FleetOfTwo
    TaskRobot = home
    Kind <- KindOf
    Target <- TargetOf
    Cmds <- CmdsOf
    MayCancel = FALSE
CHECK_DEADLOCK FALSE
INVARIANT RobotFaultIsRecoverable
