SPECIFICATION Spec
CONSTANTS
    Calls = {1, 2}
    Chains <- BreakerOnly
    Key <- TwoKeys
    RobotOf <- TwoRobots
    Robots = {"r1", "r2"}
    Ref <- TwoRefs
    Artifacts = {"x", "y", "z"}
    NoCall = NoCall
    Global = "all"
    Threshold = 1
    ResetS = 1
    MaxRetries = 1
    BackoffS = 1
    Jitter = {0}
    TimeoutS = 2
    TtlS = 2
    MaxSize = 1
    Unit = 2
    Rate <- OnePerSecond
    Burst <- SmallBurst
    StoreCap = 2
    MaxStart = 1
    MaxTime = 6
CHECK_DEADLOCK FALSE
PROPERTY BreakerHeldOpen
