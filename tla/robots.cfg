SPECIFICATION RobotsSpec
CONSTANTS
    GateRobots = {1, 2}
    GateTasks = {t1, t2}
    GateVerbs = {"grasp", "taught"}
    Taught = "taught"
    GateSkills = {pick}
    GateNeeds <- SomeNeeds
    GateUnknown = {"?"}
    GateFleets <- OldServerFleet
    GateMaxVersion = 2
    GateMaxChanges = 1
    SimCalls = {1}
    Objects = {"cube"}
    Scenes = {1, 2}
    FirstScene = 1
    BodyId <- SomeBodies
    HasEe = {1}
    Spots = {"a", "b"}
    Ready = "a"
    Engines = {"mujoco", "kinematic"}
    RobotIds = {"r1", "r2", "ghost"}
    CtxRobot = "r1"
    Fleets <- SomeFleets
    MotionNames = {"stow", "wave", "jump"}
    MotionsOf <- SomeMotions
    Numbers <- SomeNumbers
    Configs <- SomeConfigs
    Joints = 2
    Skills = {"pick1", "pick2", "pick2bis", "bad", "place1"}
    Manifest <- SomeManifests
    NoVersion = ""
    NoSkill = NoSkill
    MaxSwaps = 6
    MaxPoints = 3
    r1 = r1
    r2 = r2
    t1 = t1
    t2 = t2
    x1 = x1
    x2 = x2
    x3 = x3
    x4 = x4
    None = None
    Robots <- TwoRobots
    Holders <- TwoTasks
    LeaseIds <- FourLeases
    Durations <- Terms
CHECK_DEADLOCK FALSE
INVARIANTS CheckedIsRun CallsAreSafe RegistryKeepsVersions SkillStepsAreSafe ClaimHonoured
PROPERTIES GraspIsKept OwnershipSpec LeaseEnds
