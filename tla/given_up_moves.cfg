SPECIFICATION SimSpec
CONSTANTS
    SimCalls = {1, 2}
    Objects = {"cube"}
    Scenes = {1, 2}
    FirstScene = 1
    BodyId <- SomeBodies
    HasEe = {1}
    Spots = {"a", "b"}
    Ready = "a"
    Engines = {"mujoco", "kinematic"}
PROPERTY GivenUpStaysPut
CHECK_DEADLOCK FALSE
