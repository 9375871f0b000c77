SPECIFICATION ServicesSpec
CONSTANTS
    GateRobots = {1, 2}
    GateTasks = {t1}
    GateVerbs = {"grasp", "taught"}
    Taught = "taught"
    GateSkills = {pick}
    GateNeeds <- SomeNeeds
    GateUnknown = {"?"}
    GateFleets <- SomeGateFleets
    GateMaxVersion = 2
    GateMaxChanges = 1
    Budgets <- SomeBudgets
    Unset = Unset
    Stacks <- AllStacks
    BaseS = 6
    DefaultVerbS = 6
    VerbMarginS = 1
    BackstopMarginS = 2
    RequestS = 1
    McpCallIds = {1}
    McpTools = {"detect", "move", "inner_grasp", "ghost"}
    McpHidden = {"inner_grasp"}
    McpHardware = {"move", "inner_grasp"}
    McpExpected = {"detect"}
    McpCatalogs <- SomeCatalogs
    TgMax = 4
    TgTexts = {1, 3, 4}
    GwFrames <- SomeFrames
    ScRobots = {"r1", "r2"}
    ScWrites <- SomeWrites
    ScEntries <- SomeEntries
    MaxScStores = 2
    MaxScCalls = 3
    Handlers = {"h1", "h2"}
    MaxEvents = 3
    ann = ann
    bob = bob
    a1 = a1
    a2 = a2
    b1 = b1
    NoSession = NoSession
    Messages <- ThreeMessages
    Users <- TwoUsers
    User <- SenderOf
    MaxAsks = 2
    MaxTurns = 4
    CriticInterval = 2
    MaxReplan = 1
    MaxAskUser = 1
    MaxUnchanged = 1
    MaxCalls = 2
    HasCritic = TRUE
CHECK_DEADLOCK FALSE
INVARIANTS OfferIsJustified ClientGivesUpFirst GrantedTimeIsKept McpCallsAreHonest MessagesAccounted ScaffoldIsKept EventsAreHandled AnswerHasOneQuestion NoStaleQuestion ReturnsAfterReplies ConversationWellFormed OneEpisodePerResult BudgetsHold
PROPERTIES GwStaysStopped WaitsEnd EveryMessageHandled RunEnds
