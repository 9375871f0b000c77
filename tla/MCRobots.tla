------------------------------ MODULE MCRobots ------------------------------
(***************************************************************************)
(* The components around a robot that share no state, in one run: "focus"  *)
(* is the one that moves, the others stay where they start.                *)
(***************************************************************************)
EXTENDS MCCapabilityGate, MCSimServer, SafeCalls, SkillRegistry, SkillRuns,
        MCLeaseManager

VARIABLE focus

SomeFleets == {{}, {"r1", "r2"}}
SomeNumbers == {<<>>, <<"in", "in">>, <<"in", "out">>, <<"nan", "in">>, <<"in", "in", "in">>,
                <<"in", "in", "out">>, <<"in", "in", "in", "out">>}
SomeMotions == [r \in RobotIds |-> [m \in MotionNames |->
    IF r = "r1" /\ m = "stow" THEN << <<"in", "in">>, <<"in", "out">> >>
    ELSE IF r = "r2" /\ m # "jump" THEN << <<"in", "in">>, <<"nan", "in">>, <<"in", "in">> >>
    ELSE <<>>]]
SomeConfigs == [enabled : {TRUE}, rules : {{}, RuleKinds}]
                 \cup [enabled : {FALSE}, rules : {RuleKinds}]

\* Two objects of one version, an invalid manifest, another skill.
SomeManifests == [s \in Skills |->
    [name |-> IF s = "place1" THEN "place" ELSE "pick",
     version |-> CASE s = "pick2" \/ s = "pick2bis" -> "2.0.0"
                   [] s = "bad" -> "3.0" [] OTHER -> "1.0.0",
     valid |-> s # "bad"]]

\* Two tasks start on a fleet whose second robot is an old server.
OldServerFleet == {b \in SomeGateFleets : b[2].verbs = GateUnknown}

rest == <<callVars, registryVars, runVars, vars>>

RobotsInit ==
    /\ Init /\ GateInit /\ SimInit /\ CallInit /\ RegistryInit /\ RunInit
    /\ focus \in {"gate", "sim", "call", "registry", "run", "leases"}
    /\ focus # "gate" => body = CHOOSE b \in GateFleets : TRUE
    /\ focus # "sim" => /\ engine = "mujoco"
                        /\ place = [o \in Objects |-> Floor(Ready)]
    /\ focus # "call" => setup = CHOOSE s \in [fleet : Fleets, cfg : Configs] : TRUE
    /\ focus # "run" => subtask = CHOOSE s \in Subtasks : TRUE

RobotsNext ==
    /\ UNCHANGED focus
    /\ \/ focus = "gate" /\ GateNext /\ UNCHANGED <<simVars, rest>>
       \/ focus = "sim" /\ SimNext /\ UNCHANGED <<gateVars, rest>>
       \/ focus = "call" /\ CallNext
            /\ UNCHANGED <<gateVars, simVars, registryVars, runVars, vars>>
       \/ focus = "registry" /\ RegistryNext
            /\ UNCHANGED <<gateVars, simVars, callVars, runVars, vars>>
       \/ focus = "run" /\ RunNext
            /\ UNCHANGED <<gateVars, simVars, callVars, registryVars, vars>>
       \/ focus = "leases" /\ Next
            /\ UNCHANGED <<gateVars, simVars, callVars, registryVars, runVars>>

robotsVars == <<gateVars, simVars, rest, focus>>

\* The clock of the leases runs.
RobotsSpec ==
    /\ RobotsInit /\ [][RobotsNext]_robotsVars
    /\ WF_robotsVars(focus = "leases" /\ Tick
                       /\ UNCHANGED <<gateVars, simVars, callVars, registryVars, runVars, focus>>)
=============================================================================
