----------------------------- MODULE SafeCalls ------------------------------
(***************************************************************************)
(* One hardware-bound call from its arguments to its result: the schema    *)
(* gate, the commands a tool derives from the arguments, the rules of the  *)
(* safety envelope, the robot's own check, the audit log, the dispatch and *)
(* the verdict.  ToolDispatch has the concurrency of such calls and takes  *)
(* their checks as given; this module has the checks.                      *)
(***************************************************************************)
EXTENDS Naturals, Sequences

CONSTANTS
    RobotIds,      \* ids a caller may name, some of them of no robot
    CtxRobot,      \* ctx.robot_id
    Fleets,        \* sets of wired robots; {} if the tool has no adapters
    MotionNames,
    MotionsOf,     \* the taught-motion catalog: points by robot and name
    Numbers,       \* lists of values a target may hold
    Configs,       \* safety configurations
    Joints         \* Len(joint_limits_rad)

\* How the configured rule sees a value.  NaN is neither inside nor outside.
Values == {"in", "out", "nan"}
RuleKinds == {"joint", "delta", "cartesian", "locomotion"}
Kinds == RuleKinds \cup {"hand_grasp"}

ASSUME CallAssumption ==
    /\ CtxRobot \in RobotIds
    /\ Fleets \subseteq SUBSET RobotIds
    /\ Numbers \subseteq Seq(Values)
    /\ MotionsOf \in [RobotIds -> [MotionNames -> Seq(Numbers)]]
    /\ Configs \subseteq [enabled : BOOLEAN, rules : SUBSET RuleKinds]
    /\ Joints \in Nat

(* The tools: required arguments, and the argument the harness can check. *)

ReactiveGrasp == [required |-> {"robot_id", "target_hint"},
                  checked |-> "approach_pose", kind |-> "cartesian"]
VisualServoTo == [required |-> {"robot_id", "target_pose"},
                  checked |-> "target_pose", kind |-> "cartesian"]
MoveToPose == [required |-> {"robot_id", "target_pose"},
               checked |-> "target_pose", kind |-> "cartesian"]
MoveJoints == [required |-> {"robot_id", "target_joints"},
               checked |-> "target_joints", kind |-> "joint"]
RunTaughtMotion == [required |-> {"robot_id", "motion"},
                    checked |-> "motion", kind |-> "joint"]
LocomoteTo == [required |-> {"robot_id", "target_pose"},
               checked |-> "target_pose", kind |-> "locomotion"]
Home == [required |-> {"robot_id"}, checked |-> "none", kind |-> "none"]
ExecuteAction == [required |-> {"robot_id", "command_type", "values"},
                  checked |-> "values", kind |-> "any"]

Tools == {ReactiveGrasp, VisualServoTo, MoveToPose, MoveJoints, RunTaughtMotion,
          LocomoteTo, Home, ExecuteAction}

VARIABLES
    setup,     \* the fleet and the safety configuration
    request,   \* the call: its caller, tool and arguments
    phase,     \* how far it is, or how it has ended
    next,      \* the command to check next
    audit,     \* outcomes of the call in safety_audit.jsonl
    approved,  \* history: commands the robot's own check has passed
    moved      \* the verdict of the robot that ran the call, "no" if none did

callVars == <<setup, request, phase, next, audit, approved, moved>>

(* The arguments.  All required ones are given, or one is missing.  The caller is *)
(* the Brain, or a skill with its safety-gated registry. *)

Asked(t) ==
    LET given == {t.required \cup {t.checked}}
                   \cup {t.required} \cup {t.required \ {a} : a \in t.required}
        no == CHOOSE n \in Numbers : TRUE
        nameless == CHOOSE m \in MotionNames : TRUE
    IN  {[by |-> b, tool |-> t, names |-> g, robot |-> r, numbers |-> n, motion |-> m, kind |-> k] :
            b \in {"brain", "skill"}, g \in given, r \in RobotIds,
            n \in IF t.checked \in {"motion", "none"} THEN {no} ELSE Numbers,
            m \in IF t.checked = "motion" THEN MotionNames ELSE {nameless},
            k \in IF t.kind = "any" THEN Kinds ELSE {t.kind}}

\* args.get("robot_id", ctx.robot_id)
Robot(q) == IF "robot_id" \in q.names THEN q.robot ELSE CtxRobot

Has(q) == q.tool.checked \in q.names

\* TaughtMotionCatalog.names: what some robot has been taught.
Known == {m \in MotionNames : \E r \in RobotIds : MotionsOf[r][m] # <<>>}

\* validate_args: required arguments, and the enum of the motion names, which
\* is absent when there are none.
SchemaViolated(q) ==
    \/ ~(q.tool.required \subseteq q.names)
    \/ q.tool = RunTaughtMotion /\ Known # {} /\ q.motion \notin Known

Command(kind, values) == [kind |-> kind, values |-> values]

\* to_safety_command(s): every target the call would actuate.  An empty target is
\* no target, except for execute_action.
Commands(q) ==
    CASE q.tool = RunTaughtMotion ->
            IF Has(q) THEN [i \in DOMAIN MotionsOf[Robot(q)][q.motion] |->
                               Command("joint", MotionsOf[Robot(q)][q.motion][i])]
            ELSE <<>>
      [] q.tool = ExecuteAction ->
            <<Command(IF "command_type" \in q.names THEN q.kind ELSE "joint",
                      IF Has(q) THEN q.numbers ELSE <<>>)>>
      [] q.tool = Home -> <<>>
      [] OTHER -> IF Has(q) /\ q.numbers # <<>>
                  THEN <<Command(q.tool.kind, q.numbers)>> ELSE <<>>

(* The rules of the envelope: "violated", "unchecked" or "fine". *)

Rated(violated) == IF violated THEN "violated" ELSE "fine"

\* (Mutant: joints beyond the configured limits are not looked at.)
JointRuleZips(values) ==
    Rated(\E i \in DOMAIN values : i <= Joints /\ values[i] = "out")

\* check_joint_limits.  abs(NaN) > limit is False.
JointRule(values) ==
    Rated(Len(values) > Joints \/ \E i \in DOMAIN values : i <= Joints /\ values[i] = "out")

DeltaRule(values) == Rated(\E i \in DOMAIN values : values[i] = "out")

\* _rule_cartesian, once there are [x, y, z] and valid bounds
CartesianRule(values) == Rated(\E i \in 1..3 : values[i] # "in")

\* check_map_geofence: the yaw is not fenced.
GeofenceRule(values) ==
    Rated(Len(values) \notin 2..3 \/ \E i \in 1..2 : values[i] # "in")

FrameworkRule(cmd) ==
    IF cmd.kind = "cartesian" /\ Len(cmd.values) < 3 THEN "violated"
    ELSE IF cmd.kind \notin setup.cfg.rules THEN "unchecked"
    ELSE CASE cmd.kind = "joint"      -> JointRule(cmd.values)
           [] cmd.kind = "delta"      -> DeltaRule(cmd.values)
           [] cmd.kind = "cartesian"  -> CartesianRule(cmd.values)
           [] cmd.kind = "locomotion" -> GeofenceRule(cmd.values)

-----------------------------------------------------------------------------

Ends == {"success", "failed", "violation", "raised"}

\* The command to check is one of the call's, or all are done.
TypeOKCall ==
    /\ setup \in [fleet : Fleets, cfg : Configs]
    /\ phase \in {"idle", "asked", "checking", "asking", "cleared"} \cup Ends
    /\ audit \in Seq({"passed", "violated", "skipped"})
    /\ moved \in {"no", "success", "partial", "failed", "malformed"}
    /\ phase \in {"checking", "asking"} => next \in DOMAIN Commands(request)

CallInit ==
    /\ setup \in [fleet : Fleets, cfg : Configs]
    /\ request = [by |-> "nobody"]
    /\ phase = "idle" /\ next = 0 /\ audit = <<>> /\ approved = {} /\ moved = "no"

CallAsk ==
    /\ phase = "idle"
    /\ \E t \in Tools : request' \in Asked(t)
    /\ phase' = "asked"
    /\ UNCHANGED <<setup, next, audit, approved, moved>>

\* ToolSchemaViolationError becomes a failed result.  A skill's calls have no
\* schema gate.
CallReject ==
    /\ phase = "asked" /\ request.by = "brain" /\ SchemaViolated(request)
    /\ phase' = "failed"
    /\ UNCHANGED <<setup, request, next, audit, approved, moved>>

\* note_skipped
NothingToCheck ==
    /\ phase' = "cleared" /\ audit' = Append(audit, "skipped") /\ UNCHANGED next

CallBuild ==
    /\ phase = "asked"
    /\ request.by = "brain" => ~SchemaViolated(request)
    /\ IF Commands(request) = <<>> THEN NothingToCheck
       ELSE phase' = "checking" /\ next' = 1 /\ UNCHANGED audit
    /\ UNCHANGED <<setup, request, approved, moved>>

\* The loop over the commands of the call.
Onward ==
    IF next < Len(Commands(request)) THEN phase' = "checking" /\ next' = next + 1
    ELSE phase' = "cleared" /\ next' = 0

\* SafetyEnvelope.check, without an answer of the robot
UncheckedOutcome(rated) == IF rated = "unchecked" THEN "skipped" ELSE "passed"

\* Pass 1.
CallCheck ==
    /\ phase = "checking"
    /\ LET rated == FrameworkRule(Commands(request)[next])
       IN  IF ~setup.cfg.enabled THEN Onward /\ UNCHANGED audit
           ELSE IF rated = "violated"
           THEN phase' = "violation" /\ audit' = Append(audit, "violated") /\ UNCHANGED next
           ELSE IF Robot(request) \in setup.fleet
           THEN phase' = "asking" /\ UNCHANGED <<next, audit>>
           ELSE Onward /\ audit' = Append(audit, UncheckedOutcome(rated))
    /\ UNCHANGED <<setup, request, approved, moved>>

\* Pass 2: the robot's own check passes the command.
CallApproved ==
    /\ phase = "asking"
    /\ Onward
    /\ audit' = Append(audit, "passed")
    /\ approved' = approved \cup {next}
    /\ UNCHANGED <<setup, request, moved>>

\* It refuses, or its answer has no boolean verdict.
CallRefused ==
    /\ phase = "asking"
    /\ phase' = "violation"
    /\ audit' = Append(audit, "violated")
    /\ UNCHANGED <<setup, request, next, approved, moved>>

\* It cannot be reached.  The loop lets the error out of the turn, a skill call
\* turns it into a failed result.
CallUnreachable ==
    /\ phase = "asking"
    /\ phase' = IF request.by = "brain" THEN "raised" ELSE "failed"
    /\ audit' = Append(audit, "skipped")
    /\ UNCHANGED <<setup, request, next, approved, moved>>

\* _simulate is for tools that have no fleet at all.
Simulated == setup.fleet = {}

\* RobotOfflineError: an unknown robot, a server out of reach, a read timeout.
CallOffline ==
    /\ phase = "cleared" /\ ~Simulated
    /\ phase' = "failed"
    /\ UNCHANGED <<setup, request, next, audit, approved, moved>>

CallSimulate ==
    /\ phase = "cleared" /\ Simulated
    /\ phase' = "success"
    /\ UNCHANGED <<setup, request, next, audit, approved, moved>>

\* The robot runs the call.  What it answers is the verdict; one that is none, or
\* none at all, is a RobotOfflineError; execute_action succeeds once the state has
\* been sampled.
CallRun == \E v \in {"success", "partial", "failed", "malformed"}, heard \in BOOLEAN :
    /\ phase = "cleared" /\ ~Simulated /\ Robot(request) \in setup.fleet
    /\ request.tool = ExecuteAction => v = "success"
    /\ moved' = v
    /\ phase' = IF heard /\ v = "success" THEN "success" ELSE "failed"
    /\ UNCHANGED <<setup, request, next, audit, approved>>

CallNext ==
    \/ CallAsk \/ CallReject \/ CallBuild \/ CallCheck \/ CallApproved \/ CallRefused
    \/ CallUnreachable \/ CallOffline \/ CallSimulate \/ CallRun

CallSpec == CallInit /\ [][CallNext]_callVars

-----------------------------------------------------------------------------
(* Properties *)

\* A number outside a configured rule never moves a robot, whichever tool carries
\* it and wherever it stands in the target.
NoBreachMoves ==
    moved # "no" /\ setup.cfg.enabled =>
        \A i \in DOMAIN Commands(request) :
            LET cmd == Commands(request)[i]
            IN  cmd.kind \in setup.cfg.rules =>
                    \A j \in DOMAIN cmd.values :
                        cmd.values[j] = "out" =>
                            \/ j > 3 /\ cmd.kind = "cartesian"
                            \/ j > 2 /\ cmd.kind = "locomotion"

\* A robot moves only after its own check has passed every target of the call, the
\* last point of a taught motion as well as the first.
WholeCallApproved ==
    moved # "no" /\ setup.cfg.enabled => approved = DOMAIN Commands(request)

\* The audit log tells a call that was checked from one that was not: every call
\* that got to the robot has left an entry per target, or one that says "skipped",
\* and "passed" means that a configured rule or the robot has looked.
AuditTells ==
    /\ phase \in {"cleared", "success"} \/ moved # "no" =>
          Len(audit) >= IF Commands(request) = <<>> THEN 1
                        ELSE IF setup.cfg.enabled THEN Len(Commands(request)) ELSE 0
    /\ \A i \in DOMAIN audit : audit[i] = "passed" =>
          i \in approved \/ Commands(request)[i].kind \in setup.cfg.rules

\* With a fleet wired, success is what the addressed robot reported.
SuccessIsReal ==
    phase = "success" /\ setup.fleet # {} =>
        moved = "success" /\ Robot(request) \in setup.fleet

\* Between the Brain's arguments and the robot nothing is lost: not a number of
\* the target, not a command of the call, not an entry of the log, not a verdict.
CallsAreSafe ==
    TypeOKCall /\ NoBreachMoves /\ WholeCallApproved /\ AuditTells /\ SuccessIsReal
=============================================================================
