----------------------------- MODULE SkillRuns ------------------------------
(***************************************************************************)
(* One call of a built-in skill: the envelope of the subtask, the check of *)
(* its parameters, the calls of tools through the gated registry, and the  *)
(* result the brain is told.  SafeCalls has what happens inside one tool   *)
(* call; here it is refused, answered or fails in any way it can.          *)
(***************************************************************************)
EXTENDS Naturals, Sequences, FiniteSets

CONSTANTS
    MaxPoints   \* bound: waypoints of one call

ASSUME RunAssumption == MaxPoints \in Nat \ {0}

\* A waypoint has joints or is malformed.  A parameter of the other skills is
\* given or missing.
Params == UNION {[1..n -> {"joints", "malformed"}] : n \in 0..MaxPoints}

(* The skills: the tools they call, in this order. *)

PickSkill == [name |-> "pick", tools |-> <<"reactive_grasp">>]
PlaceSkill == [name |-> "place", tools |-> <<"move_to_pose", "execute_action">>]
NavigateToSkill == [name |-> "navigate_to", tools |-> <<"locomote_to">>]
FollowJointWaypointsSkill(points) ==
    [name |-> "follow_joint_waypoints", tools |-> [i \in DOMAIN points |-> "move_joints"]]

\* The subtask of a call: the skill, and its parameters.
Subtasks == {[skill |-> s, params |-> p] :
                 s \in {PickSkill, PlaceSkill, NavigateToSkill},
                 p \in {<<>>, <<"joints">>}}
            \cup {[skill |-> FollowJointWaypointsSkill(p), params |-> p] : p \in Params}

VARIABLES
    subtask,
    at,        \* "called", "gate", "tool", "episode" or "ended"
    completed, \* tool calls whose verdict was a success
    episode,   \* the outcome written to the episodic memory
    told,      \* the ToolResult of the call
    calls      \* history: the tool calls dispatched, with their verdicts

runVars == <<subtask, at, completed, episode, told, calls>>

Steps == Len(subtask.skill.tools)
Tool == subtask.skill.tools[completed + 1]
Waypoints == subtask.skill.name = "follow_joint_waypoints"

\* No answer yet, or none ever: the task has ended with the call.
Untold == [outcome |-> "none", completed |-> 0, raised |-> FALSE]

RunInit ==
    /\ subtask \in Subtasks
    /\ at = "called"
    /\ completed = 0
    /\ episode = "none"
    /\ told = Untold
    /\ calls = <<>>

Outcome(v, done) ==
    IF v = "success" THEN "success"
    ELSE IF Waypoints /\ done > 0 THEN "partial" ELSE "failure"

\* The SkillResult as a ToolResult: only the waypoints are counted in it.
Result(v, done) == [outcome |-> Outcome(v, done),
                    completed |-> IF Waypoints THEN done ELSE 0, raised |-> FALSE]

\* The parameters are checked, all of them, before the first tool call.
ParametersGiven ==
    subtask.params # <<>> /\ \A i \in DOMAIN subtask.params : subtask.params[i] = "joints"

RunStart ==
    /\ at = "called"
    /\ IF ParametersGiven THEN at' = "gate" /\ UNCHANGED told
       ELSE at' = "ended" /\ told' = Result("missing", 0)
    /\ UNCHANGED <<subtask, completed, episode, calls>>

\* The call passes the safety envelope, or has nothing for it to check.
RunGate ==
    /\ at = "gate"
    /\ at' = "tool"
    /\ calls' = Append(calls, [tool |-> Tool, verdict |-> "awaited"])
    /\ UNCHANGED <<subtask, completed, episode, told>>

\* The envelope refuses: the violation leaves the skill and ends the task.
RunRefused ==
    /\ at = "gate"
    /\ Tool # "reactive_grasp"
    /\ at' = "ended"
    /\ UNCHANGED <<subtask, completed, episode, told, calls>>

Answered(v) == calls' = [calls EXCEPT ![Len(calls)].verdict = v]

Count(v) == completed + (IF v = "success" THEN 1 ELSE 0)

\* (Mutant: a failed step is skipped or done again.)
GoesOnAnyway(v) == Count(v) < Steps

GoesOn(v) == v = "success" /\ Count(v) < Steps

\* A tool has answered: the next one is called, or the skill returns.  pick
\* writes an episode first.
RunAnswer(v) ==
    /\ at = "tool"
    /\ Answered(v)
    /\ completed' = Count(v)
    /\ IF GoesOn(v) THEN at' = "gate" /\ UNCHANGED told
       ELSE IF subtask.skill = PickSkill THEN at' = "episode" /\ UNCHANGED told
       ELSE at' = "ended" /\ told' = Result(v, Count(v))
    /\ UNCHANGED <<subtask, episode>>

\* The memory takes the episode, or fails, which changes nothing for the skill.
RunEpisode ==
    LET v == calls[Len(calls)].verdict IN
    /\ at = "episode"
    /\ at' = "ended"
    /\ episode' \in {Outcome(v, completed), "none"}
    /\ told' = Result(v, completed)
    /\ UNCHANGED <<subtask, completed, calls>>

\* The tool is not registered, the robot's own check cannot be reached, or the
\* tool raises: the robot is offline, the verb has timed out, its answer is no
\* verdict.  _invoke_skill makes a failed result of the exception.
RunRaise ==
    /\ \/ at = "gate" /\ UNCHANGED calls
       \/ at = "tool" /\ Answered("raised")
    /\ at' = "ended"
    /\ told' = [outcome |-> "failure", completed |-> 0, raised |-> TRUE]
    /\ UNCHANGED <<subtask, completed, episode>>

\* The task is cancelled while the skill awaits.
RunCancelled ==
    /\ at \in {"gate", "tool", "episode"}
    /\ at' = "ended"
    /\ UNCHANGED <<subtask, completed, episode, told, calls>>

RunNext ==
    \/ RunStart \/ RunGate \/ RunRefused \/ RunEpisode \/ RunRaise \/ RunCancelled
    \/ \E v \in {"success", "failed"} : RunAnswer(v)

RunSpec == RunInit /\ [][RunNext]_runVars

TypeOKRun ==
    /\ subtask \in Subtasks
    /\ at \in {"called", "gate", "tool", "episode", "ended"}
    /\ completed \in 0..Steps
    /\ at \in {"gate", "tool"} => completed < Steps
    /\ {episode, told.outcome} \subseteq {"none", "success", "partial", "failure"}

\* A malformed waypoint anywhere in the list, or a missing parameter, and the
\* robot is not moved at all: no list is executed up to its first bad point.
MalformedMovesNothing ==
    calls # <<>> => \A i \in 1..Steps : subtask.params # <<>> /\
                        (i \in DOMAIN subtask.params => subtask.params[i] = "joints")

\* The steps of a skill are dispatched in their order, each once, and only after
\* the robot confirmed the one before: a failure, a refusal, an exception or a
\* cancellation halts the arm where it is, and place never opens the gripper
\* unless the arm has arrived.
HaltsInPlace ==
    \A i \in DOMAIN calls :
        /\ calls[i].tool = subtask.skill.tools[i]
        /\ i < Len(calls) => calls[i].verdict = "success"

Confirmed == {i \in DOMAIN calls : calls[i].verdict = "success"}

\* What the brain is told is what happened: success means that every step was
\* confirmed; "partial" that the arm has left its first position, with the number
\* of waypoints reached, unless an exception hides how far it came; and
\* the memory never holds another outcome than the brain was told.
TellsWhatHappened ==
    told # Untold =>
        /\ told.outcome = "success" <=> Confirmed = 1..Steps /\ calls # <<>>
        /\ \/ told.raised \/ ~Waypoints
           \/ told.completed = Cardinality(Confirmed)
              /\ (told.outcome = "partial" <=> Confirmed \notin {{}, 1..Steps})
        /\ episode \in {told.outcome, "none"}

\* A run of a builtin skill acts only on parameters that are complete, in its own
\* order and no further than the robot confirms, and says what became of it.
SkillStepsAreSafe ==
    TypeOKRun /\ MalformedMovesNothing /\ HaltsInPlace /\ TellsWhatHappened
=============================================================================
