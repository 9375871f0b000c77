--------------------------- MODULE CapabilityGate ---------------------------
(***************************************************************************)
(* What a task learns of the fleet when it starts (harness_context.py, run *)
(* of agent_loop.py) and what it does with a taught motion afterwards.     *)
(* Three rounds of GET /health, one request per robot and round: the       *)
(* catalog of taught motions, which all tasks share; the verbs, whose      *)
(* fleet union decides what the Brain may plan with; the latched faults.   *)
(* Bodies change all the while, and other tasks start.                     *)
(***************************************************************************)
EXTENDS Naturals, FiniteSets

CONSTANTS
    GateRobots,     \* HarnessContext.embodiment_adapters
    GateTasks,
    GateVerbs,      \* verbs that have a tool (VERB_TOOL_NAMES)
    Taught,         \* the verb run_taught_motion
    GateSkills,     \* registered skills
    GateNeeds,      \* required_tools of each skill
    GateUnknown,    \* the backend does not advertise a verb set (no set of verbs)
    GateFleets,     \* the bodies of the robots at first
    GateMaxVersion, \* bound: how often a motion is taught
    GateMaxChanges  \* bound: how often a body changes

Versions == 0..GateMaxVersion  \* the joint values taught, 0 if there are none
VerbSets == (SUBSET GateVerbs) \cup {GateUnknown}
Bodies == [up : BOOLEAN, verbs : VerbSets, motion : Versions,
           readable : BOOLEAN, fault : BOOLEAN]

ASSUME GateAssumption ==
    /\ Taught \in GateVerbs
    /\ GateNeeds \in [GateSkills -> SUBSET GateVerbs]
    /\ ~(GateUnknown \subseteq GateVerbs)
    /\ GateFleets \subseteq [GateRobots -> Bodies]
    /\ GateMaxVersion \in Nat /\ GateMaxChanges \in Nat

VARIABLES
    body,        \* what GET /health of each robot would say
    catalog,     \* TaughtMotionCatalog._by_robot
    probe,       \* the request each task has at each robot
    start,       \* how far run() of each task is, and what it has learnt
    motionCall,  \* the task's call of run_taught_motion
    changes,     \* bounds the changes
    history      \* what held of the bodies throughout a task's start

gateVars == <<body, catalog, probe, start, motionCall, changes, history>>

Rounds == {"motions", "verbs", "faults"}
Idle == [at |-> "idle"]
Sent == [at |-> "sent"]
NoMotionCall == [at |-> "none"]

\* A request holds what its round asked for, once there is an answer.
TypeOKGate ==
    /\ body \in [GateRobots -> Bodies]
    /\ catalog \in [GateRobots -> Versions]
    /\ \A t \in GateTasks :
          /\ start[t].at \in Rounds \cup {"new", "planning"}
          /\ start[t].hidden \subseteq GateVerbs
          /\ start[t].faults \subseteq GateRobots
          /\ \A r \in GateRobots : probe[t][r].at \in {"answered", "done"} =>
                CASE start[t].at = "motions" -> probe[t][r].says \in Versions
                  [] start[t].at = "verbs"   -> probe[t][r].says \in VerbSets
                  [] start[t].at = "faults"  -> probe[t][r].says \in BOOLEAN

GateInit ==
    /\ body \in GateFleets
    /\ catalog = [r \in GateRobots |-> 0]
    /\ probe = [t \in GateTasks |-> [r \in GateRobots |-> Idle]]
    /\ start = [t \in GateTasks |-> [at |-> "new", hidden |-> {}, faults |-> {}]]
    /\ motionCall = [t \in GateTasks |-> NoMotionCall]
    /\ changes = 0
    /\ history = [t \in GateTasks |->
           [kept |-> {}, steady |-> {}, overtaken |-> {}, faulty |-> {}]]

(* What an answer says. *)

\* taught_motions() and parse_taught_motions: an entry that is malformed or
\* has no points is dropped.
Parsed(b) == IF b.readable THEN b.motion ELSE 0

\* available_verbs() and fault_status() of an answer.
Says(b, round) ==
    CASE round = "motions" -> Parsed(b)
      [] round = "verbs"   -> b.verbs
      [] round = "faults"  -> b.fault

\* RobotOfflineError in a probe: the motions are forgotten, the verbs unknown,
\* and nothing is said of a fault.
Silence(round) ==
    CASE round = "motions" -> 0
      [] round = "verbs"   -> GateUnknown
      [] round = "faults"  -> FALSE

\* (Mutant: a verb is hidden as soon as one robot lacks it.)
UnavailableToSome(t) ==
    IF \E r \in GateRobots : probe[t][r].says = GateUnknown THEN {}
    ELSE {v \in GateVerbs : \E r \in GateRobots : v \notin probe[t][r].says}

\* unavailable_tool_names, unavailable_verb_tool_names
Unavailable(t) ==
    IF \E r \in GateRobots : probe[t][r].says = GateUnknown THEN {}
    ELSE {v \in GateVerbs : \A r \in GateRobots : v \notin probe[t][r].says}

\* The specs the Brain plans with: tools and skills are gated by the same set.
OfferedTools(t) == GateVerbs \ start[t].hidden
OfferedSkills(t) == {s \in GateSkills : GateNeeds[s] \cap start[t].hidden = {}}

(* The rounds of a start. *)

\* asyncio.gather over one request per robot
Ask(t) == probe' = [probe EXCEPT ![t] = [r \in GateRobots |-> Sent]]

GateStart(t) ==
    /\ start[t].at = "new"
    /\ start' = [start EXCEPT ![t].at = "motions"]
    /\ Ask(t)
    /\ history' = [history EXCEPT ![t].steady = GateRobots,
                                  ![t].overtaken = {r \in GateRobots :
           \E u \in GateTasks \ {t} : /\ start[u].at = "motions"
                                      /\ probe[u][r].at # "done"}]
    /\ UNCHANGED <<body, catalog, motionCall, changes>>

\* The coroutine of a probe is done; in the first round it has replaced, or
\* made the catalog forget, the robot's motions.
Conclude(t, r, says) ==
    /\ probe' = [probe EXCEPT ![t][r] = [at |-> "done", says |-> says]]
    /\ catalog' = IF start[t].at = "motions" THEN [catalog EXCEPT ![r] = says] ELSE catalog
    /\ UNCHANGED <<body, start, motionCall, changes, history>>

\* The agent_server answers GET /health.  The arrival of the answer is a step of
\* its own where it writes the shared catalog.
GateHealth(t, r) ==
    /\ probe[t][r] = Sent /\ body[r].up
    /\ LET says == Says(body[r], start[t].at)
       IN  IF start[t].at = "motions"
           THEN /\ probe' = [probe EXCEPT ![t][r] = [at |-> "answered", says |-> says]]
                /\ UNCHANGED <<body, catalog, start, motionCall, changes, history>>
           ELSE Conclude(t, r, says)

\* The answer arrives.
GateHear(t, r) == probe[t][r].at = "answered" /\ Conclude(t, r, probe[t][r].says)

\* (Mutant: an unreachable robot keeps its motions.)
GateOfflineKeeps(t, r) ==
    /\ probe[t][r].at \in {"sent", "answered"}
    /\ Conclude(t, r, IF start[t].at = "motions" THEN catalog[r] ELSE Silence(start[t].at))

\* No connection, no answer in time, or none that is JSON: RobotOfflineError.
GateOffline(t, r) ==
    /\ probe[t][r].at \in {"sent", "answered"}
    /\ Conclude(t, r, Silence(start[t].at))

Gathered(t, round) ==
    /\ start[t].at = round
    /\ \A r \in GateRobots : probe[t][r].at = "done"

GateMotionsRead(t) ==
    /\ Gathered(t, "motions")
    /\ start' = [start EXCEPT ![t].at = "verbs"]
    /\ Ask(t)
    /\ history' = [history EXCEPT ![t].kept =
           {rv \in GateRobots \X GateVerbs :
              LET b == body[rv[1]] IN ~b.up \/ b.verbs = GateUnknown \/ rv[2] \in b.verbs}]
    /\ UNCHANGED <<body, catalog, motionCall, changes>>

\* The gate is computed, the catalog consulted and the specs are exported
\* without an await in between.
GateVerbsRead(t) ==
    /\ Gathered(t, "verbs")
    /\ LET empty == \A r \in GateRobots : catalog[r] = 0
       IN  start' = [start EXCEPT ![t].at = "faults",
                         ![t].hidden = Unavailable(t) \cup (IF empty THEN {Taught} ELSE {})]
    /\ Ask(t)
    /\ history' = [history EXCEPT ![t].faulty = {r \in GateRobots : body[r].fault}]
    /\ UNCHANGED <<body, catalog, motionCall, changes>>

\* The loop starts; its opening turn names the latched robots.
GateFaultsRead(t) ==
    /\ Gathered(t, "faults")
    /\ start' = [start EXCEPT ![t].at = "planning", ![t].faults =
           {r \in GateRobots : probe[t][r].says}]
    /\ probe' = [probe EXCEPT ![t] = [r \in GateRobots |-> Idle]]
    /\ history' = [history EXCEPT ![t].kept = {}]
    /\ UNCHANGED <<body, catalog, motionCall, changes>>

(* A call of run_taught_motion. *)

\* to_safety_commands: the joint targets of the motion as the addressed robot
\* last advertised it.
Points(r) == catalog[r]

\* The names are not modelled: one motion, taught on several robots.  The
\* schema's enum admits it whenever one of them has it, and anything at all
\* when the catalog is empty.
GateCheckMotion(t, r) ==
    /\ start[t].at = "planning" /\ motionCall[t].at = "none"
    /\ motionCall' = [motionCall EXCEPT ![t] =
           [at |-> "checked", robot |-> r, points |-> Points(r)]]
    /\ UNCHANGED <<body, catalog, probe, start, changes, history>>

\* Between the check and the arrival lie the robot's own safety_check and the
\* transport.  The robot runs what it has been taught, or refuses the name.
GateRunMotion(t) ==
    /\ motionCall[t].at = "checked"
    /\ LET b == body[motionCall[t].robot]
       IN  motionCall' = [motionCall EXCEPT ![t] =
               IF b.up /\ ~b.fault /\ b.motion # 0
               THEN [at |-> "ran", robot |-> @.robot, points |-> @.points,
                     ran |-> b.motion]
               ELSE [at |-> "refused"]]
    /\ UNCHANGED <<body, catalog, probe, start, changes, history>>

(* The robots, which are not under src/. *)

Change(r, new) ==
    /\ changes < GateMaxChanges
    /\ changes' = changes + 1
    /\ body' = [body EXCEPT ![r] = new]
    /\ history' = [t \in GateTasks |->
           [kept |-> IF start[t].at # "verbs" THEN history[t].kept
                     ELSE {rv \in history[t].kept :
                             rv[1] # r \/ ~new.up \/ new.verbs = GateUnknown \/ rv[2] \in new.verbs},
            steady |-> IF new.motion = body[r].motion THEN history[t].steady
                       ELSE history[t].steady \ {r},
            overtaken |-> history[t].overtaken,
            faulty |-> IF start[t].at = "faults" /\ new.fault
                       THEN history[t].faulty \cup {r} ELSE history[t].faulty]]
    /\ UNCHANGED <<catalog, probe, start, motionCall>>

GateSwitch(r) == Change(r, [body[r] EXCEPT !.up = ~@])

GateTeach(r) == \E v \in Versions, ok \in BOOLEAN :
    /\ v # body[r].motion
    /\ v # 0 => v > body[r].motion
    /\ Change(r, [body[r] EXCEPT !.motion = v, !.readable = ok])

\* A bridge to the arm goes down or comes back.
GateBridge(r) == \E vs \in SUBSET GateVerbs :
    /\ body[r].verbs # GateUnknown /\ vs # body[r].verbs /\ ~body[r].fault
    /\ Change(r, [body[r] EXCEPT !.verbs = vs])

\* A latched body advertises no verbs.
GateLatch(r) ==
    /\ body[r].verbs # GateUnknown
    /\ IF body[r].fault THEN Change(r, [body[r] EXCEPT !.fault = FALSE, !.verbs = GateVerbs])
                        ELSE Change(r, [body[r] EXCEPT !.fault = TRUE, !.verbs = {}])

GateHarness(t) ==
    \/ GateMotionsRead(t) \/ GateVerbsRead(t) \/ GateFaultsRead(t)
    \/ \E r \in GateRobots : GateHear(t, r) \/ GateOffline(t, r)

GateNext ==
    \/ \E t \in GateTasks :
          \/ GateStart(t) \/ GateHarness(t) \/ GateRunMotion(t)
          \/ \E r \in GateRobots : GateHealth(t, r) \/ GateCheckMotion(t, r)
    \/ \E r \in GateRobots : GateSwitch(r) \/ GateTeach(r) \/ GateBridge(r) \/ GateLatch(r)

GateSpec == GateInit /\ [][GateNext]_gateVars

-----------------------------------------------------------------------------
(* Properties *)

\* The gate takes no verb from the Brain that some robot could run, or may have
\* been able to run without saying so, from the first probe to the last answer;
\* and no skill all of whose verbs were such.
HiddenJustified ==
    \A t \in GateTasks : start[t].at = "faults" =>
        LET kept(v) == v # Taught /\ \E r \in GateRobots : <<r, v>> \in history[t].kept
        IN  /\ \A v \in GateVerbs \ OfferedTools(t) : ~kept(v)
            /\ \A s \in GateSkills \ OfferedSkills(t) : \E v \in GateNeeds[s] : ~kept(v)

\* The joint values the envelope checked are those the robot runs, as long as it
\* was not taught anew since the task started and no other task's refresh was
\* under way at that robot.
CheckedIsRun ==
    \A t \in GateTasks :
        LET c == motionCall[t]
        IN  c.at = "ran" /\ c.points # 0
              /\ c.robot \in history[t].steady \ history[t].overtaken => c.ran = c.points

\* A robot the opening turn calls faulted was in fault while the task asked.
FaultsAreReal ==
    \A t \in GateTasks : start[t].at = "planning" => start[t].faults \subseteq history[t].faulty

\* Robots that never answer do not hold up the start of a task.
StartsEnd == \A t \in GateTasks : start[t].at = "motions" ~> start[t].at = "planning"

\* What the Brain is offered at the start of a task, and told to be out of order,
\* is what the robots were able to do, however they change between the probes.
OfferIsJustified == TypeOKGate /\ HiddenJustified /\ FaultsAreReal
=============================================================================
