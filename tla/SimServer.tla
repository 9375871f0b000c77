----------------------------- MODULE SimServer ------------------------------
(***************************************************************************)
(* The MuJoCo agent_server (examples/sim_servers) and the client the       *)
(* harness reaches it with (embodiment/interface/sim.py).  Every handler   *)
(* of the server is a coroutine without an await after its body was read,  *)
(* so requests are handled one at a time, each as a whole; a client that   *)
(* stops waiting does not take its request back.                           *)
(***************************************************************************)
EXTENDS Naturals

CONSTANTS
    SimCalls,     \* requests of the harness
    Objects,      \* names of bodies one may grasp
    Scenes,
    FirstScene,   \* the scene of _DEFAULT_MJCF
    BodyId,       \* mj_name2id: [Scenes -> [Objects -> Nat]], 0 if there is none
    HasEe,        \* scenes with a site "ee"
    Spots, Ready, \* where the tip of the arm and the objects may be
    Engines       \* subset of {"mujoco", "kinematic"}: is the package installed?

ASSUME SimAssumption ==
    /\ FirstScene \in Scenes /\ HasEe \subseteq Scenes
    /\ BodyId \in [Scenes -> [Objects -> Nat]]
    /\ \A s \in Scenes : \A o, p \in Objects :   \* a body has one name
          BodyId[s][o] # 0 /\ BodyId[s][o] = BodyId[s][p] => o = p
    /\ Ready \in Spots
    /\ Engines \subseteq {"mujoco", "kinematic"}

VARIABLES
    engine,
    scene,
    ee,        \* the place of the arm's tip
    place,     \* the place of each object
    grasped,   \* _grasped: a body id, 0 for -1
    gripper,   \* _gripper: closed
    tracked,   \* history: since the grasp only verbs have moved the arm
    simCall    \* each request, at the server and at the client

world == <<engine, scene, ee, place, grasped, gripper, tracked>>
simVars == <<world, simCall>>

\* Within reach of the floor, or 10 to 20 cm above it.
Places == [spot : Spots, up : BOOLEAN]
Floor(s) == [spot |-> s, up |-> FALSE]
Above(s) == [spot |-> s, up |-> TRUE]

Requests ==
    [do : {"move_to_pose"}, to : Places] \cup [do : {"reactive_grasp"}, object : Objects]
      \cup [do : {"joint", "hand_close", "hand_open", "reset", "bad_scene", "other_verb"}]
      \cup [do : {"scene"}, scene : Scenes]

Verbs == {"move_to_pose", "reactive_grasp", "other_verb"}
Outcomes == {"success", "partial", "failed"}

\* A request has a client's side and a server's side; "queued" is one that has
\* reached the server and is not finished.
TypeOKSim ==
    /\ engine \in Engines /\ scene \in Scenes /\ ee \in Places
    /\ place \in [Objects -> Places]
    /\ grasped \in {0} \cup {BodyId[s][o] : s \in Scenes, o \in Objects}
    /\ gripper \in BOOLEAN /\ tracked \in BOOLEAN
    /\ \A c \in SimCalls :
          /\ simCall[c].client \in {"new", "waiting", "aborting", "gaveUp"}
          /\ simCall[c].server \in {"none", "queued", "served"}
          /\ simCall[c].client = "gaveUp" => simCall[c].server = "queued"

IdleCall == [client |-> "new", server |-> "none"]

SimInit ==
    /\ engine \in Engines
    /\ scene = FirstScene
    /\ ee = Floor(Ready)
    /\ place \in [Objects -> {Floor(s) : s \in Spots}]
    /\ grasped = 0 /\ gripper = FALSE /\ tracked = TRUE
    /\ simCall = [c \in SimCalls |-> IdleCall]

(* The physics, as far as the verbs can tell. *)

Held == {o \in Objects : grasped # 0 /\ BodyId[scene][o] = grasped}
Put(where, things, at) == [o \in Objects |-> IF o \in things THEN at ELSE where[o]]

\* _follow_if_grasped
Follow(where, at) == Put(where, Held, at)

\* _ik: within 1 cm of the target, within 5 cm, or anywhere.
Reach(target) ==
    [residual : {"success", "partial"}, ee : {target}] \cup [residual : {"failed"}, ee : Places]

CanMove == engine = "mujoco" /\ scene \in HasEe

(* The handlers. *)

\* The answer goes to a client that still waits.
Say(c, outcome) ==
    simCall' = [simCall EXCEPT ![c] =
        IF @.client = "gaveUp" THEN IdleCall
        ELSE [client |-> @.client, server |-> "served", verdict |-> outcome]]

\* move_to_pose.  A grasp that stems from another scene moves whatever has
\* that body id now, a link of the arm perhaps.
SimMove(c, target) ==
    IF ~CanMove THEN Say(c, "failed") /\ UNCHANGED world
    ELSE /\ IF grasped # 0 /\ Held = {}
            THEN /\ ee' \in Places /\ UNCHANGED place
                 /\ \E out \in Outcomes \cup {"error"} : Say(c, out)
            ELSE \E m \in Reach(target) :
                 ee' = m.ee /\ place' = Follow(place, m.ee) /\ Say(c, m.residual)
         /\ UNCHANGED <<engine, scene, grasped, gripper, tracked>>

\* (Mutant: the gripper is not opened first.)
SimReleaseNot == grasped

\* open_gripper, the first step of a grasp
SimRelease == 0

\* reactive_grasp: open, above the object, down, close, lift.
SimGrasp(c, o) ==
    IF engine # "mujoco" \/ BodyId[scene][o] = 0 THEN Say(c, "failed") /\ UNCHANGED world
    ELSE \E down \in IF CanMove THEN Reach(Floor(place[o].spot))
                     ELSE {[residual |-> "failed", ee |-> ee]},
            near \in BOOLEAN, high \in BOOLEAN :
         \E lift \in IF CanMove THEN Reach(Above(place[o].spot))
                     ELSE {[residual |-> "failed", ee |-> ee]} :
         /\ down.residual = "success" => near
         /\ lift.residual # "failed" => high
         /\ ~CanMove => ~high
         /\ ee' = lift.ee
         /\ gripper' = TRUE
         /\ grasped' = IF near THEN BodyId[scene][o] ELSE SimRelease
         /\ place' = IF near /\ CanMove THEN Put(place, {o}, lift.ee) ELSE place
         /\ tracked' = TRUE
         /\ Say(c, IF near /\ high THEN "success" ELSE IF near THEN "partial" ELSE "failed")
         /\ UNCHANGED <<engine, scene>>

\* POST /dispatch with joint targets: the arm moves, and what it holds does not.
SimApply(c) ==
    /\ ee' \in IF engine = "mujoco" THEN Places ELSE {ee}
    /\ place' = [o \in Objects |-> IF o \in Held THEN Floor(place[o].spot) ELSE place[o]]
    /\ tracked' = (grasped = 0)
    /\ Say(c, "success")
    /\ UNCHANGED <<engine, scene, grasped, gripper>>

\* POST /dispatch hand_grasp: the finger value only.
SimHand(c, closed) ==
    /\ gripper' = closed
    /\ Say(c, "success")
    /\ UNCHANGED <<engine, scene, ee, place, grasped, tracked>>

SimReset(c) ==
    /\ ee' = Floor(Ready)
    /\ place' \in [Objects -> {Floor(s) : s \in Spots}]
    /\ grasped' = 0 /\ gripper' = FALSE /\ tracked' = TRUE
    /\ Say(c, "success")
    /\ UNCHANGED <<engine, scene>>

\* POST /scene builds the model anew; _grasped is not cleared.
SimLoadScene(c, s) ==
    /\ scene' = s
    /\ ee' = Floor(Ready)
    /\ place' \in [Objects -> {Floor(p) : p \in Spots}]
    /\ tracked' = FALSE
    /\ Say(c, "success")
    /\ UNCHANGED <<engine, grasped, gripper>>

\* The server takes any request that has reached it.
SimServe(c) ==
    /\ simCall[c].server = "queued"
    /\ LET r == simCall[c].req
       IN  CASE r.do = "move_to_pose"   -> SimMove(c, r.to)
             [] r.do = "reactive_grasp" -> SimGrasp(c, r.object)
             [] r.do = "other_verb"     -> Say(c, "failed") /\ UNCHANGED world
             [] r.do = "bad_scene"      -> Say(c, "error") /\ UNCHANGED world
             [] r.do = "joint"          -> SimApply(c)
             [] r.do = "hand_close"     -> SimHand(c, TRUE)
             [] r.do = "hand_open"      -> SimHand(c, FALSE)
             [] r.do = "reset"          -> SimReset(c)
             [] r.do = "scene"          -> SimLoadScene(c, r.scene)

(* The client. *)

SimSend(c) ==
    /\ simCall[c] = IdleCall
    /\ \E r \in Requests :
          simCall' = [simCall EXCEPT ![c] = [client |-> "waiting", server |-> "queued", req |-> r]]
    /\ UNCHANGED world

SimReturn(c) ==
    /\ simCall[c].client = "waiting" /\ simCall[c].server = "served"
    /\ simCall' = [simCall EXCEPT ![c] = IdleCall]
    /\ UNCHANGED world

\* httpx.ReadTimeout of a verb: POST /abort first.  Any other request is given
\* up at once (RobotOfflineError).
SimTimeout(c) ==
    /\ simCall[c].client = "waiting" /\ simCall[c].server = "queued"
    /\ simCall' = [simCall EXCEPT ![c].client =
           IF simCall[c].req.do \in Verbs THEN "aborting" ELSE "gaveUp"]
    /\ UNCHANGED world

\* The server has no /abort: 404, RobotOfflineError, "abort delivery failed".
SimAborted(c) ==
    /\ simCall[c].client = "aborting"
    /\ simCall' = [simCall EXCEPT ![c] =
           IF @.server = "served" THEN IdleCall ELSE [@ EXCEPT !.client = "gaveUp"]]
    /\ UNCHANGED world

\* The server sees that the client is gone before it has begun.
SimDrop(c) ==
    /\ simCall[c].client = "gaveUp" /\ simCall[c].server = "queued"
    /\ simCall' = [simCall EXCEPT ![c] = IdleCall]
    /\ UNCHANGED world

SimNext == \E c \in SimCalls :
    SimServe(c) \/ SimDrop(c) \/ SimSend(c) \/ SimReturn(c) \/ SimTimeout(c) \/ SimAborted(c)

SimSpec == SimInit /\ [][SimNext]_simVars

-----------------------------------------------------------------------------
(* Properties *)

\* What the server takes to be grasped is where the tip of the arm is.
HeldTracksTip ==
    tracked /\ grasped # 0 /\ scene \in HasEe => \A o \in Held : place[o] = ee

\* A grasp at an object that is there is answered with "failed".
GraspFails(c) ==
    /\ simCall[c].server = "queued" /\ simCall'[c].server = "served"
    /\ simCall[c].req.do = "reactive_grasp" /\ engine = "mujoco"
    /\ BodyId[scene][simCall[c].req.object] # 0
    /\ simCall'[c].verdict = "failed"

\* Through any sequence of verbs, resets, hand commands and timeouts, a held object
\* goes where the arm goes, and after a grasp that failed nothing hangs on the arm,
\* whatever was held before.
GraspIsKept ==
    [][/\ TypeOKSim' /\ HeldTracksTip'
       /\ \A c \in SimCalls : GraspFails(c) => grasped' = 0]_simVars

(* What the source says, checked as it stands. *)

\* sim.py: "a read timeout aborts the in-flight verb before raising", so that
\* (http.py) "the harness's give-up and the robot's motion cannot diverge".
GivenUpStaysPut ==
    [][\A c \in SimCalls :
          simCall[c].client = "gaveUp" /\ simCall[c].req.do \in Verbs /\ simCall'[c] = IdleCall
            => ee' = ee]_simVars
=============================================================================
