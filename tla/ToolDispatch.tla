---------------------------- MODULE ToolDispatch ----------------------------
(***************************************************************************)
(* One tool-call turn of the agent loop: AgentLoop._execute_tool_calls     *)
(* starts every call of the turn as an asyncio task, gathers them, and on  *)
(* an exception stops the siblings.  Each call passes the safety gate,     *)
(* reaches a robot over HTTP and ends by an answer, a fault or one of the  *)
(* deadlines.  The robots go on by themselves: a motion that started ends  *)
(* when the robot finishes it or when an /abort reaches that robot.        *)
(*                                                                         *)
(* An asyncio task runs alone from one await to the next, so one action    *)
(* below is one such stretch.                                              *)
(***************************************************************************)
EXTENDS Naturals, FiniteSets

CONSTANTS
    Calls,      \* the tool calls of the turn
    Robots,     \* the wired fleet
    TaskRobot,  \* task.robot_id: every ToolContext of the turn carries it
    Kind,       \* what each call is: see Kinds
    Target,     \* args["robot_id"]: the robot the call is dispatched to
    Cmds,       \* how many EmbodimentCommands the call yields for the gate
    MayCancel   \* may the asyncio task that runs the turn be cancelled?

\* "tool" never actuates; "verb" is a robot_sdk verb, whose POST blocks until
\* the motion ends; "action" is execute_action, whose dispatch returns while the
\* motion goes on; "skill" is a Skill that runs one verb through the gated
\* registry.
Kinds == {"tool", "verb", "action", "skill"}

ASSUME CallsAssumption ==
    /\ TaskRobot \in Robots
    /\ Kind \in [Calls -> Kinds]
    /\ Target \in [Calls -> Robots]
    /\ Cmds \in [Calls -> Nat]
    /\ MayCancel \in BOOLEAN

VARIABLES
    call,        \* where each call's coroutine is
    result,      \* how it ended
    checked,     \* how many of its commands the envelope has passed
    audit,       \* the last entry it has in the safety audit log
    ctx,         \* ToolContext's cancel event
    cancelReq,   \* asyncio task.cancel() has been called on it
    wire,        \* calls whose request is sent and not yet taken by the robot
    moving,      \* calls whose motion some robot is executing
    turn,        \* where _execute_tool_calls is
    pending,     \* siblings whose tool.cancel() is still to be called
    outerCancel, \* the turn's own task has been cancelled
    inflight,    \* history: motions of unfinished calls when the stop began
    abortLost    \* history: some /abort did not reach its robot

callVars == <<call, result, checked, audit>>
stopVars == <<ctx, cancelReq, turn, pending, outerCancel, inflight>>
vars == <<callVars, stopVars, wire, moving, abortLost>>

Places == {"queued", "gate", "running", "httpAbort", "backstop", "done"}
Results == {"none", "ok", "failed", "violation", "escaped", "cancelled"}
Audits == {"none", "passed", "skipped", "violated"}
Turns == {"gathering", "reaping", "aborting", "raised", "returned"}

\* The variables' types; a call has a result exactly when its task is done.
TypeOK ==
    /\ call \in [Calls -> Places]
    /\ result \in [Calls -> Results]
    /\ \A c \in Calls : result[c] = "none" <=> call[c] # "done"
    /\ checked \in [Calls -> Nat]
    /\ audit \in [Calls -> Audits]
    /\ ctx \in [Calls -> BOOLEAN]
    /\ cancelReq \in [Calls -> BOOLEAN]
    /\ wire \in SUBSET Calls
    /\ moving \in SUBSET Calls
    /\ turn \in Turns
    /\ pending \in SUBSET Calls
    /\ outerCancel \in BOOLEAN
    /\ inflight \in SUBSET Calls
    /\ abortLost \in BOOLEAN

Init ==
    /\ call = [c \in Calls |-> "queued"]
    /\ result = [c \in Calls |-> "none"]
    /\ checked = [c \in Calls |-> 0]
    /\ audit = [c \in Calls |-> "none"]
    /\ ctx = [c \in Calls |-> FALSE]
    /\ cancelReq = [c \in Calls |-> FALSE]
    /\ wire = {}
    /\ moving = {}
    /\ turn = "gathering"
    /\ pending = {}
    /\ outerCancel = FALSE
    /\ inflight = {}
    /\ abortLost = FALSE

-----------------------------------------------------------------------------
(* The registry's hardware_bound record, the tools' is_cancellable, and the *)
(* robot-level /abort.                                                      *)

Hardware(c) == Kind[c] # "tool"
Abortable(c) == Kind[c] \in {"verb", "action"}
Unfinished == {c \in Calls : call[c] # "done"}

\* A coroutine with a pending cancellation gets CancelledError where it waits;
\* it takes no other step.
At(c, place) == call[c] = place /\ ~cancelReq[c]

Finish(c, r) ==
    /\ call' = [call EXCEPT ![c] = "done"]
    /\ result' = [result EXCEPT ![c] = r]

GoTo(c, place) ==
    /\ call' = [call EXCEPT ![c] = place]
    /\ UNCHANGED result

\* POST /abort to robot r either stops whatever r executes or does not arrive;
\* the failure is traced and never raised.
PostAbort(r) ==
    \/ /\ moving' = {c \in moving : Target[c] # r}
       /\ UNCHANGED abortLost
    \/ /\ abortLost' = TRUE
       /\ UNCHANGED moving

\* The gate is behind: send the request, or fail on the way (unknown robot,
\* adapter without verbs, server unreachable).
Dispatch(c) ==
    \/ /\ GoTo(c, "running")
       /\ wire' = wire \cup {c}
    \/ /\ Finish(c, "failed")
       /\ UNCHANGED wire

-----------------------------------------------------------------------------
(* _invoke_tool / _invoke_skill / _SafetyGatedTool.invoke, up to the dispatch *)

\* Unknown tool, or arguments the schema gate refuses: a failed result.
Reject(c) ==
    /\ At(c, "queued")
    /\ Kind[c] # "skill"
    /\ Finish(c, "failed")
    /\ UNCHANGED <<checked, audit, stopVars, wire, moving, abortLost>>

\* A tool that never actuates is invoked without a gate.
StartTool(c) ==
    /\ At(c, "queued")
    /\ ~Hardware(c)
    /\ GoTo(c, "running")
    /\ UNCHANGED <<checked, audit, stopVars, wire, moving, abortLost>>

\* Building the safety commands can itself raise (arguments that do not make
\* an EmbodimentCommand): outside the try of _invoke_tool, inside the one of
\* _invoke_skill.
BuildFault(c) ==
    /\ At(c, "queued")
    /\ Hardware(c)
    /\ Finish(c, IF Kind[c] = "skill" THEN "failed" ELSE "escaped")
    /\ UNCHANGED <<checked, audit, stopVars, wire, moving, abortLost>>

\* No checkable target: an honest "skipped" audit, then the dispatch.
StartUnchecked(c) ==
    /\ At(c, "queued")
    /\ Hardware(c)
    /\ Cmds[c] = 0
    /\ audit' = [audit EXCEPT ![c] = "skipped"]
    /\ Dispatch(c)
    /\ UNCHANGED <<checked, stopVars, moving, abortLost>>

StartChecked(c) ==
    /\ At(c, "queued")
    /\ Hardware(c)
    /\ Cmds[c] > 0
    /\ GoTo(c, "gate")
    /\ UNCHANGED <<checked, audit, stopVars, wire, moving, abortLost>>

\* (Mutant: dispatch as soon as the first command has passed.)
GatePassFirst(c) ==
    /\ At(c, "gate")
    /\ checked' = [checked EXCEPT ![c] = @ + 1]
    /\ audit' = [audit EXCEPT ![c] = "passed"]
    /\ Dispatch(c)
    /\ UNCHANGED <<stopVars, moving, abortLost>>

\* SafetyEnvelope.check passes one command; the robot is reached only after
\* the last one.
GatePass(c) ==
    /\ At(c, "gate")
    /\ checked' = [checked EXCEPT ![c] = @ + 1]
    /\ \E entry \in {"passed", "skipped"} : audit' = [audit EXCEPT ![c] = entry]
    /\ IF checked[c] + 1 < Cmds[c]
          THEN GoTo(c, "gate") /\ UNCHANGED wire
          ELSE Dispatch(c)
    /\ UNCHANGED <<stopVars, moving, abortLost>>

\* A framework rule or the robot's own check refuses the command.
GateRefuse(c) ==
    /\ At(c, "gate")
    /\ audit' = [audit EXCEPT ![c] = "violated"]
    /\ Finish(c, "violation")
    /\ UNCHANGED <<checked, stopVars, wire, moving, abortLost>>

\* The robot's check cannot be reached: check() re-raises the EmbodimentError.
\* _invoke_skill turns it into a failed result; in _invoke_tool the gate
\* stands before the try, so it leaves the call as an exception.
GateUnreachable(c) ==
    /\ At(c, "gate")
    /\ audit' = [audit EXCEPT ![c] = "skipped"]
    /\ Finish(c, IF Kind[c] = "skill" THEN "failed" ELSE "escaped")
    /\ UNCHANGED <<checked, stopVars, wire, moving, abortLost>>

-----------------------------------------------------------------------------
(* The call in flight *)

\* The answer arrives.  execute_action answers as soon as the robot has the
\* command; a verb, and the verb inside a skill, when its motion is over.
Answer(c) ==
    /\ At(c, "running")
    /\ c \notin wire
    /\ Kind[c] \in {"verb", "skill"} => c \notin moving
    /\ \E r \in {"ok", "failed"} : Finish(c, r)
    /\ UNCHANGED <<checked, audit, stopVars, wire, moving, abortLost>>

\* The connection breaks: RobotOfflineError, a failed result.  The robot may
\* have the request all the same.
TransportFault(c) ==
    /\ At(c, "running")
    /\ Hardware(c)
    /\ Finish(c, "failed")
    /\ wire' \in {wire, wire \ {c}}
    /\ UNCHANGED <<checked, audit, stopVars, moving, abortLost>>

\* httpx.ReadTimeout in call_verb: abort the robot addressed, then fail.
ReadTimeout(c) ==
    /\ At(c, "running")
    /\ Kind[c] \in {"verb", "skill"}
    /\ GoTo(c, "httpAbort")
    /\ UNCHANGED <<checked, audit, stopVars, wire, moving, abortLost>>

HttpAbort(c) ==
    /\ At(c, "httpAbort")
    /\ PostAbort(Target[c])
    /\ Finish(c, "failed")
    /\ UNCHANGED <<checked, audit, stopVars, wire>>

\* The timeout layer of the tool's middleware chain, where the workspace has one:
\* it cancels what runs below it, an /abort on its way included, and fails with
\* ToolTimeoutError.  Nobody calls tool.cancel.
ChainTimeout(c) ==
    /\ \/ At(c, "running")
       \/ At(c, "httpAbort")
    /\ Finish(c, "failed")
    /\ wire' \in {wire, wire \ {c}}
    /\ \/ UNCHANGED <<moving, abortLost>>
       \/ call[c] = "httpAbort" /\ PostAbort(Target[c])
    /\ UNCHANGED <<checked, audit, stopVars>>

\* (Mutant: the deadline covers robot calls only.)
BackstopForHardware(c) ==
    /\ At(c, "running")
    /\ Hardware(c)
    /\ ctx' = [ctx EXCEPT ![c] = TRUE]
    /\ GoTo(c, "backstop")
    /\ UNCHANGED <<checked, audit, cancelReq, turn, pending, outerCancel, inflight,
                   wire, moving, abortLost>>

\* asyncio.wait_for around tool.invoke expires.  Skills have no such deadline.
\* An /abort the client was sending may or may not have arrived.
Backstop(c) ==
    /\ \/ At(c, "running")
       \/ At(c, "httpAbort")
    /\ Kind[c] # "skill"
    /\ ctx' = [ctx EXCEPT ![c] = TRUE]
    /\ GoTo(c, "backstop")
    /\ \/ UNCHANGED <<moving, abortLost>>
       \/ call[c] = "httpAbort" /\ PostAbort(Target[c])
    /\ UNCHANGED <<checked, audit, cancelReq, turn, pending, outerCancel, inflight, wire>>

\* tool.cancel(ctx) aborts the robot the context names.
BackstopAbort(c) ==
    /\ At(c, "backstop")
    /\ IF Abortable(c) THEN PostAbort(TaskRobot) ELSE UNCHANGED <<moving, abortLost>>
    /\ Finish(c, "failed")
    /\ UNCHANGED <<checked, audit, stopVars, wire>>

\* CancelledError reaches the coroutine.  An /abort it was sending may or may
\* not have arrived.
Cancelled(c) ==
    /\ cancelReq[c]
    /\ call[c] # "done"
    /\ \/ UNCHANGED <<moving, abortLost>>
       \/ call[c] = "httpAbort" /\ PostAbort(Target[c])
       \/ call[c] = "backstop" /\ Abortable(c) /\ PostAbort(TaskRobot)
    /\ Finish(c, "cancelled")
    /\ UNCHANGED <<checked, audit, stopVars, wire>>

-----------------------------------------------------------------------------
(* _execute_tool_calls and _cancel_sibling_calls *)

\* (Mutant: gather with return_exceptions.)
GatherReturnAnyway ==
    /\ turn = "gathering"
    /\ Unfinished = {}
    /\ turn' = "returned"
    /\ UNCHANGED <<callVars, ctx, cancelReq, pending, outerCancel, inflight,
                   wire, moving, abortLost>>

GatherReturn ==
    /\ turn = "gathering"
    /\ Unfinished = {}
    /\ \A c \in Calls : result[c] \in {"ok", "failed"}
    /\ turn' = "returned"
    /\ UNCHANGED <<callVars, ctx, cancelReq, pending, outerCancel, inflight,
                   wire, moving, abortLost>>

\* (Mutant: the pending siblings are looked up after they have been reaped.)
GatherRaiseForgetful ==
    /\ turn = "gathering"
    /\ \E c \in Calls : result[c] \in {"violation", "escaped", "cancelled"}
    /\ turn' = "reaping"
    /\ pending' = {}
    /\ ctx' = [c \in Calls |-> ctx[c] \/ c \in Unfinished]
    /\ cancelReq' = [c \in Calls |-> cancelReq[c] \/ c \in Unfinished]
    /\ inflight' = inflight \cup (Unfinished \cap moving)
    /\ UNCHANGED <<callVars, outerCancel, wire, moving, abortLost>>

\* gather re-raises the first exception of a call.  Calls that are not done
\* by now are cancelled twice over and noted for tool.cancel().
GatherRaise ==
    /\ turn = "gathering"
    /\ \E c \in Calls : result[c] \in {"violation", "escaped", "cancelled"}
    /\ turn' = "reaping"
    /\ pending' = Unfinished
    /\ ctx' = [c \in Calls |-> ctx[c] \/ c \in Unfinished]
    /\ cancelReq' = [c \in Calls |-> cancelReq[c] \/ c \in Unfinished]
    /\ inflight' = inflight \cup (Unfinished \cap moving)
    /\ UNCHANGED <<callVars, outerCancel, wire, moving, abortLost>>

Reaped ==
    /\ turn = "reaping"
    /\ Unfinished = {}
    /\ turn' = "aborting"
    /\ UNCHANGED <<callVars, ctx, cancelReq, pending, outerCancel, inflight,
                   wire, moving, abortLost>>

\* The next pending sibling: skills and tools that cannot be cancelled are
\* passed over, a verb or an action posts /abort to the context's robot.
AbortSibling(c) ==
    /\ turn = "aborting"
    /\ c \in pending
    /\ pending' = pending \ {c}
    /\ IF Abortable(c) THEN PostAbort(TaskRobot) ELSE UNCHANGED <<moving, abortLost>>
    /\ UNCHANGED <<callVars, ctx, cancelReq, turn, outerCancel, inflight, wire>>

Raise ==
    /\ turn = "aborting"
    /\ pending = {}
    /\ turn' = "raised"
    /\ UNCHANGED <<callVars, ctx, cancelReq, pending, outerCancel, inflight,
                   wire, moving, abortLost>>

\* The task running the turn is cancelled while it waits: gather passes the
\* cancellation on to every unfinished call; in the handler it ends the handler.
OuterCancel ==
    /\ MayCancel
    /\ ~outerCancel
    /\ turn \in {"gathering", "reaping", "aborting"}
    /\ turn = "gathering" => Unfinished # {}
    /\ outerCancel' = TRUE
    /\ cancelReq' = [c \in Calls |-> cancelReq[c] \/ c \in Unfinished]
    /\ inflight' = inflight \cup (Unfinished \cap moving)
    /\ turn' = IF turn = "gathering" THEN turn ELSE "raised"
    /\ UNCHANGED <<callVars, ctx, pending, wire, moving, abortLost>>

-----------------------------------------------------------------------------
(* The robots (external processes, known by the HTTP contract only) *)

RobotAccept(c) ==
    /\ c \in wire
    /\ wire' = wire \ {c}
    /\ moving' = moving \cup {c}
    /\ UNCHANGED <<callVars, stopVars, abortLost>>

RobotFinish(c) ==
    /\ c \in moving
    /\ moving' = moving \ {c}
    /\ UNCHANGED <<callVars, stopVars, wire, abortLost>>

-----------------------------------------------------------------------------
Start(c) == Reject(c) \/ StartTool(c) \/ BuildFault(c) \/ StartUnchecked(c) \/ StartChecked(c)
Gate(c) == GatePass(c) \/ GateRefuse(c) \/ GateUnreachable(c)
TimeOut(c) == ReadTimeout(c) \/ Backstop(c)

Coroutine(c) ==
    \/ Start(c)
    \/ Gate(c)
    \/ Answer(c)
    \/ TransportFault(c)
    \/ TimeOut(c)
    \/ ChainTimeout(c)
    \/ HttpAbort(c)
    \/ BackstopAbort(c)
    \/ Cancelled(c)

Robot(c) == RobotAccept(c) \/ RobotFinish(c)

Turn == GatherReturn \/ GatherRaise \/ Reaped \/ (\E c \in Calls : AbortSibling(c)) \/ Raise

Next ==
    \/ \E c \in Calls : Coroutine(c) \/ Robot(c)
    \/ Turn
    \/ OuterCancel

\* The event loop runs every ready coroutine, safety_check and /abort have a
\* client timeout, and both deadlines are timers that fire.  Nothing is assumed
\* of the robots or of tools: they may never answer; nor that a chain has a
\* timeout layer.
Fairness ==
    /\ \A c \in Calls :
          /\ WF_vars(Start(c))
          /\ WF_vars(Gate(c))
          /\ WF_vars(TimeOut(c))
          /\ WF_vars(HttpAbort(c))
          /\ WF_vars(BackstopAbort(c))
          /\ WF_vars(Cancelled(c))
    /\ WF_vars(Turn)

Spec == Init /\ [][Next]_vars
FairSpec == Spec /\ Fairness

-----------------------------------------------------------------------------
(* Properties *)

Gated(c) ==
    /\ Hardware(c)
    /\ checked[c] = Cmds[c]
    /\ audit[c] \in {"passed", "skipped"}

\* Whatever a robot executes, or will execute once the request arrives, went
\* through the gate completely: every command of the call was checked before
\* the first one was sent, and the audit log says passed or skipped.  In
\* particular a refused call never moves a robot.
GateBeforeMotion == \A c \in wire \cup moving : Gated(c)

\* Must-stop semantics: once some call was refused, the turn can only raise.
ViolationIsNeverSwallowed ==
    (\E c \in Calls : result[c] = "violation") => turn # "returned"

\* When the exception leaves the turn, the motions of unfinished verbs and
\* actions on the task's own robot have been stopped, provided the aborts
\* arrived and the turn was not cancelled from outside.
OwnRobotSiblingsStopped ==
    turn = "raised" /\ ~outerCancel /\ ~abortLost
        => \A c \in inflight \cap moving : ~Abortable(c) \/ Target[c] # TaskRobot

\* The turn ends, whatever hangs: no answer from a robot or a tool is needed.
TurnEnds == <>(turn \in {"returned", "raised"})

(* What the source says of the turn, checked as it stands. *)

\* envelope.py:57: a check the robot cannot be reached for is "a recoverable robot
\* fault, not a violation", and agent_loop.py:802: _invoke_tool "normalizes every
\* fault to a failed result and re-raises ONLY SafetyError".  A turn that nobody
\* cancelled and no refusal ended is not ended by such a check.
RobotFaultIsRecoverable ==
    turn = "raised" /\ ~outerCancel
        => \/ \E c \in Calls : result[c] = "violation"
           \/ \A c \in Calls : result[c] = "escaped" => audit[c] # "skipped"

\* verbs.py:313: tool.cancel() makes "the on-robot agent_server ... abort and
\* fall back to a safe pose": no in-flight verb or action outlives the stop, on
\* whichever robot it runs.
AbortReachesAddressedRobot ==
    turn = "raised" /\ ~outerCancel /\ ~abortLost
        => \A c \in inflight \cap moving : ~Abortable(c)
=============================================================================
