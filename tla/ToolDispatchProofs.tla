------------------------- MODULE ToolDispatchProofs -------------------------
(***************************************************************************)
(* What holds of a turn for every set of calls, every fleet and every      *)
(* number of commands a call yields.                                       *)
(***************************************************************************)
EXTENDS ToolDispatch, TLAPS

\* Before its dispatch a call has nothing on the wire and no motion; in the
\* gate it has commands left to check.
BeforeDispatch(c) ==
    /\ call[c] = "queued" => checked[c] = 0
    /\ call[c] = "gate" => Hardware(c) /\ checked[c] < Cmds[c]
    /\ call[c] \in {"queued", "gate"} => c \notin wire \cup moving \cup inflight

\* A request is on the wire or executed, not both, and it is never sent again.
SentOnce(c) == c \in wire => c \notin moving \cup inflight

GateInv ==
    /\ \A c \in Calls : BeforeDispatch(c) /\ SentOnce(c)
    /\ GateBeforeMotion

\* A turn that returned its results has no call left that could still fail.
ReturnInv ==
    turn = "returned" =>
        \A c \in Calls : call[c] = "done" /\ result[c] \in {"ok", "failed"}

\* What an /abort to the task's robot is able to stop.
Stoppable(c) == Abortable(c) /\ Target[c] = TaskRobot

\* While the stop goes on, each motion it can still stop has its abort pending.
StopInv ==
    /\ turn = "gathering" /\ ~outerCancel => inflight = {}
    /\ turn \in {"reaping", "aborting", "raised"} /\ ~outerCancel /\ ~abortLost
           => \A c \in inflight \cap moving : Stoppable(c) => c \in pending
    /\ turn = "raised" /\ ~outerCancel => pending = {}

-----------------------------------------------------------------------------
(* Types *)

LEMMA TypeInit == Init => TypeOK
<1> SUFFICES ASSUME Init PROVE TypeOK
  OBVIOUS
<1> USE DEF Init
<1>1. call \in [Calls -> Places] /\ result \in [Calls -> Results]
  BY DEF Places, Results
<1>2. \A c \in Calls : result[c] = "none" <=> call[c] # "done"
  OBVIOUS
<1>3. checked \in [Calls -> Nat] /\ audit \in [Calls -> Audits]
  BY DEF Audits
<1>4. ctx \in [Calls -> BOOLEAN] /\ cancelReq \in [Calls -> BOOLEAN]
  OBVIOUS
<1>5. turn \in Turns
  BY DEF Turns
<1>6. QED
  BY <1>1, <1>2, <1>3, <1>4, <1>5 DEF TypeOK

\* An /abort never starts a motion.
LEMMA AbortOnlyStops ==
  ASSUME TypeOK, NEW r, PostAbort(r)
  PROVE  moving' \subseteq moving /\ abortLost' \in BOOLEAN
BY DEF PostAbort, TypeOK

LEMMA TypeStep == TypeOK /\ [Next]_vars => TypeOK'
<1> SUFFICES ASSUME TypeOK, [Next]_vars PROVE TypeOK'
  OBVIOUS
<1> USE CallsAssumption DEF TypeOK, Places, Results, Audits, Turns
<1>1. ASSUME NEW c \in Calls, Start(c) PROVE TypeOK'
  BY <1>1 DEF Start, Reject, StartTool, BuildFault, StartUnchecked, StartChecked,
     At, GoTo, Finish, Dispatch, stopVars
<1>2. ASSUME NEW c \in Calls, Gate(c) PROVE TypeOK'
  BY <1>2 DEF Gate, GatePass, GateRefuse, GateUnreachable,
     At, GoTo, Finish, Dispatch, stopVars
<1>3. ASSUME NEW c \in Calls, Answer(c) \/ TransportFault(c) PROVE TypeOK'
  BY <1>3 DEF Answer, TransportFault, At, Finish, stopVars
<1>4. ASSUME NEW c \in Calls, TimeOut(c) PROVE TypeOK'
  <2>1. CASE ReadTimeout(c)
    BY <2>1 DEF ReadTimeout, At, GoTo, stopVars
  <2>2. CASE Backstop(c)
    <3>1. moving' \subseteq moving /\ abortLost' \in BOOLEAN
      BY <2>2, AbortOnlyStops DEF Backstop
    <3>2. QED
      BY <2>2, <3>1 DEF Backstop, At, GoTo
  <2>3. QED
    BY <1>4, <2>1, <2>2 DEF TimeOut
<1>5. ASSUME NEW c \in Calls, HttpAbort(c) \/ BackstopAbort(c) \/ ChainTimeout(c) PROVE TypeOK'
  <2>1. moving' \subseteq moving /\ abortLost' \in BOOLEAN
    BY <1>5, AbortOnlyStops DEF HttpAbort, BackstopAbort, ChainTimeout
  <2>2. QED
    BY <1>5, <2>1 DEF HttpAbort, BackstopAbort, ChainTimeout, At, Finish, stopVars
<1>6. ASSUME NEW c \in Calls, Cancelled(c) PROVE TypeOK'
  <2>1. moving' \subseteq moving /\ abortLost' \in BOOLEAN
    BY <1>6, AbortOnlyStops DEF Cancelled
  <2>2. QED
    BY <1>6, <2>1 DEF Cancelled, Finish, stopVars
<1>7. ASSUME NEW c \in Calls, Robot(c) PROVE TypeOK'
  BY <1>7 DEF Robot, RobotAccept, RobotFinish, callVars, stopVars
<1>8. CASE Turn
  <2>1. CASE GatherReturn \/ Reaped \/ Raise
    BY <2>1 DEF GatherReturn, Reaped, Raise, callVars
  <2>2. CASE GatherRaise
    <3>1. ctx' \in [Calls -> BOOLEAN] /\ cancelReq' \in [Calls -> BOOLEAN]
      BY <2>2 DEF GatherRaise
    <3>2. QED
      BY <2>2, <3>1 DEF GatherRaise, Unfinished, callVars
  <2>3. ASSUME NEW c \in Calls, AbortSibling(c) PROVE TypeOK'
    BY <2>3 DEF AbortSibling, PostAbort, callVars
  <2>4. QED
    BY <1>8, <2>1, <2>2, <2>3 DEF Turn
<1>9. CASE OuterCancel
  BY <1>9 DEF OuterCancel, Unfinished, callVars
<1>10. CASE UNCHANGED vars
  BY <1>10 DEF vars, callVars, stopVars
<1>11. QED
  BY <1>1, <1>2, <1>3, <1>4, <1>5, <1>6, <1>7, <1>8, <1>9, <1>10 DEF Next, Coroutine

\* Every reachable state of a turn is well typed, and a call has a result
\* exactly when its asyncio task is done.
THEOREM TypeCorrect == Spec => []TypeOK
<1>1. QED BY TypeInit, TypeStep, PTL DEF Spec
-----------------------------------------------------------------------------
(* The gate *)

LEMMA GateInit == Init => GateInv
BY DEF Init, GateInv, BeforeDispatch, SentOnce, GateBeforeMotion

LEMMA GateStep == TypeOK /\ GateInv /\ [Next]_vars => GateInv'
<1> SUFFICES ASSUME TypeOK, GateInv, [Next]_vars PROVE GateInv'
  OBVIOUS
<1> USE CallsAssumption DEF TypeOK, GateInv, BeforeDispatch, SentOnce, GateBeforeMotion, Gated
<1>1. ASSUME NEW c \in Calls, Start(c) PROVE GateInv'
  <2>1. CASE Reject(c) \/ StartTool(c) \/ BuildFault(c) \/ StartChecked(c)
    BY <2>1 DEF Reject, StartTool, BuildFault, StartChecked, At, GoTo, Finish, stopVars
  <2>2. CASE StartUnchecked(c)
    BY <2>2 DEF StartUnchecked, At, GoTo, Finish, Dispatch, stopVars
  <2>3. QED
    BY <1>1, <2>1, <2>2 DEF Start
<1>2. ASSUME NEW c \in Calls, Gate(c) PROVE GateInv'
  <2>1. CASE GatePass(c)
    <3>1. CASE checked[c] + 1 < Cmds[c]
      BY <2>1, <3>1 DEF GatePass, At, GoTo, stopVars
    <3>2. CASE ~(checked[c] + 1 < Cmds[c])
      <4>1. checked[c] + 1 = Cmds[c]
        BY <2>1, <3>2 DEF GatePass, At
      <4>2. QED
        BY <2>1, <3>2, <4>1 DEF GatePass, At, GoTo, Finish, Dispatch, stopVars
    <3>3. QED
      BY <3>1, <3>2
  <2>2. CASE GateRefuse(c) \/ GateUnreachable(c)
    BY <2>2 DEF GateRefuse, GateUnreachable, At, Finish, stopVars
  <2>3. QED
    BY <1>2, <2>1, <2>2 DEF Gate
<1>3. ASSUME NEW c \in Calls, Answer(c) \/ TransportFault(c) PROVE GateInv'
  BY <1>3 DEF Answer, TransportFault, At, Finish, stopVars
<1>4. ASSUME NEW c \in Calls, TimeOut(c) PROVE GateInv'
  <2>1. moving' \subseteq moving
    BY <1>4, AbortOnlyStops DEF TimeOut, ReadTimeout, Backstop
  <2>2. QED
    BY <1>4, <2>1 DEF TimeOut, ReadTimeout, Backstop, At, GoTo, stopVars
<1>5. ASSUME NEW c \in Calls, HttpAbort(c) \/ BackstopAbort(c) \/ ChainTimeout(c) PROVE GateInv'
  <2>1. moving' \subseteq moving
    BY <1>5, AbortOnlyStops DEF HttpAbort, BackstopAbort, ChainTimeout
  <2>2. QED
    BY <1>5, <2>1 DEF HttpAbort, BackstopAbort, ChainTimeout, At, Finish, stopVars
<1>6. ASSUME NEW c \in Calls, Cancelled(c) PROVE GateInv'
  <2>1. moving' \subseteq moving
    BY <1>6, AbortOnlyStops DEF Cancelled
  <2>2. QED
    BY <1>6, <2>1 DEF Cancelled, Finish, stopVars
<1>7. ASSUME NEW c \in Calls, Robot(c) PROVE GateInv'
  BY <1>7 DEF Robot, RobotAccept, RobotFinish, callVars, stopVars
<1>8. CASE Turn
  <2>1. CASE GatherReturn \/ Reaped \/ Raise
    BY <2>1 DEF GatherReturn, Reaped, Raise, callVars
  <2>2. CASE GatherRaise
    BY <2>2 DEF GatherRaise, Unfinished, callVars
  <2>3. ASSUME NEW c \in Calls, AbortSibling(c) PROVE GateInv'
    <3>1. moving' \subseteq moving
      BY <2>3, AbortOnlyStops DEF AbortSibling
    <3>2. QED
      BY <2>3, <3>1 DEF AbortSibling, callVars
  <2>4. QED
    BY <1>8, <2>1, <2>2, <2>3 DEF Turn
<1>9. CASE OuterCancel
  BY <1>9 DEF OuterCancel, Unfinished, callVars
<1>10. CASE UNCHANGED vars
  BY <1>10 DEF vars, callVars, stopVars
<1>11. QED
  BY <1>1, <1>2, <1>3, <1>4, <1>5, <1>6, <1>7, <1>8, <1>9, <1>10 DEF Next, Coroutine

\* No robot ever executes, or is sent, a command of a call whose every command
\* has not been checked: for any number of calls, robots and commands per call.
THEOREM GateIsComplete == Spec => []GateBeforeMotion
<1>1. GateInv => GateBeforeMotion
  BY DEF GateInv
<1>2. QED BY GateInit, GateStep, TypeCorrect, <1>1, PTL DEF Spec

-----------------------------------------------------------------------------
(* The end of the turn *)

LEMMA ReturnStep == TypeOK /\ ReturnInv /\ [Next]_vars => ReturnInv'
<1> SUFFICES ASSUME TypeOK, ReturnInv, [Next]_vars PROVE ReturnInv'
  OBVIOUS
<1> USE DEF TypeOK, ReturnInv
<1>1. ASSUME NEW c \in Calls, Coroutine(c) PROVE ReturnInv'
  <2>1. turn' = turn /\ call[c] # "done"
    BY <1>1 DEF Coroutine, Start, Reject, StartTool, BuildFault, StartUnchecked,
       StartChecked, Gate, GatePass, GateRefuse, GateUnreachable, Answer,
       TransportFault, TimeOut, ReadTimeout, Backstop, ChainTimeout, HttpAbort,
       BackstopAbort, Cancelled, At, stopVars
  <2>2. QED
    BY <2>1
<1>2. ASSUME NEW c \in Calls, Robot(c) PROVE ReturnInv'
  BY <1>2 DEF Robot, RobotAccept, RobotFinish, callVars, stopVars
<1>3. CASE Turn
  BY <1>3 DEF Turn, GatherReturn, GatherRaise, Reaped, AbortSibling, Raise,
     Unfinished, callVars
<1>4. CASE OuterCancel
  BY <1>4 DEF OuterCancel, callVars
<1>5. CASE UNCHANGED vars
  BY <1>5 DEF vars, callVars, stopVars
<1>6. QED
  BY <1>1, <1>2, <1>3, <1>4, <1>5 DEF Next

\* One refused call among any number makes the turn raise.
THEOREM ViolationRaises == Spec => []ViolationIsNeverSwallowed
<1>1. Init => ReturnInv
  BY DEF Init, ReturnInv
<1>2. ReturnInv => ViolationIsNeverSwallowed
  BY DEF ReturnInv, ViolationIsNeverSwallowed
<1>3. QED BY <1>1, <1>2, ReturnStep, TypeCorrect, PTL DEF Spec

LEMMA StopStep == TypeOK /\ GateInv /\ StopInv /\ [Next]_vars => StopInv'
<1> SUFFICES ASSUME TypeOK, GateInv, StopInv, [Next]_vars PROVE StopInv'
  OBVIOUS
<1> USE DEF TypeOK, StopInv, Stoppable
<1>1. ASSUME NEW c \in Calls, Coroutine(c) PROVE StopInv'
  <2>1. /\ UNCHANGED <<turn, pending, outerCancel, inflight>>
        /\ moving' \subseteq moving
        /\ abortLost => abortLost'
    <3>1. CASE Start(c) \/ Gate(c)
      BY <3>1 DEF Start, Reject, StartTool, BuildFault, StartUnchecked,
         StartChecked, Gate, GatePass, GateRefuse, GateUnreachable, stopVars
    <3>2. CASE Answer(c) \/ TransportFault(c) \/ TimeOut(c)
      BY <3>2 DEF Answer, TransportFault, TimeOut, ReadTimeout, Backstop, PostAbort,
         stopVars
    <3>3. CASE HttpAbort(c) \/ BackstopAbort(c) \/ Cancelled(c) \/ ChainTimeout(c)
      BY <3>3 DEF HttpAbort, BackstopAbort, Cancelled, ChainTimeout, PostAbort, stopVars
    <3>4. QED
      BY <1>1, <3>1, <3>2, <3>3 DEF Coroutine
  <2>2. QED
    BY <2>1
<1>2. ASSUME NEW c \in Calls, RobotAccept(c) PROVE StopInv'
  <2>1. c \notin inflight
    BY <1>2 DEF RobotAccept, GateInv, SentOnce
  <2>2. QED
    BY <1>2, <2>1 DEF RobotAccept, stopVars
<1>3. ASSUME NEW c \in Calls, RobotFinish(c) PROVE StopInv'
  BY <1>3 DEF RobotFinish, stopVars
<1>4. CASE GatherReturn \/ Reaped \/ Raise
  BY <1>4 DEF GatherReturn, Reaped, Raise
<1>5. CASE GatherRaise
  BY <1>5 DEF GatherRaise
<1>6. ASSUME NEW c \in Calls, AbortSibling(c) PROVE StopInv'
  BY <1>6 DEF AbortSibling, PostAbort
<1>7. CASE OuterCancel
  BY <1>7 DEF OuterCancel
<1>8. CASE UNCHANGED vars
  BY <1>8 DEF vars, stopVars
<1>9. QED
  BY <1>1, <1>2, <1>3, <1>4, <1>5, <1>6, <1>7, <1>8 DEF Next, Robot, Turn

\* When a violation leaves the turn, no unfinished verb or action still moves the
\* task's own robot, unless an abort was lost.
THEOREM SiblingsStop == Spec => []OwnRobotSiblingsStopped
<1>1. Init => StopInv
  BY DEF Init, StopInv
<1>2. StopInv => OwnRobotSiblingsStopped
  BY DEF StopInv, OwnRobotSiblingsStopped, Stoppable
<1>3. QED BY <1>1, <1>2, StopStep, TypeCorrect, GateInit, GateStep, PTL DEF Spec
=============================================================================
