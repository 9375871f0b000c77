--------------------------- MODULE MCToolDispatch ---------------------------
(* Small turns for TLC: which calls the Brain put into one turn. *)
EXTENDS ToolDispatch

CONSTANTS home, other,                    \* two robots; the task runs on home
          verb, action, skill, far, chat  \* the calls

FleetOfTwo == {home, other}

EveryKind == {verb, action, skill, chat}
FleetPair == {verb, far}
OneVerb == {verb}

KindOf == [c \in Calls |->
    CASE c \in {verb, far} -> "verb"
      [] c = action -> "action"
      [] c = skill -> "skill"
      [] OTHER -> "tool"]

TargetOf == [c \in Calls |-> IF c = far THEN other ELSE home]

\* The verb walks through two targets, the others carry one or none.
CmdsOf == [c \in Calls |->
    CASE c = verb -> 2 [] c = action -> 1 [] c = far -> 1 [] OTHER -> 0]

\* Three calls at a time: the action or the chat call of the four is left out, as
\* one that has ended before the others start.
TurnInit ==
    \E absent \in {chat, action} :
        /\ call = [c \in Calls |-> IF c = absent THEN "done" ELSE "queued"]
        /\ result = [c \in Calls |-> IF c = absent THEN "failed" ELSE "none"]
        /\ checked = [c \in Calls |-> 0]
        /\ audit = [c \in Calls |-> "none"]
        /\ ctx = [c \in Calls |-> FALSE]
        /\ cancelReq = [c \in Calls |-> FALSE]
        /\ wire = {}
        /\ moving = {}
        /\ turn = "gathering"
        /\ pending = {}
        /\ outerCancel = FALSE
        /\ inflight = {}
        /\ abortLost = FALSE

TurnSpec == TurnInit /\ [][Next]_vars /\ Fairness
=============================================================================
