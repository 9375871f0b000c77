--------------------------- MODULE VerbDeadlines ---------------------------
(***************************************************************************)
(* The timers over one verb call, in the order the call meets them: the    *)
(* loop's backstop (agent_loop.py), the timeout layer of the tool's        *)
(* middleware chain (middleware/timeout.py), the timeouts of the HTTP      *)
(* client (http.py).  ToolDispatch lets its deadlines fire in any order;   *)
(* this module computes which order they come in.                          *)
(*                                                                         *)
(* Each timer starts where its code starts: the backstop with the call,    *)
(* the layer when the call comes to it, the client's with each operation   *)
(* on the connection; the read timeout once the request has been written.  *)
(***************************************************************************)
EXTENDS Integers

CONSTANTS
    Budgets,        \* numbers constraints.timeout_s may hold
    Unset,          \* no number: constraints.timeout_s missing, null or not one
    Stacks,         \* middleware chains, as far as they take or limit time
    BaseS,          \* tool.default_timeout_s (30), also ctx.timeout_s
    DefaultVerbS,   \* DEFAULT_VERB_TIMEOUT_S (30)
    VerbMarginS,    \* VERB_TIMEOUT_MARGIN_S (5)
    BackstopMarginS,\* the margin in _tool_deadline_s (10)
    RequestS        \* the client's own timeout_s (5), for each other operation

\* Is there a timeout layer, and does a rate limiter that blocks stand around it
\* or inside it?
AllStacks == [timeout : BOOLEAN, limiter : {"none", "around", "inside"}]

ASSUME DeadlineAssumption ==
    /\ Budgets \subseteq Int
    /\ Unset \notin Int
    /\ Stacks \subseteq AllStacks
    /\ {BaseS, DefaultVerbS, VerbMarginS, BackstopMarginS, RequestS} \subseteq Nat \ {0}
    /\ VerbMarginS < BackstopMarginS

VARIABLES
    budget,    \* the call's constraints.timeout_s
    stack,     \* the chain its tool was registered with
    elapsed,   \* seconds since the loop invoked the tool
    inside,    \* when the call came to the timeout layer
    wroteAt,   \* when its request had been written, or Unset
    spent,     \* seconds the operation it waits for has taken
    phase,     \* where it is, or how it ended
    readFired  \* history: the read deadline was reached

deadlineVars == <<budget, stack, elapsed, inside, wroteAt, spent, phase, readFired>>

\* The way of a call to the robot; then it waits for the verdict, or aborts.
After == [around |-> "inside", inside |-> "pool", pool |-> "connect",
          connect |-> "write", write |-> "read"]
Active == DOMAIN After \cup {"read", "aborting"}
GivenUp == {"timedOut", "cut", "backstop"}
Phases == Active \cup GivenUp \cup {"answered", "offline"}

Explicit == budget # Unset /\ budget > 0
Written == wroteAt # Unset

\* (Mutant: the client keeps to its default.)
ReadDeadlineByDefault == DefaultVerbS + VerbMarginS

\* verb_read_timeout_s
ReadDeadline == (IF Explicit THEN budget ELSE DefaultVerbS) + VerbMarginS

\* (Mutant: both margins alike.)
BackstopDeadlineTied ==
    LET asked == IF budget = Unset THEN VerbMarginS ELSE budget + VerbMarginS
    IN  IF asked > BaseS THEN asked ELSE BaseS

\* _tool_deadline_s
BackstopDeadline ==
    LET asked == IF budget = Unset THEN BackstopMarginS ELSE budget + BackstopMarginS
    IN  IF asked > BaseS THEN asked ELSE BaseS

\* The clocks are natural numbers, none ahead of the call's own.
TypeOKDeadlines ==
    /\ budget \in Budgets \cup {Unset}
    /\ stack \in Stacks
    /\ elapsed \in Nat
    /\ inside \in 0 .. elapsed
    /\ wroteAt \in 0 .. elapsed \cup {Unset}
    /\ spent \in 0 .. elapsed
    /\ phase \in Phases
    /\ readFired \in BOOLEAN

DeadlineInit ==
    /\ budget \in Budgets \cup {Unset}
    /\ stack \in Stacks
    /\ elapsed = 0
    /\ inside = 0
    /\ wroteAt = Unset
    /\ spent = 0
    /\ phase = "around"
    /\ readFired = FALSE

-----------------------------------------------------------------------------
\* Operation after operation: a token, a connection of the pool, the connect, the
\* write.
Advance ==
    /\ phase \in DOMAIN After
    /\ phase' = After[phase]
    /\ spent' = 0
    /\ inside' = IF phase = "around" THEN elapsed ELSE inside
    /\ wroteAt' = IF phase = "write" THEN elapsed ELSE wroteAt
    /\ UNCHANGED <<budget, stack, elapsed, readFired>>

\* A part of the answer comes: the timeout is one of each read.
AnswerBegins ==
    /\ phase = "read"
    /\ spent > 0
    /\ spent' = 0
    /\ UNCHANGED <<budget, stack, elapsed, inside, wroteAt, phase, readFired>>

EndsAs(how) ==
    /\ phase' = how
    /\ UNCHANGED <<budget, stack, elapsed, inside, wroteAt, spent, readFired>>

Verdict == phase = "read" /\ EndsAs("answered")

\* Refused, broken, or one of the client's own timeouts: RobotOfflineError.
Offline == phase \in {"pool", "connect", "write", "read"} /\ EndsAs("offline")

\* httpx.ReadTimeout: POST /abort before the error is raised.
ReadTimeout ==
    /\ phase = "read"
    /\ spent = ReadDeadline
    /\ phase' = "aborting"
    /\ spent' = 0
    /\ readFired' = TRUE
    /\ UNCHANGED <<budget, stack, elapsed, inside, wroteAt>>

AbortReturns == phase = "aborting" /\ EndsAs("timedOut")

\* Does the timer of the timeout layer run?
Layered == stack.timeout /\ phase \in Active \ {"around"}

\* TimeoutMiddleware cancels what is below it; nobody aborts the robot.
LayerTimeout == Layered /\ elapsed - inside = BaseS /\ EndsAs("cut")

\* asyncio.wait_for around tool.invoke; the loop then calls tool.cancel.
Backstop == phase \in Active /\ elapsed = BackstopDeadline /\ EndsAs("backstop")

\* How long an operation may take; the /abort takes as many as another request.
MayTake ==
    CASE phase \in {"around", "inside"} -> BackstopDeadline
      [] phase = "read" -> ReadDeadline
      [] phase = "aborting" -> 4 * RequestS
      [] OTHER -> RequestS

\* Time does not pass a timer that is due, and only a limiter makes a call wait
\* on its way down the chain.
TimePasses ==
    /\ phase \in Active
    /\ phase \in {"around", "inside"} => stack.limiter = phase
    /\ spent < MayTake
    /\ Layered => elapsed - inside < BaseS
    /\ elapsed < BackstopDeadline
    /\ elapsed' = elapsed + 1
    /\ spent' = spent + 1
    /\ UNCHANGED <<budget, stack, inside, wroteAt, phase, readFired>>

\* What the passing of time alone brings about.
Timer == Advance \/ Offline \/ ReadTimeout \/ AbortReturns \/ LayerTimeout \/ Backstop

DeadlineNext == Timer \/ AnswerBegins \/ Verdict \/ TimePasses

DeadlineSpec == DeadlineInit /\ [][DeadlineNext]_deadlineVars

-----------------------------------------------------------------------------
(* Properties *)

\* With a budget it is the client that gives up a verb the robot has, and aborts
\* the robot it addressed; the loop's backstop comes first only where the last
\* read began as late as the margin of the one exceeds that of the other.
ClientGivesUpFirst ==
    phase = "backstop" /\ Explicit /\ Written /\ ~readFired
        => elapsed - spent >= BackstopMarginS - VerbMarginS

\* The robot gets the time the caller granted, from the moment it has the request,
\* except where a timeout layer stands in the chain and the budget, with the way
\* to the robot, exceeds its default; and except where the request was on its way
\* for longer than the backstop's margin.
GrantedTimeIsKept ==
    phase \in GivenUp /\ Explicit /\ Written /\ elapsed - wroteAt < budget
        => \/ phase = "cut" /\ wroteAt - inside + budget > BaseS
           \/ phase = "backstop" /\ wroteAt > BackstopMarginS

\* A robot that never answers does not hold the call.
CallEnds == <>(phase \notin Active)

(* What the source says of the budget, checked as it stands. *)

\* agent_loop.py:981: a verb's own budget "may legitimately exceed the default":
\* a verb is not given up before it is over.
BudgetGoverns ==
    phase \in GivenUp /\ Explicit /\ Written => elapsed - wroteAt >= budget
=============================================================================
