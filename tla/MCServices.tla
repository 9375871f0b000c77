----------------------------- MODULE MCServices -----------------------------
(***************************************************************************)
(* The loop of a task and the components around it that share no state, in *)
(* one run: "focus" is the one that moves, the others stay where they      *)
(* start.                                                                  *)
(***************************************************************************)
EXTENDS MCCapabilityGate, MCVerbDeadlines, McpCalls, ChannelWires, Scaffold, EventBus,
        MCChannelManager, AgentLoop

VARIABLE focus

SomeCatalogs == {{"detect", "move", "inner_grasp"}, {"move"}}
SomeFrames == <<"utterance", "junk", "barge_in", "blank", "utterance">>

Raw(i, d, s) == [id |-> i, description |-> d, status |-> s]

\* Repeated ids, ids left out, steps that name a status or nothing at all.
SomeWrites == {<<>>,
    <<Raw("a", "d", "pending"), Raw("b", "d", "pending")>>,
    <<Raw("b", "", "completed")>>,
    <<Raw("a", "d", "skipped"), Raw("", "e", "odd"), Raw("a", "f", "pending")>>,
    <<Raw("c", "d", "failed"), Raw("a", "", "")>>}
SomeEntries == [target : {"", "x"}, verdict : {"pass", "warn", ""}]

roundVars == <<gateVars, deadlineVars, mcpVars, wireVars, scVars, busVars>>
servicesVars == <<roundVars, talkVars, taskVars, focus>>

\* Where the deadlines rest for the others: a call that was answered.
Rested ==
    /\ budget = Unset /\ stack = CHOOSE s \in Stacks : TRUE
    /\ elapsed = 0 /\ inside = 0 /\ wroteAt = 0 /\ spent = 0
    /\ phase = "answered" /\ readFired = FALSE

\* And the loop: a task that was answered in its first turn.
TaskOver ==
    /\ place = "ended" /\ turn = 1 /\ outcome = "success" /\ episodes = 1
    /\ messages = <<Msg("system"), Msg("user")>>
    /\ results = FALSE /\ nudged = FALSE /\ fallback = "none"
    /\ errorCount = 0 /\ unchanged = 0 /\ replans = 0 /\ askCount = 0

ServicesInit ==
    /\ GateInit /\ McpInit /\ WireInit /\ ScaffoldInit /\ BusInit /\ TalkInit
    /\ focus \in {"gate", "deadlines", "mcp", "telegram", "gateway", "scaffold", "bus",
                  "talk", "task"}
    /\ focus # "gate" => body = CHOOSE b \in GateFleets : TRUE
    /\ focus # "mcp" => mcpCatalog = CHOOSE s \in McpCatalogs : TRUE
    /\ IF focus = "deadlines" THEN DeadlineInit ELSE Rested
    /\ IF focus = "task" THEN LoopInit ELSE TaskOver

Gate(A) == focus = "gate" /\ A
             /\ UNCHANGED <<deadlineVars, mcpVars, wireVars, scVars, busVars,
                            talkVars, taskVars, focus>>
Deadlines(A) == focus = "deadlines" /\ A
                  /\ UNCHANGED <<gateVars, mcpVars, wireVars, scVars, busVars,
                                 talkVars, taskVars, focus>>
Mcp(A) == focus = "mcp" /\ A
            /\ UNCHANGED <<gateVars, deadlineVars, wireVars, scVars, busVars,
                           talkVars, taskVars, focus>>
Wire(name, A) == focus = name /\ A
                   /\ UNCHANGED <<gateVars, deadlineVars, mcpVars, scVars, busVars,
                                  talkVars, taskVars, focus>>
Talk(A) == focus = "talk" /\ A /\ UNCHANGED <<roundVars, taskVars, focus>>
Loop(A) == focus = "task" /\ A /\ UNCHANGED <<roundVars, talkVars, focus>>

ServicesNext ==
    \/ Gate(GateNext)
    \/ Deadlines(DeadlineNext)
    \/ Mcp(McpNext)
    \/ Wire("telegram", TgNext /\ UNCHANGED gwVars)
    \/ Wire("gateway", GwNext /\ UNCHANGED tgVars)
    \/ focus = "scaffold" /\ ScaffoldNext
         /\ UNCHANGED <<gateVars, deadlineVars, mcpVars, wireVars, busVars,
                        talkVars, taskVars, focus>>
    \/ focus = "bus" /\ BusNextState
         /\ UNCHANGED <<gateVars, deadlineVars, mcpVars, wireVars, scVars,
                        talkVars, taskVars, focus>>
    \/ Talk(TalkNext)
    \/ Loop(LoopNext)

\* A task whose start is under way goes on: the event loop runs its coroutine, and
\* the timeout of a probe ends it if no answer does.
GateFair == \A t \in GateTasks :
    /\ WF_servicesVars(Gate(GateMotionsRead(t) \/ GateVerbsRead(t) \/ GateFaultsRead(t)))
    /\ \A r \in GateRobots : WF_servicesVars(Gate(GateOffline(t, r)))

\* Time passes and due timers fire; the robot need not answer.
DeadlinesFair == WF_servicesVars(Deadlines(TimePasses \/ Timer))

\* Timers fire; to enter the HTTP transport waits for nobody.
McpFair == \A c \in McpCallIds : WF_servicesVars(Mcp(McpTimeout(c)))
                                 /\ WF_servicesVars(Mcp(McpOpen(c)))

\* The poll loop and the listener run; of polls tried for ever some are answered.
TelegramFair ==
    /\ WF_servicesVars(Wire("telegram", TgAsk /\ UNCHANGED gwVars))
    /\ WF_servicesVars(Wire("telegram", TgListen /\ UNCHANGED gwVars))
    /\ SF_servicesVars(Wire("telegram", TgReply /\ UNCHANGED gwVars))

\* The fairness of ChannelManager and of AgentLoop.
TalkFair == \A m \in Messages : WF_servicesVars(Talk(Step(m))) /\ WF_servicesVars(Talk(Expire(m)))
LoopFair == WF_servicesVars(Loop(LoopNext))

ServicesSpec ==
    /\ ServicesInit /\ [][ServicesNext]_servicesVars
    /\ GateFair /\ DeadlinesFair /\ McpFair /\ TelegramFair /\ TalkFair /\ LoopFair

\* Whatever waits for another party comes to an end: the start of a task, a verb,
\* a remote call, a user's message on its way to listen().
WaitsEnd == StartsEnd /\ CallEnds /\ McpCallsEnd /\ TgDelivered
=============================================================================
