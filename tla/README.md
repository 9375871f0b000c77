# Verification of robot-loom

robot-loom runs language-model driven robots: an `AgentLoop` asks a Brain what to do
next, dispatches the Brain's tool calls to robots behind a safety gate, lets a critic
judge the progress, and talks to users over channels; a fleet coordinator leases robots
to loops. Everything runs in one asyncio event loop; the robots are other processes,
reached over HTTP. This directory holds TLA+ models of the system, the TLC runs that
check them, and TLAPS proofs of the main properties of its core.

Paths below are relative to the repository; `agent_loop.py` is
`robot_harness/runtime/agent_loop.py`, and so on.

## Inventory

| Component | State it keeps | Operations | Talks to |
|---|---|---|---|
| Agent loop (`runtime/agent_loop.py` `run`, `critic/`) | conversation, tool results, replan / question / nudge counters, sensor counters, the fallback critic | one turn per Brain decision: give up, respond, tool calls, ask the user; the critic round | Brain, tool dispatch, outbound channel, critic, memory |
| Tool dispatch (`_execute_tool_calls` … `_invoke_skill`, `runtime/skill_tools.py`) | one task and one `ToolContext` per call | gate, dispatch, backstop, sibling cancellation | safety envelope, tools, skills, robots |
| Safety envelope (`safety/`), verbs (`tools/robot_sdk/`) | audit log, taught-motion catalog | schema gate, commands of a call, `check` of each, dispatch, verdict | adapters |
| Verb deadlines (`http.py`, `middleware/timeout.py`, `_tool_deadline_s`) | timers of a call | backstop, timeout layer, connect, write and read timeouts, `/abort` | robots |
| Tool middleware (`tools/middleware/`, `tools/artifacts.py`) | circuit state, cache, token buckets, artifacts | invoke, one layer inside the other | tools |
| Capability gate, taught motions (`runtime/harness_context.py`) | the shared motion catalog, what a task may plan with | three rounds of `/health` at task start | robots |
| Skill registry and builtin skills (`skill/`) | versions, active version, handles | register, hotswap, rollback, resolve; a skill's tool calls | tools |
| Adapters and simulated robot (`embodiment/interface/`, `examples/sim_servers/`) | requests in flight; the world of the simulator | dispatch, verb, abort, reset, scene | HTTP |
| Plan and reflection (`tools/cognitive/`, `harness_context.py`) | steps, self-evaluations, the stores of each robot | write, merge, append, inject | Brain |
| MCP client and server (`tools/mcp/`) | a session per call; the server's registry | open, handshake, call, list, close; look up, gate, run | other harnesses |
| Leases (`fleet/lease.py`) | lease and deadline per robot | acquire, renew, release, expiry | monotonic clock |
| Fleet coordinator, router, bus (`fleet/`) | latest status per robot, subscribers | route, assign, publish | leases, agent loops |
| Channel manager (`channels/manager.py`) | pending question per user, handler tasks | drain, handle, ask, send, start | channels, agent loops |
| Telegram, voice gateway (`channels/`) | poll offset, connection, queue | poll, listen, send, stop, redial | networks |
| Web, CLI and local voice channels | a queue or a terminal | listen, send | users |
| Event bus (`bus/`) and heartbeat (`runtime/scheduler.py`) | queue, handlers, running flags | publish, subscribe, run, stop | nobody yet: the runtime does not start them |
| Brain, memory, configuration, tracing, metrics, CLI, generic tools | documents, prompts, files | I/O | services |

### How they interact

A channel yields a message; the channel manager starts a task for it, which first asks
the robots what they can do (the capability gate) and then runs an agent loop; the loop
calls the Brain and, for tool calls, the dispatch, which runs every call of the turn
concurrently; a call goes through the schema and the envelope, which may ask the robot
itself, then through the middleware of its tool and over HTTP to a robot, or over MCP to
another harness. A skill is a call that makes calls of its own, through the same gate. A
question of the Brain goes back through the manager and suspends the loop until the same
user's next message. With several robots a coroutine per subtask gets its robot from the
coordinator, publishes its status on the fleet bus and runs its own loop.

### What is hard in it

* **Interleaving.** Code between two `await`s runs alone, and almost every check is
  followed by one: the check for a pending question and its registration, the lease and
  the fetch of that lease, the gate of a call with several commands and the refusal of its
  sibling, the admission of a call by the circuit breaker and its answer, the probe of a
  robot and the writing of what it said into a catalog all tasks share.
* **Stopping.** A motion is not stopped by cancelling the coroutine that waits for it.
  Whether it stops depends on which `/abort` goes to which robot, in which order. The same
  holds for connections, subprocesses and polls that outlive the coroutine that opened
  them.
* **Time.** Leases, questions, read deadlines, backstops, back-offs, the reset of a
  circuit and the age of a cache entry are timers set apart from each other, and each
  races with the event it waits for.
* **Protocols.** The conversation must stay well formed over many kinds of turns, a run
  has ten ways to end, versions of skills are swapped and rolled back with handles of any
  age, plans are merged from lists that repeat or leave out ids.
* **Truth.** What the Brain is told (a verdict, a remote failure, a partial result) must
  be what happened, though answers are lost on the way.

### What makes each component correct

* Tool dispatch: nothing moves that was not gated completely; a refusal is never lost;
  when it leaves the turn the siblings' motions have been stopped; the turn ends.
* Envelope and verbs: a number out of a configured limit never moves a robot; every
  target is checked and has its entry in the log; success is what the robot reported.
* Deadlines: the time granted to a verb is kept, and the layer that can abort the right
  robot gives up first.
* Middleware: the shared state survives answers in any order; nothing is sent more often
  than allowed, nor for a cancelled call; calls end.
* Capability gate: what is taken from the Brain is justified by what the robots said; the
  motion that was checked is the motion that runs.
* Skills: a version that runs is registered; swaps unwind; a skill halts where a step
  fails, and says how far it came.
* Simulated robot: the held object follows the gripper.
* Plan and reflection: steps are found by their ids, failures until they pass.
* MCP: sessions close, and the caller is told what happened.
* Leases: exclusive, kept for their time, and ended by time alone.
* Fleet: one loop per robot; no lease left behind; the last
  status reaches every subscriber.
* Channels: a reply goes to its question, a question to its user; sessions end; shutdown
  waits for replies; no process repeats a message, and only a crash loses one.
* Agent loop: the tool-use protocol, an episode per result, the budgets, the end.

## Modules

| Module | Models | Checked by | Proved in |
|---|---|---|---|
| `ToolDispatch` | one tool-call turn and the robots under it | `MCToolDispatch` | `ToolDispatchProofs` |
| `VerbDeadlines` | the timers over one verb call | `MCServices`, `MCVerbDeadlines` | `ServicesProofs` |
| `SafeCalls` | one hardware-bound call: schema, commands, rules, audit, verdict | `MCRobots` | `RobotsProofs` |
| `ToolMiddleware` | the layers around a tool, with artifact store and resolver | `MCToolMiddleware` | `ToolMiddlewareProofs` |
| `CapabilityGate` | the start of a task, and a taught motion afterwards | `MCRobots`, `MCServices` | `RobotsProofs` |
| `SkillRegistry` | versions of skills and the handles of swaps | `MCRobots` | `RobotsProofs` |
| `SkillRuns` | one run of a builtin skill | `MCRobots` | `RobotsProofs` |
| `SimServer` | the MuJoCo agent_server and its client | `MCRobots`, `MCSimServer` | `RobotsProofs` |
| `Scaffold` | plan, reflection, and the opening of a task with them | `MCServices` | `ServicesProofs` |
| `McpCalls` | a remote tool call, client and server | `MCServices` | `ServicesProofs` |
| `RobotOwnership` | abstract: at most one owner per robot | | |
| `LeaseManager` | `fleet/lease.py`; implements `RobotOwnership` | `MCRobots`, with `MCLeaseManager` | `LeaseManagerProofs` |
| `FleetCoordinator` | coordinator, router, bus and the driver coroutines, over `LeaseManager` | `MCFleetCoordinator` | `FleetCoordinatorProofs` |
| `ChannelManager` | `channels/manager.py` with the sessions it runs | `MCServices`, `MCChannelManager` | `ChannelManagerProofs` |
| `ChannelWires` | Telegram polling and the voice gateway's connection | `MCServices`, `MCChannelWires` | `ServicesProofs` |
| `EventBus` | `bus/queue.py` and the heartbeat of `runtime/scheduler.py` | `MCServices` | `ServicesProofs` |
| `OrderedSets` | helpers: sequences as increasing walks through finite sets, for `ChannelWires` and `Scaffold` | | |
| `AgentLoop` | `AgentLoop.run`, the critic round and the replan policy | `MCServices` | `AgentLoopProofs` |

In every module one action is one stretch of a coroutine from an `await` to the next, or
one step of the outside world. Definitions commented `(Mutant: ...)` are plausible bugs of
the definition they are named after; nothing of a specification uses them. They show of
each property that it can fail: put in the place of the original, the property is violated.

`MCRobots` and `MCServices` each put components that share no state into one run. Their
variable `focus`, chosen at the start, is the component that moves; the others stay where
they start. The state space is the sum of the components' spaces, not the product, and the
properties of all of them are checked.

**ToolDispatch.** `call` is where a call's coroutine waits (`queued`, `gate`, `running`,
`httpAbort`: the client's `/abort` after a read timeout, `backstop`: `tool.cancel()` after
the backstop, `done`), `turn` where `_execute_tool_calls` is. `wire` holds requests sent
and not yet accepted, `moving` the motions robots execute, both of which outlive the
coroutine. `Start`, `Gate`, `Dispatch` are `_invoke_tool` / `_invoke_skill` up to the
dispatch; `Answer` … `BackstopAbort` the flight of a call; `GatherRaise`, `Reaped`,
`AbortSibling`, `Raise` are `_cancel_sibling_calls`; `ChainTimeout` is the timeout layer
of a configured chain; `OuterCancel` is a cancellation of the
task itself. `PostAbort` either stops what the robot it names executes or is lost. The
safety envelope is enabled; a command passes, is refused, or its robot check is
unreachable. A skill is one verb through the gated registry. `inflight` and `abortLost`
are history variables for the stop properties.

**VerbDeadlines.** One call on its way to the robot and back: the layers above the timeout
layer, those below it, a connection of the pool, the connect, the write, the wait for the
answer (`phase`). Three timers stand over it, each from where its code starts it: the
backstop (`BackstopDeadline`, from the start of `elapsed`), the timeout layer (`BaseS` after
`inside`, which is `ctx.timeout_s` and not the verb's budget), and the timeouts of the HTTP
client, one per operation (`spent`), of which the read timeout is `ReadDeadline` and counts
anew with each part of an answer. `stack` is what matters of a middleware chain: has it a
timeout layer, and does a limiter that blocks stand around or inside it? Operations may take
any time their own timeout allows; code between them takes none. `ToolDispatch` lets the
timers fire in any order; this module says in which order they can. Budgets are integers
here; the code takes any float. `retry` is not in `stack`: the
errors of a robot that a verb raises are not among those `retry.py` repeats.

**SafeCalls.** The call `ToolDispatch` gates as a whole, looked at from inside: `Commands`
is `to_safety_command(s)` of each tool, `FrameworkRule` the envelope's first pass,
`CallApproved` / `CallRefused` / `CallUnreachable` the robot's own check, `audit` the log.
A number is inside its limit, outside, or NaN, which is neither; so the rules that ask
`abs(x) > limit` and those that ask `lo <= x <= hi` differ, as they do in the code. The
lengths of targets matter and are kept: too many joints, too few coordinates. The arguments
given range over all required ones, and those with one missing.

**ToolMiddleware.** A chain is a sequence of layer names, outermost first, as
`config.yaml` lists them. A call's record holds its layer (`at`), its direction (`down`,
`up`) and the locals of the layers; `running` is the call the event loop runs until it
awaits (the backend, a back-off, a token), which is where another call may go on. The
breaker, the cache, the buckets and the store are shared. A bucket is refilled at each tick;
the code defers this to the next use, which gives the same tokens. The clock is whole
seconds. `granted`, `uses`, `hit` and `killed` are history.

**CapabilityGate.** `start[t].at` walks through the three `gather`s of a task's start,
`probe` holds its requests, `catalog` the taught motions all tasks share. A refresh of the
catalog has an action for the robot's answer and one for its arrival (`GateHealth`,
`GateHear`), since another task may read or write in between. `body` is what a robot would
answer, and changes all the while. A taught motion is its version; there is one name.

**SkillRegistry.** `skills` and `active` are the registry's dictionaries. A handle is a
value a caller keeps, so any handle may be rolled back at any time, twice too. `orderly`
says that swaps were used like a stack; only then does the code promise to unwind them.

**SkillRuns.** The builtin skills as sequences of gated tool calls; a waypoint list is any
sequence of well-formed and malformed points. What a single call meets is `SafeCalls`.

**SimServer.** Each handler of the server has no await after its body was read, so
`SimServe` is a whole request, and the queue of the HTTP server may serve in any order.
The physics is what verbs can tell: where the tip of the arm is, where objects are, and the
residual of the inverse kinematics, which may be anything. `_grasped` survives a new scene,
as in the code. `SimTimeout` and `SimAborted` are the client of `sim.py`.

**Scaffold.** Stores are made per robot and registered as tools under fixed names, hence
`planOf` (by robot) and `planTool` (by name). Descriptions are data; ids and statuses keep
the code's defaults. Goal and dependencies of a plan are left out.

**McpCalls.** `session` is the client's coroutine (`opening`, `shaking` the handshake,
`calling`, `listing`), `held` what its exit stack still holds, `serving` the handler at the
server. A subprocess ends with its session, an HTTP server goes on. A cancellation during
the handshake closes nothing until the interpreter collects the stack (`McpFinalize`).

**LeaseManager.** Methods contain no blocking await, so each is one action. A deadline is
the number of ticks left. `ttl` is a history variable: what the manager still owes to the
holder of a lease object. `RobotOwnership` is instantiated with the holder of the live
lease as the owner.

**FleetCoordinator.** Instantiates `LeaseManager` with the subtasks as holders. `pc` walks
through the awaits of `_run_one`; `handler` is the subscriber whose handler is awaited.
`Claim` is a holder outside of the router. The history variables record leases that ran
out under a working loop (`overrun`), coroutines cancelled inside `assign()`
(`abandoned`), and robots two loops drove (`shared`); three properties except these cases.

**ChannelManager.** `sessions` is what became of a message; `fut`, `expired` and `pending`
are the future, its timer and the dictionary of `ask()`. `Expire` and `Wake` are apart
because the event loop may run the reply, the timer and the waiting task in any order.
`shown` says that the user can already read a question whose `send()` has not returned.
An agent loop is reduced to its questions and its end.

**ChannelWires.** Telegram: `TgAsk` is the request for updates, which at Telegram forgets
those before the offset; `TgReply` handles a batch, which the code does without a wait in
between; a request fails, the process stops or crashes at any time, and starts again.
`tg` is one process; `tgPast` is the history over all of them: what was yielded, answered,
shown, and lost in a crash after it had been acknowledged. The gateway: `gw.at` is
the task that dials, reads and waits to redial, `gw.ws` is `_ws`, `line` the connection
itself, and `gw.end` the place of the sentinel in the queue. The two wires share nothing.

**EventBus.** `busLoop` is `run()`, `busRunning` the flag it looks at between two rounds;
a second `stop()` or a `stop()` before `run()` is a step like any other. The heartbeat is
the same loop without a queue.

**AgentLoop.** `messages` is the conversation, each message its role and number of tool
calls. A tool turn is one action; what happens inside is `ToolDispatch`, which may also
raise (`Crash`). The conversation helpers `_assign_call_ids`, `_assistant_message` and
`_tool_message` are in `Answered`. Verdicts carry one bit of confidence, the comparison
with the policy's threshold. Memory writes are best effort; `episodes` counts the calls of
`_write_episode`.

## Runs

A property of a module that has several parts is a conjunction of named definitions; its
module names and comments each part.

| Run | Properties | Bounds |
|---|---|---|
| `turn` | `GateBeforeMotion` `ViolationIsNeverSwallowed` `OwnRobotSiblingsStopped` `TurnEnds` | a verb with two commands, a skill with none, and an action with one or a plain tool; cancellation from outside. Every kind of call is there, and two siblings for the one that fails |
| `fleet` | `TypeOK` `OneDriverWithinLeases` `EndedTasksHoldNothing` `SubscribersAgree` | two robots, three subtasks (one compatible robot, two, none), an operator, three lease objects, two subscribers |
| `middleware` | `SharedStateSound` `SendsBounded` `SendsStop` `CallsEnd` | two calls of two robots, through each of five chains (the workspace template's, the one of the docstring of `config.py`, a blocking limiter, a cache above a retry, a resolver); a threshold of two failures, one retry, a cache of one entry, a store of two artifacts for three; the last call starts at second 1 and the clock runs to 6, later than every timer |
| `robots` | `CheckedIsRun` `CallsAreSafe` `RegistryKeepsVersions` `SkillStepsAreSafe` `ClaimHonoured` `GraspIsKept` `OwnershipSpec` `LeaseEnds` | two tasks starting on two robots one of which is an old server; targets up to one number too long, with the number that breaks a limit at each end; six registry calls over two objects of one version, an invalid manifest and a second skill; three waypoints; a request at the simulator, which may outlive its client (the server takes requests whole, so what others do lies between two of them; `given_up_moves` has two), an object, a scene with and one without it; two robots, two holders, four lease objects, terms 0 to 2: takeover after expiry, renewal, and a stale release of either |
| `services` | `OfferIsJustified` `ClientGivesUpFirst` `GrantedTimeIsKept` `McpCallsAreHonest` `MessagesAccounted` `ScaffoldIsKept` `EventsAreHandled` `AnswerHasOneQuestion` `NoStaleQuestion` `ReturnsAfterReplies` `ConversationWellFormed` `OneEpisodePerResult` `BudgetsHold` `GwStaysStopped` `WaitsEnd` `EveryMessageHandled` `RunEnds` | one task start with one change of a body; the code's constants in units of five seconds (base and default 30 s, margins 5 and 10 s, other requests 5 s), budgets on both sides of each point where a formula changes, a negative one and none included, each of the six chains; a remote call (calls share nothing); four updates, one of them no text, any number of restarts; five frames of each kind; two robots, three writes; three events, two handlers; two messages of one user (a session and its reply, or two sessions) and one of another, up to two questions each; a task of four turns, a critic every second, one replan, one question, two calls per turn: every budget can be exceeded |

What the conjunctions hold together: `SharedStateSound` that the circuit opens by its
threshold, the age of cached answers, the grants of a bucket in any stretch of time, the
artifacts kept; `MessagesAccounted` what became of a message on either wire;
`CallsAreSafe` the limits, the robot's approval of every target, the audit log, the
verdict; `WaitsEnd` the end of a task's start, of a verb, of a remote call, and of a user's
message on its way to `listen()`.

`MaxTurns`, `MaxSwaps`, `MaxEvents`, `LeaseIds`, `MaxCalls`, `MaxAsks`, `MaxStart`, `MaxTime`,
`GateMaxVersion`, `GateMaxChanges`, `TgMax`, `MaxPoints`, `MaxScStores`, `MaxScCalls` and
the sets of calls, messages and subtasks bound the runs; the proofs are for any of them.
Lease ids are only compared with each other, hence the symmetry set of `fleet`; runs with
liveness use none. All systems here may stop (a turn, a run, a shutdown ends; leases are
all handed out; bounds are reached), so deadlock is not an error. Type
invariants that are not part of a run's properties are proved (`TypeCorrect` below).

The runs that find a violation, each of one statement of the source that the code does not
keep:

| Run | Statement | What happens |
|---|---|---|
| `abort_wrong_robot` | `verbs.py:316` | `/abort` goes to the task's robot, the verb had gone to `args["robot_id"]` |
| `given_up_moves` | `sim.py:138`, `http.py:145` | the simulated robot's server has no `/abort`: a verb whose client has given up is executed all the same |
| `telegram_replies` | `channels/manager.py:5` | a response carries no `chat_id`, and the Telegram channel drops it |
| `unreachable_check` | `envelope.py:57`, `agent_loop.py:802` | the gate stands before the `try` of `_invoke_tool`: the fault of a robot that cannot be reached for its check leaves as an exception, stops the siblings and ends the task |
| `late_success` | `circuit_breaker.py:20` | of two calls the breaker let through one fails and opens the circuit; the other's success closes it within the cooldown, and clears the count |
| `budget_cut` | `agent_loop.py:980`, `http.py:145` | the timeout layer of the shipped chain (`workspace_template/config.yaml:41`) cuts a verb of one minute at 30 s, and nobody posts `/abort` |
| `orphaned_question` | `channels/manager.py:10` | two sessions of one user ask at once; the second question takes the place of the first and times out, and the user's next message starts a new task while the first session still waits |

### What the properties leave out

The models also reach behaviour that the code's comments do not lead one to expect. No
property excludes it, since the code does nothing against it; the properties above are
stated so that they hold around it.

Turns and deadlines:

* on a cancellation of the task itself no `/abort` is posted: all siblings are done before
  the handler looks for them (`agent_loop.py:804`, `:830`);
* a timeout layer cuts a budget that exceeds its 30 s, and the backstop one whose request
  took longer to write than the backstop's margin; `GrantedTimeIsKept` names the two. The
  backstop comes before the read timeout where the robot answered in parts, or the write was
  slow, for `ClientGivesUpFirst` asks how late the last read began;
* without a budget the backstop is the bare default, 30 s, and the read deadline 35 s from
  the written request: the backstop comes first, although `agent_loop.py:983` says that it
  "fires only when every layer below failed to", and its abort goes to the task's robot
  (`agent_loop.py:992`); `ClientGivesUpFirst` speaks of verbs with a budget;
* a skill's verb goes on after the sibling stop (`AbortSibling` passes skills over, as
  `agent_loop.py:847` does), so `OwnRobotSiblingsStopped` speaks of verbs and actions.

Fleet, channels, loop:

* a lease can run out under a working loop, since `_run_one` does not renew it
  (`multi_robot_inspect.py:85`), and two loops then drive one robot: `OneDriverWithinLeases`
  and `SubscribersAgree` except this case by `overrun` and `shared`;
* the lease fetched by robot id after `assign()` can be gone, or another holder's
  (`FetchLease`), when a subscriber of the announcement was slow;
* two sessions of one user can have a question each (`orphaned_question` above); the one
  whose question was overwritten ends by its timeout (`EveryMessageHandled`);
* a reply that is handled before its question is registered becomes a task of its own
  (`Handle` before `Register`), and one that meets the timer is dropped (`Wake`);
* one failed delivery ends the handlers that are still running (`GatherRaises`);
* a `send` of the gateway on a connection that has dropped unnoticed raises the websocket
  library's error (`GwSay`);
* a confident failure verdict with quiet sensors is a replan (`Decision`), and an unchanged
  verdict becomes one only after rounds without any verdict, because every verdict that
  continues resets the counter (`Act`); `replan_policy.py:30` and `:32` read otherwise.

Calls and their layers:

* in half-open every concurrent call is a probe, and a late success ends the cooldown
  (`late_success` above); `SendsStop` speaks of the time the circuit is open and cools down,
  `BreakerTrips` of the failures since the last success;
* a rate limit below a breaker counts its own refusals as failures of the backend, a call
  refused by the robot's bucket has used a global token, and a bucket of less than one token
  never grants any;
* an invalidation during a call's await is undone when that call fills the cache, and the
  answer is served until its ttl: `CacheFresh` speaks of the ttl alone;
* an artifact still referred to can be evicted, which is what the bound is for; the call that
  names it is refused before the backend;
* NaN passes the joint and the delta rule, not the workspace and the geofence; a Cartesian
  target's orientation and a yaw are not limited at all (`NoBreachMoves` says which numbers
  are); an empty pose is no target, and the call is logged as skipped;
* a refusal in the middle of a skill's waypoints leaves the earlier ones executed, and an
  exception there hides how many were (`TellsWhatHappened`).

Around the robots and the remote tools:

* the catalog of taught motions may be older than the robot's, when a motion was taught
  anew after the task started or another task's refresh arrived late
  (`harness_context.py:214`, `:233`): `CheckedIsRun` excepts just these;
* a handle is a name and two versions: an old one reverts a newer swap, and one of a version
  registered anew brings another object (`SwapsUnwind` has `orderly`);
* a raw joint command leaves a held object behind, `hand_grasp` opens the fingers without
  releasing, and a new scene keeps `_grasped`: `GraspIsKept` has `tracked` for these;
* a merge of steps that leave out a field resets it to its default (`plan_tool.py:98`,
  `:126`), and a second robot's scaffold takes over the tools of the first
  (`harness_context.py:276`), whose plan is then still shown and no longer written;
* a Telegram message that was acknowledged by a later poll and not yet taken from the queue
  is lost in a crash, and one that was taken but not acknowledged comes again after a restart
  (`TgAccounted`, `TgOnceInOrder`);
* a handshake with an MCP server that is cancelled half way leaves its connection or process
  behind until the interpreter collects it (`client.py:87` catches `Exception` only):
  `McpSessionsClose` excepts it;
* a `stop()` of the event bus before its `run()` is lost; `GwStop` closes a dialing or reading
  connection in one step, so that of its race with `stop()` the cancelled back-off is left;
* a tool hidden from listing can be called over MCP, and its arguments are not validated
  (`server.py:118`), the server leases no robot, and a `fault` does not tell whether the
  tool ran, since the gate's own robot check may have raised it (`McpToldTrue`).

## Fairness

* `ToolDispatch`: weak fairness of each coroutine's own steps and of the turn, because the
  event loop runs what is ready; of the two timeouts, because they are timers; of the gate
  and of `/abort`, because the HTTP client bounds both. None of `Answer`, `RobotAccept`,
  `RobotFinish`: a robot may hang for ever; nor of `ChainTimeout`: a chain need not have one.
* `ToolMiddleware`: time passes, the event loop runs what is ready, and sleeps and the
  timeout's timer end. None of `BackendAnswers`; hence calls end under a timeout only.
* `LeaseManager`: the clock runs. Nobody has to call anything.
* `ChannelManager`: each handler's next step and each question's timer. None of `Receive`
  or `ListenersClose`. That a channel's `send` returns is an assumption: the HTTP channels
  have a client timeout, the terminal does not block.
* `AgentLoop`: `WF(LoopNext)`: everything `run()` awaits comes back. For the turn this is
  `TurnEnds`, for a question the timeout of `ask`; for Brain and critic it rests on the
  timeouts of their clients.
* `ServicesSpec`: of the capability gate the coroutines and the timeout of a probe, none of
  the robots' answers; of a verb time and its timers, none of the verdict; of an MCP call
  its timers and the opening of the HTTP transport, none of the server; of Telegram the
  poll loop and `listen`, and strong fairness of an answer, because a poll is tried for
  ever and some of the attempts get through. The others have safety only.

## Proofs

All theorems hold for every value of the constants that satisfies the module's named
assumption.

* `ToolDispatchProofs` (assumption `CallsAssumption`): `TypeCorrect`; `GateIsComplete`;
  `ViolationRaises`; `SiblingsStop`.
  `GateBeforeMotion` is not inductive: it says nothing of a call still at the gate, nor that
  a request is sent only once. `GateInv` adds both (what has been checked before the
  dispatch; a queued call has neither request nor motion). `StopInv` carries the stop from
  the moment the siblings are noted to the raise: each motion the abort can stop still has
  its abort pending. It needs `GateInv`, by which a motion that starts during the stop is
  not one that was noted.
* `LeaseManagerProofs` (`LeaseAssumption`): `TypeCorrect`, `LeasesHonoured`,
  `LeasesImplementOwnership`. The invariant ties each dictionary entry to the lease object
  of that robot, which makes ids comparable across robots; the refinement maps `Acquire`
  to `Take`, `Release` and `Tick` to `Free` of the robots they let go.
* `FleetCoordinatorProofs` (`FleetAssumption`): `TypeCorrect`, `DriversAreExclusive`,
  `EndedTasksAreFree`, `SubscribersSeeTheLatest`, and
  `FleetUsesLeaseManager`: the coordinator changes the leases by steps of `LeaseManager`
  only, hence the theorems of `LeaseManagerProofs`, which it instantiates, hold in the fleet
  as well. `OneDriverWithinLeases` says nothing of leases; `DriversHold` does: while no lease
  has run out under its subtask, a driver is the holder of its robot's live lease, of which
  there is one. Its counterpart `LeasesAreTheirs` (a subtask's live lease is on its own
  robot and in its driver's hands, unless it was abandoned inside `assign()`) gives
  `EndedTasksAreFree`. `BusInv` says how far the publication under way has got. A lease of 0
  seconds is over when it is given, and counts as run out at once.
* `ChannelManagerProofs` (`ChannelAssumption`): `TypeCorrect`, `NothingStaleIsRegistered`,
  `AnswersMatchQuestions`, `ReturnIsLast` (the gather waits for what is in flight, and no
  message is received once the listeners have closed).
* `AgentLoopProofs` (`LoopAssumption`): `TypeCorrect`, `ResultsAreRecorded`,
  `ConversationIsWellFormed`, `BudgetsAreKept`. `TalkInv` says at every place of the loop
  what the property says where the Brain is asked; `CountInv` ties the messages of a role to
  the counters. A count is the cardinality of a set of positions, so that what an append
  does to it is a lemma on finite sets, in place of an induction over the sequence.
* `ToolMiddlewareProofs` (`MiddlewareAssumption`: a layer stands at most once in a chain,
  the cache holds at least one entry, buckets refill): `SharedStateIsSound`,
  `SendsAreBounded`, `SendsAreStopped`. `Placed` says where in the chain a call can be and
  which local of which layer is set there. From it the sends of a call are bounded by the
  attempts of the retry above them; `CacheFresh` follows from `ReadInv` (below the
  cache the backend reads after the cache has looked, so that no entry is dated later than
  its data); `RateWindow` is not inductive and becomes a balance (`Covered`): burst and refill
  since any earlier grant cover what was given since and what the bucket holds. The store's
  order is the order of the last uses, so that the first entry is the one evicted. With
  `max_size` 0 `popitem` raises on an empty cache; the assumption excludes that.
* `RobotsProofs` (`RegistryAssumption`, `RunAssumption`, `CallAssumption`, `GateAssumption`,
  `SimAssumption`, which says that no two bodies of a scene have one id):
  `SwapsLeaveNoTrace` (handles that are open chain the versions back to the first),
  `SkillsHaltInPlace` (the calls made are the steps up to the first that was not confirmed),
  `EveryCallIsSafe` (the commands before the one at hand have passed, each with its entry),
  `OffersAreJustified` and `MotionsRunAsChecked` (a verb that a robot could run all the while
  is not missing in its answer; what a robot was taught, or nothing, is what is on its way
  to the catalog, in it, and in the hands of a call), `GraspsAreKept`.
* `ServicesProofs` (`DeadlineAssumption`: positive constants, the client's margin the
  smaller one; `BusAssumption`, `WiresAssumption`, `ScaffoldAssumption`; McpCalls needs none):
  `DeadlinesTypeCorrect`, `ClientComesFirst`, `BudgetIsKept`: `ClockInv` says how the clocks
  of a call lie to each other, and that none passes a timer that has not fired. `RemoteCallsAreHonest`: what a caller is told
  does not determine what the server has done, so `McpInv` says it by the state of the
  handler (`ServerInv`), and ties the two ends together (`ClientInv`): the server is asked
  only by a call, and an answer that was told stays the handler's last.
  `EventsReachTheirHandlers`: what a handler saw is what was published since it subscribed,
  up to the place of the loop (`BusInv`). `WiresAccount` and `GatewayStaysStopped`:
  the offset lies above all that this process saw and below nothing Telegram still has
  (`TgOffset`), and what lies below it is yielded, queued or lost (`TgKept`); the gateway's queue is what came without the junk, and what was yielded is
  the utterances of what was taken (`QueueInv`, `HeardInv`), however large the batches.
  `ScaffoldsAreKept`: ids are unique in every plan, a merge keeps the rest, and the tools
  work on the stores of some robot (`ScaffoldInv`); which evaluations are told follows from
  how they are looked up, with no invariant of its own.

The wires and the scaffold walk through sets of any size: a batch of updates, the steps of a
merge. Nothing can be proved here about `SelectSeq`, which is recursive; `OrderedSets` says the
same by `InOrder(S)`, the increasing sequence of the elements of `S`. That there is one
(`OrdersExist`), and that it has exactly these elements (`InOrderSorts`), is proved by least
counterexample (`WFMin` on the naturals), which needs no operator as a parameter.

Every safety invariant and action property that a passing run checks is the statement of a
theorem. Only model-checked is liveness (`TurnEnds`, `CallsEnd`, `LeaseEnds`,
`EveryMessageHandled`, `RunEnds`, `WaitsEnd`), since the prover has no rule for fairness and
`ENABLED`; the runs that find a violation have a counterexample, not a proof.
No module uses a recursive operator.

## Not modelled

* Brain, prompts, memory contents, tracing, metrics, configuration, the CLI's start-up:
  inputs or records without effect on control. The generic tools read and write files.
* The web, CLI and local voice channels: a queue or a terminal; what they share with the
  others is in `ChannelManager`. (`WebChannel.send` drops what it is given.)
* Payloads: verdict details, images, the text of messages. `observe.py` only reads.
* The physics of the simulator beyond what `SimServer` keeps, its construction, and the
  conformance suite. `reactive_grasp` of the simulator reads only a cube's name
  (`mujoco_agent_server.py:299`); `/health` is not served by it, and `CapabilityGate` has
  the contract of `http.py` instead. A `/health` answer that is JSON and no object raises.
* The other processes (robots, Telegram, the gateway, the SDK of MCP) are external actions,
  known by how the code uses them. A batch of updates has no limit here.
* An `/abort` that overtakes its verb's request is possible in `ToolDispatch`; no property
  can exclude it, since the code cannot tell.
* `ToolDispatch` has an envelope that is switched on, and real adapters; `SafeCalls` has
  the other configurations. A skill that waits on a tool without a deadline is left out.

## Plan

The components that decide something are modelled, and what their runs check for safety is
proved. Next, in this order:

1. An abstract turn that `ToolDispatch` implements and `AgentLoop` uses, so that `RunEnds`
   rests on a refinement in place of an assumption.
2. An abstract mailbox (what is taken is yielded once, in order) that both wires of
   `ChannelWires` implement, and that `ChannelManager` takes its messages from.
3. An abstract registry that `SkillRegistry` and the catalog of `CapabilityGate` implement:
   what is found under a name is what was last put there.
