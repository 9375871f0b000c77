----------------------------- MODULE AgentLoop -----------------------------
(***************************************************************************)
(* AgentLoop.run: the turns of one task.  The Brain decides on the         *)
(* conversation so far; its tool calls, questions and answers extend it;   *)
(* every critic_interval turns a critic may end the task or send the Brain *)
(* back to plan.  What happens inside one tool-call turn is ToolDispatch.  *)
(***************************************************************************)
EXTENDS Naturals, Sequences, SequencesExt

CONSTANTS
    MaxTurns,        \* max_turns
    CriticInterval,  \* critic_interval
    MaxReplan,       \* max_replan
    MaxAskUser,      \* max_ask_user
    MaxUnchanged,    \* ReplanPolicy's max_unchanged
    MaxCalls,        \* tool calls in one decision (bounds the runs)
    HasCritic        \* is a critic wired?

ASSUME LoopAssumption ==
    /\ MaxTurns \in Nat \ {0}
    /\ CriticInterval \in Nat \ {0}
    /\ MaxCalls \in Nat \ {0}
    /\ MaxReplan \in Nat
    /\ MaxAskUser \in Nat
    /\ MaxUnchanged \in Nat
    /\ HasCritic \in BOOLEAN

VARIABLES
    place,       \* "deciding", "judging" or "ended"
    turn,        \* turn of the for loop
    messages,    \* the conversation, as its messages' roles and tool calls
    results,     \* all_tool_results is not empty
    nudged,
    errorCount,  \* sensor.error_count
    unchanged,   \* sensor.unchanged_count
    replans,     \* replan_count
    askCount,        \* ask_count
    fallback,    \* the heuristic critic: not made, before or past its timeout
    outcome,     \* of the AgentResult; "raised" when an exception leaves run()
    episodes     \* episodes written

sensorVars == <<errorCount, unchanged>>
budgetVars == <<nudged, replans, askCount>>
taskVars == <<place, turn, messages, results, budgetVars, sensorVars, fallback, outcome, episodes>>

States == {"progress", "completion", "failure", "unchanged"}
CriticVerdicts == [state : States, confident : BOOLEAN]

\* A message is its role, and for the Brain's own the number of tool calls in it.
Msg(role) == [role |-> role, calls |-> 0]
Assistant(n) == [role |-> "assistant", calls |-> n]
Roles == {"system", "user", "assistant", "tool", "nudge", "feedback", "reply"}
Conversations == Seq([role : Roles, calls : 0 .. MaxCalls])

\* Types; a run that has not ended has a turn and a question left.
TypeOKLoop ==
    /\ place \in {"deciding", "judging", "ended"}
    /\ turn \in 1 .. MaxTurns + 1
    /\ place # "ended" => turn <= MaxTurns /\ askCount <= MaxAskUser
    /\ messages \in Conversations
    /\ results \in BOOLEAN
    /\ nudged \in BOOLEAN
    /\ errorCount \in Nat
    /\ unchanged \in Nat
    /\ replans \in 0 .. MaxReplan
    /\ askCount \in 0 .. MaxAskUser + 1
    /\ fallback \in {"none", "waiting", "timedOut"}
    /\ outcome \in {"none", "success", "failure", "give_up", "incomplete", "raised"}
    /\ episodes \in Nat

LoopInit ==
    /\ place = "deciding"
    /\ turn = 1
    /\ messages = <<Msg("system"), Msg("user")>>
    /\ results = FALSE
    /\ nudged = FALSE
    /\ errorCount = 0
    /\ unchanged = 0
    /\ replans = 0
    /\ askCount = 0
    /\ fallback = "none"
    /\ outcome = "none"
    /\ episodes = 0

-----------------------------------------------------------------------------
(* Leaving run() *)

Return(result) ==
    /\ place' = "ended"
    /\ outcome' = result
    /\ episodes' = episodes + 1
    /\ UNCHANGED turn

Raise ==
    /\ place' = "ended"
    /\ outcome' = "raised"
    /\ UNCHANGED <<turn, episodes>>

\* (Mutant: nothing is returned after the last turn.)
NextTurnOrNothing ==
    /\ turn' = turn + 1
    /\ place' = IF turn < MaxTurns THEN "deciding" ELSE "exhausted"
    /\ UNCHANGED <<outcome, episodes>>

\* `continue`: the next turn, or the turn budget is used up.
NextTurn ==
    /\ turn' = turn + 1
    /\ IF turn < MaxTurns
          THEN place' = "deciding" /\ UNCHANGED <<outcome, episodes>>
          ELSE /\ place' = "ended"
               /\ outcome' = "incomplete"
               /\ episodes' = episodes + 1

-----------------------------------------------------------------------------
(* One turn, by the Brain's decision *)

GiveUp ==
    /\ place = "deciding"
    /\ messages' = Append(messages, Assistant(0))
    /\ Return("give_up")
    /\ UNCHANGED <<results, budgetVars, sensorVars, fallback>>

\* A text answer before any tool has run is sent back once.
Nudge ==
    /\ place = "deciding"
    /\ ~results /\ ~nudged
    /\ nudged' = TRUE
    /\ messages' = messages \o <<Assistant(0), Msg("nudge")>>
    /\ NextTurn
    /\ UNCHANGED <<results, replans, askCount, sensorVars, fallback>>

Respond ==
    /\ place = "deciding"
    /\ results \/ nudged
    /\ messages' = Append(messages, Assistant(0))
    /\ Return("success")
    /\ UNCHANGED <<results, budgetVars, sensorVars, fallback>>

\* (Mutant: the results go before the calls.)
AnsweredBackwards(n) == Append(messages \o [i \in 1 .. n |-> Msg("tool")], Assistant(n))

\* The Brain's tool calls, and a tool message for the result of each.
Answered(n) == Append(messages, Assistant(n)) \o [i \in 1 .. n |-> Msg("tool")]

DueForCritic == HasCritic /\ turn % CriticInterval = 0

ToolTurn(n) ==
    /\ place = "deciding"
    /\ messages' = Answered(n)
    /\ results' = TRUE
    /\ \E anyError \in BOOLEAN :
          errorCount' = IF anyError THEN errorCount + 1
                        ELSE IF errorCount > 0 THEN errorCount - 1 ELSE 0
    /\ \/ Return("success")  \* a result carries task_complete
       \/ /\ DueForCritic
          /\ place' = "judging"
          /\ UNCHANGED <<turn, outcome, episodes>>
       \/ /\ ~DueForCritic
          /\ NextTurn
    /\ UNCHANGED <<unchanged, budgetVars, fallback>>

\* Brain failure, ids that do not match, or a safety violation out of the turn.
Crash ==
    /\ place = "deciding"
    /\ Raise
    /\ messages' \in {messages, Append(messages, Assistant(1))}
    /\ UNCHANGED <<results, budgetVars, sensorVars, fallback>>

\* One question too many ends the task; it is not put to the user.
AskTooOften ==
    /\ place = "deciding"
    /\ askCount >= MaxAskUser
    /\ askCount' = askCount + 1
    /\ messages' = Append(messages, Assistant(0))
    /\ Return("give_up")
    /\ UNCHANGED <<results, nudged, replans, sensorVars, fallback>>

\* (Mutant: answered questions are not counted.)
AskAnsweredFree ==
    /\ place = "deciding"
    /\ askCount < MaxAskUser
    /\ messages' = messages \o <<Assistant(0), Msg("reply")>>
    /\ NextTurn
    /\ UNCHANGED <<askCount, results, nudged, replans, sensorVars, fallback>>

AskAnswered ==
    /\ place = "deciding"
    /\ askCount < MaxAskUser
    /\ askCount' = askCount + 1
    /\ messages' = messages \o <<Assistant(0), Msg("reply")>>
    /\ NextTurn
    /\ UNCHANGED <<results, nudged, replans, sensorVars, fallback>>

\* (Mutant: an exit that forgets the episode.)
AskUnansweredUnrecorded ==
    /\ place = "deciding"
    /\ askCount < MaxAskUser
    /\ askCount' = askCount + 1
    /\ messages' = Append(messages, Assistant(0))
    /\ place' = "ended"
    /\ outcome' = "incomplete"
    /\ UNCHANGED <<turn, episodes, results, nudged, replans, sensorVars, fallback>>

\* No reply in time, no channel, or a delivery failure.
AskUnanswered ==
    /\ place = "deciding"
    /\ askCount < MaxAskUser
    /\ askCount' = askCount + 1
    /\ messages' = Append(messages, Assistant(0))
    /\ Return("incomplete")
    /\ UNCHANGED <<results, nudged, replans, sensorVars, fallback>>

-----------------------------------------------------------------------------
(* _run_critic and ReplanPolicy.decide *)

\* The sensors see no trouble.
SensorOk == errorCount = 0 /\ unchanged < MaxUnchanged

\* The disagreement of critic and sensors is a CriticDisagreementError, which the
\* loop takes for "replan".
Decision(v) ==
    CASE v.state = "completion" -> "abort"
      [] v.state = "failure" /\ v.confident -> IF SensorOk THEN "replan" ELSE "abort"
      [] v.state = "failure" /\ ~v.confident -> "replan"
      [] v.state = "unchanged" /\ unchanged >= MaxUnchanged -> "replan"
      [] OTHER -> "continue"

\* What the loop does with a verdict.
Act(v) ==
    /\ LET action == Decision(v) IN
          \/ /\ action = "abort"
             /\ Return(IF v.state = "completion" THEN "success" ELSE "failure")
             /\ UNCHANGED <<messages, replans, unchanged>>
          \/ /\ action = "replan"
             /\ replans >= MaxReplan
             /\ Raise
             /\ UNCHANGED <<messages, replans, unchanged>>
          \/ /\ action = "replan"
             /\ replans < MaxReplan
             /\ replans' = replans + 1
             /\ messages' = Append(messages, Msg("feedback"))
             /\ unchanged' = 0
             /\ NextTurn
          \/ /\ action = "continue"
             /\ unchanged' = 0
             /\ NextTurn
             /\ UNCHANGED <<messages, replans>>
    /\ UNCHANGED <<results, nudged, askCount, errorCount>>

\* The camera frame and the critic's verdict arrive.
Judge ==
    /\ place = "judging"
    /\ \E v \in CriticVerdicts : Act(v)
    /\ UNCHANGED fallback

\* The critic service is down: the timeout heuristic, made the first time, says
\* progress (0.3 sure) until its timeout, then failure (0.5 sure) for good.
JudgeByTimeout ==
    /\ place = "judging"
    /\ fallback' \in IF fallback = "timedOut" THEN {"timedOut"} ELSE {"waiting", "timedOut"}
    /\ Act(IF fallback' = "timedOut"
              THEN [state |-> "failure", confident |-> TRUE]
              ELSE [state |-> "progress", confident |-> FALSE])

\* No frame, or the critic broke: this round is unsupervised.
Unsupervised ==
    /\ place = "judging"
    /\ unchanged' = unchanged + 1
    /\ NextTurn
    /\ UNCHANGED <<messages, results, budgetVars, errorCount, fallback>>

-----------------------------------------------------------------------------
Decide ==
    \/ GiveUp
    \/ Nudge
    \/ Respond
    \/ \E n \in 1 .. MaxCalls : ToolTurn(n)
    \/ Crash
    \/ AskTooOften
    \/ AskAnswered
    \/ AskUnanswered

Critic == Judge \/ JudgeByTimeout \/ Unsupervised

LoopNext == Decide \/ Critic

LoopSpec == LoopInit /\ [][LoopNext]_taskVars

\* Whatever run() awaits comes back: the Brain, the turn (ToolDispatch's TurnEnds),
\* the question (its timeout), the camera and the critic (their clients').
LoopFairSpec == LoopSpec /\ WF_taskVars(LoopNext)

-----------------------------------------------------------------------------
(* Properties *)

\* The Brain's turn at i is followed by exactly the tool results it called for.
CallsAnswered(conversation, i) ==
    LET last == i + conversation[i].calls IN
        /\ last <= Len(conversation)
        /\ \A j \in i + 1 .. last : conversation[j].role = "tool"
        /\ last < Len(conversation) => conversation[last + 1].role # "tool"

\* The native tool-use protocol: whenever the Brain is asked, each of its turns so
\* far is followed by exactly the tool results it called for, and none of them
\* stands at the end.
ConversationWellFormed ==
    place = "deciding" =>
        /\ Last(messages).role # "assistant"
        /\ \A i \in 1 .. Len(messages) :
              messages[i].role = "assistant" => CallsAnswered(messages, i)

\* A run that returns leaves one episode, one that is still going or that raised
\* leaves none.
OneEpisodePerResult ==
    episodes = IF outcome \in {"none", "raised"} THEN 0 ELSE 1

\* The conversation shows no more replans and replies than the budgets allow, and
\* one feedback per replan counted.
BudgetsHold ==
    LET Count(role) == Cardinality({i \in 1 .. Len(messages) : messages[i].role = role}) IN
        /\ Count("feedback") = replans
        /\ replans <= MaxReplan
        /\ Count("reply") <= MaxAskUser
        /\ Count("nudge") <= 1

\* Every task comes to an end.
RunEnds == <>(place = "ended")
=============================================================================
