-------------------------- MODULE AgentLoopProofs --------------------------
(***************************************************************************)
(* Every exit of run() accounts for its task, the conversation keeps the   *)
(* tool-use protocol, and the budgets hold, whatever they are.             *)
(***************************************************************************)
EXTENDS AgentLoop, FiniteSetTheorems, SequenceTheorems, TLAPS

\* Outcomes and episodes go together, and only a run that ended has either.
ExitInv ==
    /\ OneEpisodePerResult
    /\ place # "ended" <=> outcome = "none"

LEMMA TypeInit == LoopInit => TypeOKLoop
<1> SUFFICES ASSUME LoopInit PROVE TypeOKLoop
  OBVIOUS
<1>1. messages \in Conversations
  <2>1. Msg("system") \in [role : Roles, calls : 0 .. MaxCalls]
        /\ Msg("user") \in [role : Roles, calls : 0 .. MaxCalls]
    BY LoopAssumption DEF Msg, Roles
  <2>2. QED
    BY <2>1 DEF LoopInit, Conversations
<1>2. /\ turn \in 1 .. MaxTurns + 1 /\ turn <= MaxTurns
      /\ replans \in 0 .. MaxReplan
      /\ askCount \in 0 .. MaxAskUser + 1 /\ askCount <= MaxAskUser
  BY LoopAssumption DEF LoopInit
<1>3. QED
  BY <1>1, <1>2 DEF LoopInit, TypeOKLoop

LEMMA NextTurnTypes ==
  ASSUME TypeOKLoop, place # "ended", NextTurn
  PROVE  /\ place' \in {"deciding", "ended"}
         /\ turn' \in 1 .. MaxTurns + 1
         /\ place' # "ended" => turn' <= MaxTurns
         /\ outcome' \in {outcome, "incomplete"}
         /\ episodes' \in Nat
BY LoopAssumption DEF TypeOKLoop, NextTurn

LEMMA ActTypes ==
  ASSUME TypeOKLoop, place # "ended", NEW v \in CriticVerdicts, Act(v), fallback' \in {"none", "waiting", "timedOut"}
  PROVE  TypeOKLoop'
<1> USE LoopAssumption DEF TypeOKLoop
<1>1. UNCHANGED <<results, nudged, askCount, errorCount>>
  BY DEF Act
<1>2. CASE Return(IF v.state = "completion" THEN "success" ELSE "failure")
           /\ UNCHANGED <<messages, replans, unchanged>>
  BY <1>1, <1>2 DEF Return
<1>3. CASE Raise /\ UNCHANGED <<messages, replans, unchanged>>
  BY <1>1, <1>3 DEF Raise
<1>4. CASE /\ replans < MaxReplan
           /\ replans' = replans + 1
           /\ messages' = Append(messages, Msg("feedback"))
           /\ unchanged' = 0
           /\ NextTurn
  <2>1. messages' \in Conversations
    <3>1. Msg("feedback") \in [role : Roles, calls : 0 .. MaxCalls]
      BY DEF Msg, Roles
    <3>2. QED
      BY <1>4, <3>1 DEF Conversations
  <2>2. replans' \in 0 .. MaxReplan
    BY <1>4
  <2>3. QED
    BY <1>1, <1>4, <2>1, <2>2, NextTurnTypes
<1>5. CASE unchanged' = 0 /\ NextTurn /\ UNCHANGED <<messages, replans>>
  BY <1>1, <1>5, NextTurnTypes
<1>6. QED
  BY <1>2, <1>3, <1>4, <1>5 DEF Act

LEMMA TypeStep == TypeOKLoop /\ [LoopNext]_taskVars => TypeOKLoop'
<1> SUFFICES ASSUME TypeOKLoop, [LoopNext]_taskVars PROVE TypeOKLoop'
  OBVIOUS
<1> USE LoopAssumption DEF TypeOKLoop
<1>a. /\ Assistant(0) \in [role : Roles, calls : 0 .. MaxCalls]
      /\ Assistant(1) \in [role : Roles, calls : 0 .. MaxCalls]
      /\ \A role \in Roles : Msg(role) \in [role : Roles, calls : 0 .. MaxCalls]
  BY DEF Assistant, Msg, Roles
<1>b. Append(messages, Assistant(0)) \in Conversations
      /\ Append(messages, Assistant(1)) \in Conversations
  BY <1>a DEF Conversations
<1>c. ASSUME NEW role \in Roles
      PROVE  messages \o <<Assistant(0), Msg(role)>> \in Conversations
  BY <1>a DEF Conversations
<1>1. CASE GiveUp \/ Respond
  <2>1. messages' \in Conversations
    BY <1>1, <1>b DEF GiveUp, Respond
  <2>2. CASE GiveUp
    BY <2>1, <2>2 DEF GiveUp, Return, budgetVars, sensorVars
  <2>3. CASE Respond
    BY <2>1, <2>3 DEF Respond, Return, budgetVars, sensorVars
  <2>4. QED
    BY <1>1, <2>2, <2>3
<1>2. CASE Nudge
  <2>1. messages' \in Conversations
    BY <1>2, <1>c DEF Nudge, Roles
  <2>2. QED
    BY <1>2, <2>1, NextTurnTypes DEF Nudge, sensorVars
<1>3. ASSUME NEW n \in 1 .. MaxCalls, ToolTurn(n) PROVE TypeOKLoop'
  <2>1. messages' \in Conversations
    <3>1. Assistant(n) \in [role : Roles, calls : 0 .. MaxCalls]
      BY DEF Assistant, Roles
    <3>2. Append(messages, Assistant(n)) \in Conversations
      BY <3>1 DEF Conversations
    <3>3. [i \in 1 .. n |-> Msg("tool")] \in Conversations
      BY <1>a DEF Roles, Conversations
    <3>4. QED
      BY <1>3, <3>2, <3>3 DEF ToolTurn, Answered, Conversations
  <2>2. errorCount' \in Nat /\ results' \in BOOLEAN
    BY <1>3 DEF ToolTurn
  <2>3. CASE Return("success")
    BY <1>3, <2>1, <2>2, <2>3 DEF ToolTurn, Return, budgetVars
  <2>4. CASE place' = "judging" /\ UNCHANGED <<turn, outcome, episodes>>
    BY <1>3, <2>1, <2>2, <2>4 DEF ToolTurn, budgetVars
  <2>5. CASE NextTurn
    BY <1>3, <2>1, <2>2, <2>5, NextTurnTypes DEF ToolTurn, budgetVars
  <2>6. QED
    BY <1>3, <2>3, <2>4, <2>5 DEF ToolTurn
<1>4. CASE Crash
  BY <1>4, <1>b DEF Crash, Raise, budgetVars, sensorVars
<1>5. CASE AskTooOften \/ AskUnanswered
  <2>1. messages' \in Conversations
    BY <1>5, <1>b DEF AskTooOften, AskUnanswered
  <2>2. askCount' \in 0 .. MaxAskUser + 1
    BY <1>5 DEF AskTooOften, AskUnanswered
  <2>3. CASE AskTooOften
    BY <2>1, <2>2, <2>3 DEF AskTooOften, Return, sensorVars
  <2>4. CASE AskUnanswered
    BY <2>1, <2>2, <2>4 DEF AskUnanswered, Return, sensorVars
  <2>5. QED
    BY <1>5, <2>3, <2>4
<1>6. CASE AskAnswered
  <2>1. messages' \in Conversations
    BY <1>6, <1>c DEF AskAnswered, Roles
  <2>2. QED
    <3>1. askCount' \in 0 .. MaxAskUser + 1
      BY <1>6 DEF AskAnswered
    <3>2. QED
      BY <1>6, <2>1, <3>1, NextTurnTypes DEF AskAnswered, sensorVars
<1>7. CASE Judge
  BY <1>7, ActTypes DEF Judge
<1>8. CASE JudgeByTimeout
  <2>1. fallback' \in {"waiting", "timedOut"}
    BY <1>8 DEF JudgeByTimeout
  <2>2. QED
    BY <1>8, <2>1, ActTypes DEF JudgeByTimeout, CriticVerdicts, States
<1>9. CASE Unsupervised
  BY <1>9, NextTurnTypes DEF Unsupervised, budgetVars
<1>10. CASE UNCHANGED taskVars
  BY <1>10 DEF taskVars, budgetVars, sensorVars
<1>11. QED
  BY <1>1, <1>2, <1>3, <1>4, <1>5, <1>6, <1>7, <1>8, <1>9, <1>10 DEF LoopNext, Decide, Critic

\* The loop's state is well typed, and a run that goes on has turns left.
THEOREM TypeCorrect == LoopSpec => []TypeOKLoop
<1>1. QED BY TypeInit, TypeStep, PTL DEF LoopSpec

-----------------------------------------------------------------------------
\* However a turn leaves: by the budget, a result, an exception, or not at all.
LEMMA ExitsAccount ==
  ASSUME TypeOKLoop, ExitInv, place # "ended",
         \/ NextTurn
         \/ \E result \in {"success", "failure", "give_up", "incomplete"} : Return(result)
         \/ Raise
         \/ place' = "judging" /\ UNCHANGED <<turn, outcome, episodes>>
  PROVE  ExitInv'
BY DEF TypeOKLoop, ExitInv, OneEpisodePerResult, NextTurn, Return, Raise

LEMMA ExitStep == TypeOKLoop /\ ExitInv /\ [LoopNext]_taskVars => ExitInv'
<1> SUFFICES ASSUME TypeOKLoop, ExitInv, [LoopNext]_taskVars PROVE ExitInv'
  OBVIOUS
<1>1. CASE Decide
  BY <1>1, ExitsAccount DEF Decide, GiveUp, Nudge, Respond, ToolTurn, Crash, AskTooOften,
     AskAnswered, AskUnanswered
<1>2. ASSUME NEW v \in CriticVerdicts, Act(v), place # "ended" PROVE ExitInv'
  BY <1>2, ExitsAccount DEF Act
<1>3. CASE Critic
  <2>1. CASE Judge
    BY <1>2, <2>1 DEF Judge
  <2>2. CASE JudgeByTimeout
    BY <1>2, <2>2 DEF JudgeByTimeout, CriticVerdicts, States
  <2>3. CASE Unsupervised
    BY <2>3, ExitsAccount DEF Unsupervised
  <2>4. QED
    BY <1>3, <2>1, <2>2, <2>3 DEF Critic
<1>4. CASE UNCHANGED taskVars
  BY <1>4 DEF taskVars, ExitInv, OneEpisodePerResult
<1>5. QED
  BY <1>1, <1>3, <1>4 DEF LoopNext

\* A task that ends with a result has been recorded exactly once.
THEOREM ResultsAreRecorded == LoopSpec => []OneEpisodePerResult
<1>1. LoopInit => ExitInv
  BY DEF LoopInit, ExitInv, OneEpisodePerResult
<1>2. ExitInv => OneEpisodePerResult
  BY DEF ExitInv
<1>3. QED BY <1>1, <1>2, TypeCorrect, ExitStep, PTL DEF LoopSpec
-----------------------------------------------------------------------------
(* The conversation *)

Message == [role : Roles, calls : 0 .. MaxCalls]

\* Every turn of the Brain in it has its results.
Answers(conversation) ==
    \A i \in 1 .. Len(conversation) :
        conversation[i].role = "assistant" => CallsAnswered(conversation, i)

\* A message that is neither a result nor askCount for any closes what went before.
LEMMA AppendAnswers ==
  ASSUME NEW c \in Conversations, Answers(c), NEW m \in Message,
         m.role # "tool", m.role = "assistant" => m.calls = 0
  PROVE  Append(c, m) \in Conversations /\ Answers(Append(c, m))
<1> DEFINE d == Append(c, m)
<1>1. /\ d \in Conversations
      /\ Len(d) = Len(c) + 1
      /\ d[Len(c) + 1] = m
      /\ \A i \in 1 .. Len(c) : d[i] = c[i]
  BY DEF Conversations, Message
<1> HIDE DEF d
<1>2. \A i \in 1 .. Len(c) : c[i].calls \in Nat
  <2>1. \A i \in 1 .. Len(c) : c[i] \in Message
    BY ElementOfSeq DEF Conversations, Message
  <2>2. QED
    BY <2>1, LoopAssumption DEF Message
<1>3. Len(c) \in Nat
  BY DEF Conversations
<1>4. ASSUME NEW i \in 1 .. Len(d), d[i].role = "assistant"
      PROVE  CallsAnswered(d, i)
  <2>1. CASE i = Len(c) + 1
    BY <1>1, <1>3, <1>4, <2>1 DEF CallsAnswered
  <2>2. CASE i \in 1 .. Len(c)
    <3>1. d[i] = c[i] /\ CallsAnswered(c, i)
      BY <1>1, <1>4, <2>2 DEF Answers
    <3> DEFINE last == i + c[i].calls
    <3>2. last \in Nat /\ last <= Len(c)
      BY <1>2, <2>2, <3>1 DEF CallsAnswered
    <3>3. \A j \in i + 1 .. last : d[j].role = "tool"
      BY <1>1, <1>3, <2>2, <3>1, <3>2 DEF CallsAnswered
    <3>4. last < Len(d) => d[last + 1].role # "tool"
      <4>1. CASE last = Len(c)
        BY <1>1, <4>1
      <4>2. CASE last < Len(c)
        <5>1. c[last + 1].role # "tool" /\ last + 1 \in 1 .. Len(c)
          BY <2>2, <3>1, <3>2, <4>2, <1>3 DEF CallsAnswered
        <5>2. QED
          BY <1>1, <5>1
      <4>3. QED
        BY <1>3, <3>2, <4>1, <4>2
    <3>5. QED
      BY <1>1, <1>3, <3>1, <3>2, <3>3, <3>4 DEF CallsAnswered
  <2>3. QED
    BY <1>1, <1>3, <2>1, <2>2
<1>5. QED
  BY <1>1, <1>4 DEF Answers, d

LEMMA AnsweredAnswers ==
  ASSUME NEW n \in 1 .. MaxCalls, messages \in Conversations, Answers(messages)
  PROVE  /\ Answers(Answered(n))
         /\ Last(Answered(n)).role = "tool"
<1> DEFINE c == messages
           d == Answered(n)
<1>1. Assistant(n) \in Message /\ Msg("tool") \in Message
  BY LoopAssumption DEF Message, Assistant, Msg, Roles
<1>2. Append(c, Assistant(n)) \in Seq(Message) /\ [i \in 1 .. n |-> Msg("tool")] \in Seq(Message)
  BY <1>1, LoopAssumption DEF Conversations, Message
<1>3. /\ Len(c) \in Nat
      /\ Len(d) = Len(c) + 1 + n
      /\ d[Len(c) + 1] = Assistant(n)
      /\ \A i \in 1 .. Len(c) : d[i] = c[i]
      /\ \A i \in Len(c) + 2 .. Len(d) : d[i] = Msg("tool")
  BY <1>1, <1>2, LoopAssumption DEF Answered, Conversations, Message
<1> HIDE DEF c, d
<1>4. \A i \in 1 .. Len(c) : c[i].calls \in Nat
  <2>1. \A i \in 1 .. Len(c) : c[i] \in Message
    BY ElementOfSeq DEF Conversations, Message, c
  <2>2. QED
    BY <2>1, LoopAssumption DEF Message
<1>5. ASSUME NEW i \in 1 .. Len(d), d[i].role = "assistant"
      PROVE  CallsAnswered(d, i)
  <2>1. CASE i = Len(c) + 1
    BY <1>3, <2>1, LoopAssumption DEF CallsAnswered, Assistant, Msg
  <2>2. CASE i \in 1 .. Len(c)
    <3>1. d[i] = c[i] /\ CallsAnswered(c, i)
      BY <1>3, <1>5, <2>2 DEF Answers, c
    <3> DEFINE last == i + c[i].calls
    <3>2. last \in Nat /\ last <= Len(c)
      BY <1>4, <2>2, <3>1 DEF CallsAnswered
    <3>3. \A j \in i + 1 .. last : d[j].role = "tool"
      BY <1>3, <2>2, <3>1, <3>2 DEF CallsAnswered
    <3>4. last < Len(d) => d[last + 1].role # "tool"
      <4>1. CASE last = Len(c)
        BY <1>3, <4>1 DEF Assistant
      <4>2. CASE last < Len(c)
        <5>1. c[last + 1].role # "tool" /\ last + 1 \in 1 .. Len(c)
          BY <2>2, <3>1, <3>2, <4>2, <1>3 DEF CallsAnswered
        <5>2. QED
          BY <1>3, <5>1
      <4>3. QED
        BY <1>3, <3>2, <4>1, <4>2
    <3>5. QED
      BY <1>3, <3>1, <3>2, <3>3, <3>4, LoopAssumption DEF CallsAnswered
  <2>3. CASE i \in Len(c) + 2 .. Len(d)
    BY <1>3, <1>5, <2>3 DEF Msg
  <2>4. QED
    BY <1>3, <2>1, <2>2, <2>3, LoopAssumption
<1>6. Last(d).role = "tool"
  BY <1>3, LoopAssumption DEF Last, Msg
<1>7. QED
  BY <1>5, <1>6 DEF Answers, d

\* How many messages of that role the conversation shows.
Tally(conversation, role) ==
    Cardinality({i \in 1 .. Len(conversation) : conversation[i].role = role})

LEMMA TallyType ==
  ASSUME NEW c \in Conversations, NEW role
  PROVE  Tally(c, role) \in Nat
<1>1. IsFiniteSet(1 .. Len(c))
  BY FS_Interval, LenProperties DEF Conversations
<1>2. {i \in 1 .. Len(c) : c[i].role = role} \subseteq 1 .. Len(c)
  OBVIOUS
<1>3. QED
  BY <1>1, <1>2, FS_Subset, FS_CardinalityType DEF Tally

LEMMA AppendTally ==
  ASSUME NEW c \in Conversations, NEW m \in Message, NEW role
  PROVE  Tally(Append(c, m), role) = Tally(c, role) + (IF m.role = role THEN 1 ELSE 0)
<1> DEFINE d == Append(c, m)
           old == {i \in 1 .. Len(c) : c[i].role = role}
           new == {i \in 1 .. Len(d) : d[i].role = role}
<1>1. /\ Len(c) \in Nat
      /\ Len(d) = Len(c) + 1
      /\ d[Len(c) + 1] = m
      /\ \A i \in 1 .. Len(c) : d[i] = c[i]
  BY DEF Conversations, Message
<1>2. IsFiniteSet(old)
  <2>1. IsFiniteSet(1 .. Len(c)) /\ old \subseteq 1 .. Len(c)
    BY <1>1, FS_Interval
  <2>2. QED
    BY <2>1, FS_Subset
<1>3. Len(c) + 1 \notin old
  BY <1>1
<1> HIDE DEF d
<1>4. new = IF m.role = role THEN old \cup {Len(c) + 1} ELSE old
  BY <1>1
<1>5. Cardinality(new) = Cardinality(old) + (IF m.role = role THEN 1 ELSE 0)
  <2> HIDE DEF old, new
  <2>1. Cardinality(old) \in Nat
    BY <1>2, FS_CardinalityType
  <2>2. CASE m.role = role
    <3>1. Cardinality(old \cup {Len(c) + 1}) = Cardinality(old) + 1
      BY <1>2, <1>3, FS_AddElement
    <3>2. QED
      BY <1>4, <2>2, <3>1
  <2>3. CASE m.role # role
    BY <1>4, <2>1, <2>3
  <2>4. QED
    BY <2>2, <2>3
<1>6. QED
  BY <1>5 DEF Tally, d

LEMMA AnsweredTally ==
  ASSUME NEW n \in 1 .. MaxCalls, messages \in Conversations,
         NEW role \in {"feedback", "reply", "nudge"}
  PROVE  Tally(Answered(n), role) = Tally(messages, role)
<1> DEFINE c == messages
           d == Answered(n)
<1>1. Assistant(n) \in Message /\ Msg("tool") \in Message
  BY LoopAssumption DEF Message, Assistant, Msg, Roles
<1>2. Append(c, Assistant(n)) \in Seq(Message) /\ [i \in 1 .. n |-> Msg("tool")] \in Seq(Message)
  BY <1>1, LoopAssumption DEF Conversations, Message
<1>3. /\ Len(c) \in Nat
      /\ Len(d) = Len(c) + 1 + n
      /\ d[Len(c) + 1] = Assistant(n)
      /\ \A i \in 1 .. Len(c) : d[i] = c[i]
      /\ \A i \in Len(c) + 2 .. Len(d) : d[i] = Msg("tool")
  BY <1>1, <1>2, LoopAssumption DEF Answered, Conversations, Message
<1> HIDE DEF c, d
<1>4. {i \in 1 .. Len(d) : d[i].role = role} = {i \in 1 .. Len(c) : c[i].role = role}
  <2>1. \A i \in 1 .. Len(d) : i \notin 1 .. Len(c) => d[i].role # role
    BY <1>3, LoopAssumption DEF Assistant, Msg
  <2>2. 1 .. Len(c) \subseteq 1 .. Len(d)
    BY <1>3, LoopAssumption
  <2>3. QED
    BY <1>3, <2>1, <2>2
<1>5. QED
  BY <1>4 DEF Tally, c, d

\* A turn without calls, and what it got in return.
LEMMA ExchangeAppended ==
  ASSUME messages \in Conversations, NEW m \in Message
  PROVE  messages \o <<Assistant(0), m>> = Append(Append(messages, Assistant(0)), m)
<1>1. Assistant(0) \in Message
  BY LoopAssumption DEF Message, Assistant, Roles
<1>2. QED
  BY <1>1 DEF Conversations, Message

-----------------------------------------------------------------------------
TalkInv == place # "ended" => Last(messages).role # "assistant" /\ Answers(messages)

CountInv ==
    /\ Tally(messages, "feedback") = replans
    /\ Tally(messages, "reply") <= askCount
    /\ Tally(messages, "reply") <= MaxAskUser
    /\ Tally(messages, "nudge") = IF nudged THEN 1 ELSE 0

ConvInv == TalkInv /\ CountInv

\* What an action can do to the conversation.
LEMMA Kept ==
  ASSUME TypeOKLoop, ConvInv, place # "ended",
         UNCHANGED <<messages, replans, askCount, nudged>>
  PROVE  ConvInv'
BY DEF ConvInv, TalkInv, CountInv

LEMMA LastWord ==
  ASSUME TypeOKLoop, ConvInv, NEW m \in Message, m.role = "assistant",
         messages' = Append(messages, m), place' = "ended",
         askCount' \in {askCount, askCount + 1}, UNCHANGED <<replans, nudged>>
  PROVE  ConvInv'
<1>1. \A role \in {"feedback", "reply", "nudge"} :
         Tally(messages', role) = Tally(messages, role) /\ Tally(messages, role) \in Nat
  BY AppendTally, TallyType DEF TypeOKLoop
<1>2. QED
  BY <1>1, LoopAssumption DEF TypeOKLoop, ConvInv, TalkInv, CountInv

LEMMA Exchanged ==
  ASSUME TypeOKLoop, ConvInv, place # "ended", NEW role \in {"nudge", "reply"},
         messages' = messages \o <<Assistant(0), Msg(role)>>,
         role = "nudge" => ~nudged /\ nudged' = TRUE /\ askCount' = askCount,
         role = "reply" => askCount < MaxAskUser /\ askCount' = askCount + 1 /\ nudged' = nudged,
         replans' = replans
  PROVE  ConvInv'
<1>1. /\ Assistant(0) \in Message /\ Msg(role) \in Message
      /\ Assistant(0).role = "assistant" /\ Assistant(0).calls = 0 /\ Msg(role).role = role
  BY LoopAssumption DEF Message, Assistant, Msg, Roles
<1> DEFINE c == Append(messages, Assistant(0))
<1>2. c \in Conversations /\ Answers(c)
  BY <1>1, AppendAnswers DEF ConvInv, TalkInv, TypeOKLoop
<1>3. messages' = Append(c, Msg(role))
  BY <1>1, ExchangeAppended DEF TypeOKLoop
<1>4. Answers(messages')
  BY <1>1, <1>2, <1>3, AppendAnswers
<1>5. Last(messages').role # "assistant"
  <2>1. Len(messages') = Len(c) + 1 /\ messages'[Len(c) + 1] = Msg(role)
    BY <1>1, <1>2, <1>3, AppendProperties DEF Conversations, Message
  <2>2. QED
    BY <1>1, <2>1 DEF Last
<1>6. \A r \in {"feedback", "reply", "nudge"} :
         /\ Tally(messages', r) = Tally(messages, r) + (IF role = r THEN 1 ELSE 0)
         /\ Tally(messages, r) \in Nat
  <2>1. \A r \in {"feedback", "reply", "nudge"} :
           Tally(c, r) = Tally(messages, r) /\ Tally(messages, r) \in Nat
    BY <1>1, AppendTally, TallyType DEF TypeOKLoop
  <2>2. ASSUME NEW r \in {"feedback", "reply", "nudge"}
        PROVE  Tally(Append(c, Msg(role)), r) = Tally(c, r) + (IF role = r THEN 1 ELSE 0)
    <3> HIDE DEF c
    <3>1. Tally(Append(c, Msg(role)), r) = Tally(c, r) + (IF Msg(role).role = r THEN 1 ELSE 0)
      BY <1>1, <1>2, AppendTally
    <3>2. QED
      BY <1>1, <3>1
  <2>3. QED
    BY <1>3, <2>1, <2>2
<1>7. CountInv'
  BY <1>6, LoopAssumption DEF ConvInv, CountInv, TypeOKLoop
<1>8. QED
  BY <1>4, <1>5, <1>7 DEF ConvInv, TalkInv

LEMMA Told ==
  ASSUME TypeOKLoop, ConvInv, place # "ended",
         messages' = Append(messages, Msg("feedback")),
         replans' = replans + 1, UNCHANGED <<askCount, nudged>>
  PROVE  ConvInv'
<1>1. Msg("feedback") \in Message /\ Msg("feedback").role = "feedback"
  BY LoopAssumption DEF Message, Msg, Roles
<1>2. Answers(messages')
  BY <1>1, AppendAnswers DEF ConvInv, TalkInv, TypeOKLoop
<1>3. Last(messages').role # "assistant"
  <2>1. Len(messages') = Len(messages) + 1 /\ messages'[Len(messages) + 1] = Msg("feedback")
    BY <1>1, AppendProperties DEF Conversations, Message, TypeOKLoop
  <2>2. QED
    BY <1>1, <2>1 DEF Last
<1>4. \A r \in {"feedback", "reply", "nudge"} :
         /\ Tally(messages', r) = Tally(messages, r) + (IF "feedback" = r THEN 1 ELSE 0)
         /\ Tally(messages, r) \in Nat
  BY <1>1, AppendTally, TallyType DEF TypeOKLoop
<1>5. CountInv'
  BY <1>4 DEF ConvInv, CountInv, TypeOKLoop
<1>6. QED
  BY <1>2, <1>3, <1>5 DEF ConvInv, TalkInv

LEMMA ActKeepsConversation ==
  ASSUME TypeOKLoop, ConvInv, place # "ended", NEW v \in CriticVerdicts, Act(v)
  PROVE  ConvInv'
BY Kept, Told DEF Act

LEMMA ConvStep == TypeOKLoop /\ ConvInv /\ [LoopNext]_taskVars => ConvInv'
<1> SUFFICES ASSUME TypeOKLoop, ConvInv, [LoopNext]_taskVars PROVE ConvInv'
  OBVIOUS
<1>a. /\ Assistant(0) \in Message /\ Assistant(0).role = "assistant"
      /\ Assistant(1) \in Message /\ Assistant(1).role = "assistant"
  BY LoopAssumption DEF Message, Assistant, Roles
<1>1. CASE GiveUp \/ Respond \/ AskTooOften \/ AskUnanswered
  BY <1>1, <1>a, LastWord DEF GiveUp, Respond, AskTooOften, AskUnanswered, Return, budgetVars
<1>2. CASE Nudge
  BY <1>2, Exchanged DEF Nudge
<1>3. CASE AskAnswered
  BY <1>3, Exchanged DEF AskAnswered
<1>4. ASSUME NEW n \in 1 .. MaxCalls, ToolTurn(n) PROVE ConvInv'
  <2>1. place # "ended" /\ messages' = Answered(n) /\ UNCHANGED budgetVars
    BY <1>4 DEF ToolTurn
  <2>2. Answers(messages') /\ Last(messages').role = "tool"
    BY <2>1, AnsweredAnswers DEF ConvInv, TalkInv, TypeOKLoop
  <2>3. \A r \in {"feedback", "reply", "nudge"} : Tally(messages', r) = Tally(messages, r)
    BY <2>1, AnsweredTally DEF TypeOKLoop
  <2>4. QED
    BY <2>1, <2>2, <2>3 DEF ConvInv, TalkInv, CountInv, budgetVars
<1>5. CASE Crash
  <2>1. CASE messages' = messages
    BY <1>5, <2>1, Kept DEF Crash, budgetVars
  <2>2. CASE messages' = Append(messages, Assistant(1))
    BY <1>5, <1>a, <2>2, LastWord DEF Crash, Raise, budgetVars
  <2>3. QED
    BY <1>5, <2>1, <2>2 DEF Crash
<1>6. CASE Critic
  <2>1. CASE Judge
    BY <2>1, ActKeepsConversation DEF Judge
  <2>2. CASE JudgeByTimeout
    BY <2>2, ActKeepsConversation DEF JudgeByTimeout, CriticVerdicts, States
  <2>3. CASE Unsupervised
    BY <2>3, Kept DEF Unsupervised, budgetVars
  <2>4. QED
    BY <1>6, <2>1, <2>2, <2>3 DEF Critic
<1>7. CASE UNCHANGED taskVars
  BY <1>7 DEF taskVars, budgetVars, ConvInv, TalkInv, CountInv
<1>8. QED
  BY <1>1, <1>2, <1>3, <1>4, <1>5, <1>6, <1>7 DEF LoopNext, Decide

LEMMA ConvInit == LoopInit => ConvInv
<1> SUFFICES ASSUME LoopInit PROVE ConvInv
  OBVIOUS
<1>1. /\ Len(messages) = 2
      /\ messages[1].role = "system" /\ messages[2].role = "user"
  BY DEF LoopInit, Msg
<1>2. TalkInv
  BY <1>1 DEF TalkInv, Answers, Last
<1>3. \A r \in {"feedback", "reply", "nudge"} : Tally(messages, r) = 0
  <2>1. \A r \in {"feedback", "reply", "nudge"} :
           {i \in 1 .. Len(messages) : messages[i].role = r} = {}
    BY <1>1
  <2>2. QED
    BY <2>1, FS_EmptySet DEF Tally
<1>4. CountInv
  BY <1>3, LoopAssumption DEF CountInv, LoopInit
<1>5. QED
  BY <1>2, <1>4 DEF ConvInv

\* Whenever the Brain is asked, every tool call it has made so far stands with
\* its result, in order, whatever nudges, questions, replans and tool turns came
\* between.
THEOREM ConversationIsWellFormed == LoopSpec => []ConversationWellFormed
<1>1. ConvInv => ConversationWellFormed
  BY DEF ConvInv, TalkInv, Answers, ConversationWellFormed
<1>2. QED
  BY ConvInit, ConvStep, TypeCorrect, <1>1, PTL DEF LoopSpec

\* The conversation never shows more replans, replies or nudges than budgeted.
THEOREM BudgetsAreKept == LoopSpec => []BudgetsHold
<1>1. TypeOKLoop /\ ConvInv => BudgetsHold
  <2> SUFFICES ASSUME TypeOKLoop, ConvInv PROVE BudgetsHold
    OBVIOUS
  <2>1. Tally(messages, "nudge") <= 1 /\ replans <= MaxReplan
    BY LoopAssumption DEF ConvInv, CountInv, TypeOKLoop
  <2>2. QED
    BY <2>1 DEF BudgetsHold, ConvInv, CountInv, Tally
<1>2. QED
  BY ConvInit, ConvStep, TypeCorrect, <1>1, PTL DEF LoopSpec
=============================================================================
