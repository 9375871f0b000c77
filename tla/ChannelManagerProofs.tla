------------------------ MODULE ChannelManagerProofs ------------------------
(***************************************************************************)
(* Answers and questions match, and start() returns last, for any number   *)
(* of users, messages and questions.                                       *)
(***************************************************************************)
EXTENDS ChannelManager, TLAPS

LEMMA TypeInit == TalkInit => TypeOKTalk
BY ChannelAssumption DEF TalkInit, TypeOKTalk, Mains

LEMMA TypeStep == TypeOKTalk /\ [TalkNext]_talkVars => TypeOKTalk'
<1> SUFFICES ASSUME TypeOKTalk, [TalkNext]_talkVars PROVE TypeOKTalk'
  OBVIOUS
<1> USE ChannelAssumption
    DEF TypeOKTalk, Mains, InFlightStates, Ends, Move, askVars, mainVars
<1>1. ASSUME NEW m \in Messages, Receive(m) PROVE TypeOKTalk'
  BY <1>1 DEF Receive
<1>2. ASSUME NEW m \in Messages, Handle(m) PROVE TypeOKTalk'
  BY <1>2 DEF Handle
<1>3. ASSUME NEW m \in Messages, AskRefused(m) \/ PromptFails(m) \/ LoopReturns(m) \/ SendResult(m)
      PROVE  TypeOKTalk'
  <2>1. CASE AskRefused(m) \/ PromptFails(m) \/ LoopReturns(m)
    BY <2>1 DEF AskRefused, PromptFails, LoopReturns
  <2>2. CASE SendResult(m)
    BY <2>2 DEF SendResult
  <2>3. QED
    BY <1>3, <2>1, <2>2
<1>4. ASSUME NEW m \in Messages, AskUser(m) \/ PromptShown(m) PROVE TypeOKTalk'
  <2>1. CASE AskUser(m)
    <3>1. asks[m] + 1 \in 0 .. MaxAsks
      BY <2>1 DEF AskUser
    <3>2. QED
      BY <2>1, <3>1 DEF AskUser
  <2>2. CASE PromptShown(m)
    BY <2>2 DEF PromptShown
  <2>3. QED
    BY <1>4, <2>1, <2>2
<1>5. ASSUME NEW m \in Messages, Register(m) PROVE TypeOKTalk'
  BY <1>5 DEF Register
<1>6. ASSUME NEW m \in Messages, Expire(m) PROVE TypeOKTalk'
  BY <1>6 DEF Expire
<1>7. ASSUME NEW m \in Messages, Wake(m) PROVE TypeOKTalk'
  BY <1>7 DEF Wake
<1>8. CASE ListenersClose \/ AllGathered
  BY <1>8 DEF ListenersClose, AllGathered, Gather, InFlight
<1>9. CASE GatherRaises
  BY <1>9 DEF GatherRaises, InFlight
<1>10. CASE UNCHANGED talkVars
  BY <1>10 DEF talkVars
<1>11. QED
  BY <1>1, <1>2, <1>3, <1>4, <1>5, <1>6, <1>7, <1>8, <1>9, <1>10 DEF TalkNext, Step, Start

\* The manager's state is well typed; a user's entry names a session of that user.
THEOREM TypeCorrect == TalkSpec => []TypeOKTalk
<1>1. QED BY TypeInit, TypeStep, PTL DEF TalkSpec

-----------------------------------------------------------------------------
LEMMA QuestionStep == TypeOKTalk /\ NoStaleQuestion /\ [TalkNext]_talkVars => NoStaleQuestion'
<1> SUFFICES ASSUME TypeOKTalk, NoStaleQuestion, [TalkNext]_talkVars PROVE NoStaleQuestion'
  OBVIOUS
<1> USE ChannelAssumption DEF TypeOKTalk, NoStaleQuestion, Move, askVars, mainVars
<1>1. ASSUME NEW m \in Messages,
             \/ Receive(m) \/ Handle(m) \/ AskRefused(m) \/ AskUser(m) \/ PromptShown(m)
             \/ PromptFails(m) \/ LoopReturns(m) \/ SendResult(m)
      PROVE  NoStaleQuestion'
  <2>1. pending' = pending /\ sessions[m] # "waiting"
        /\ \A n \in Messages \ {m} : sessions'[n] = sessions[n]
        /\ (sessions' = sessions \/ sessions[m] # "waiting")
    BY <1>1 DEF Receive, Handle, AskRefused, AskUser, PromptShown, PromptFails, LoopReturns, SendResult
  <2>2. QED
    BY <2>1
<1>2. ASSUME NEW m \in Messages, Register(m) PROVE NoStaleQuestion'
  BY <1>2 DEF Register
<1>3. ASSUME NEW m \in Messages, Expire(m) PROVE NoStaleQuestion'
  BY <1>3 DEF Expire
<1>4. ASSUME NEW m \in Messages, Wake(m) PROVE NoStaleQuestion'
  BY <1>4 DEF Wake
<1>5. CASE Start
  BY <1>5 DEF Start, ListenersClose, AllGathered, Gather, GatherRaises
<1>6. CASE UNCHANGED talkVars
  BY <1>6 DEF talkVars
<1>7. QED
  BY <1>1, <1>2, <1>3, <1>4, <1>5, <1>6 DEF TalkNext, Step

\* A question that has ended is not registered any more, however many sessions of
\* however many users ask at once.
THEOREM NothingStaleIsRegistered == TalkSpec => []NoStaleQuestion
<1>1. TalkInit => NoStaleQuestion
  BY DEF TalkInit, NoStaleQuestion
<1>2. QED BY <1>1, TypeCorrect, QuestionStep, PTL DEF TalkSpec

-----------------------------------------------------------------------------
LEMMA AnswerStep == TypeOKTalk /\ AnswerHasOneQuestion /\ [TalkNext]_talkVars => AnswerHasOneQuestion'
<1> SUFFICES ASSUME TypeOKTalk, AnswerHasOneQuestion, [TalkNext]_talkVars PROVE AnswerHasOneQuestion'
  OBVIOUS
<1> USE ChannelAssumption DEF TypeOKTalk, AnswerHasOneQuestion, Move, askVars, mainVars
<1>1. ASSUME NEW m \in Messages, Handle(m) PROVE AnswerHasOneQuestion'
  <2>1. CASE pending[User[m]] # NoSession /\ fut[pending[User[m]]] = "open"
    <3> DEFINE asker == pending[User[m]]
    <3>1. asker \in Messages /\ User[asker] = User[m]
      BY <2>1
    <3>2. /\ sessions[m] = "queued"
          /\ answers' = [answers EXCEPT ![asker] = answers[asker] \cup {m}]
          /\ sessions' = [sessions EXCEPT ![m] = "reply"]
      BY <1>1, <2>1 DEF Handle
    <3>3. \A n \in Messages : m \notin answers[n]
      BY <3>2
    <3>4. \A n, x \in Messages : x \in answers'[n] <=> x \in answers[n] \/ (n = asker /\ x = m)
      BY <3>1, <3>2
    <3>5. \A x \in Messages : sessions'[x] = "reply" <=> sessions[x] = "reply" \/ x = m
      BY <3>2
    <3>6. QED
      BY <3>1, <3>3, <3>4, <3>5
  <2>2. CASE ~(pending[User[m]] # NoSession /\ fut[pending[User[m]]] = "open")
    BY <1>1, <2>2 DEF Handle
  <2>3. QED
    BY <2>1, <2>2
<1>2. ASSUME NEW m \in Messages,
             \/ Receive(m) \/ AskRefused(m) \/ AskUser(m) \/ PromptShown(m) \/ PromptFails(m)
             \/ Register(m) \/ Expire(m) \/ Wake(m) \/ LoopReturns(m) \/ SendResult(m)
      PROVE  AnswerHasOneQuestion'
  <2>1. answers' = answers
    BY <1>2 DEF Receive, AskRefused, AskUser, PromptShown, PromptFails, Register, Expire,
       Wake, LoopReturns, SendResult
  <2>2. \A x \in Messages : sessions'[x] = "reply" <=> sessions[x] = "reply"
    BY <1>2 DEF Receive, AskRefused, AskUser, PromptShown, PromptFails, Register, Expire,
       Wake, LoopReturns, SendResult
  <2>3. QED
    BY <2>1, <2>2
<1>3. CASE Start
  BY <1>3 DEF Start, ListenersClose, AllGathered, Gather, GatherRaises, InFlight,
     InFlightStates
<1>4. CASE UNCHANGED talkVars
  BY <1>4 DEF talkVars
<1>5. QED
  BY <1>1, <1>2, <1>3, <1>4 DEF TalkNext, Step

\* A message is an answer to one question of its own user or a session, never both
\* and never twice.
THEOREM AnswersMatchQuestions == TalkSpec => []AnswerHasOneQuestion
<1>1. TalkInit => AnswerHasOneQuestion
  BY DEF TalkInit, AnswerHasOneQuestion
<1>2. QED BY <1>1, TypeCorrect, AnswerStep, PTL DEF TalkSpec

-----------------------------------------------------------------------------
\* Only a message that is being handled is moved on, and none is received once
\* the listeners have closed: so nothing is in flight again after start() returned.
LEMMA ReturnStep == TypeOKTalk /\ ReturnsAfterReplies /\ [TalkNext]_talkVars => ReturnsAfterReplies'
<1> SUFFICES ASSUME TypeOKTalk, ReturnsAfterReplies, [TalkNext]_talkVars PROVE ReturnsAfterReplies'
  OBVIOUS
<1> USE DEF TypeOKTalk, ReturnsAfterReplies, InFlight, InFlightStates, Move, askVars, mainVars
<1>1. ASSUME NEW m \in Messages, Receive(m) PROVE ReturnsAfterReplies'
  BY <1>1 DEF Receive
<1>2. ASSUME NEW m \in Messages, Step(m) \/ Expire(m) PROVE ReturnsAfterReplies'
  <2>1. sessions[m] \in InFlightStates /\ main' = main
    BY <1>2 DEF Step, Expire, Handle, AskRefused, AskUser, PromptShown, PromptFails, Register,
       Wake, LoopReturns, SendResult
  <2>2. QED
    BY <2>1
<1>3. CASE ListenersClose \/ AllGathered
  BY <1>3 DEF ListenersClose, AllGathered, Gather
<1>4. CASE GatherRaises
  BY <1>4 DEF GatherRaises
<1>5. CASE UNCHANGED talkVars
  BY <1>5 DEF talkVars
<1>6. QED
  BY <1>1, <1>2, <1>3, <1>4, <1>5 DEF TalkNext, Start

\* When start() returns, every message it took has been handled to its end.
THEOREM ReturnIsLast == TalkSpec => []ReturnsAfterReplies
<1>1. TalkInit => ReturnsAfterReplies
  BY DEF TalkInit, ReturnsAfterReplies
<1>2. QED BY <1>1, TypeCorrect, ReturnStep, PTL DEF TalkSpec
=============================================================================
