--------------------------- MODULE ChannelManager ---------------------------
(***************************************************************************)
(* channels/manager.py.  Every inbound message runs _handle in an asyncio  *)
(* task of its own: the message either answers the question its user has   *)
(* pending, or becomes a session, a run of the AgentLoop that can put      *)
(* questions to that user and ends by sending the result back.             *)
(***************************************************************************)
EXTENDS Naturals, FiniteSets

CONSTANTS
    Messages,  \* inbound messages; each names the session it may become
    Users,     \* (channel, user_id) origins
    User,      \* the sender of each message
    MaxAsks,   \* max_ask_user of the AgentLoop
    NoSession

ASSUME ChannelAssumption ==
    /\ User \in [Messages -> Users]
    /\ MaxAsks \in Nat
    /\ NoSession \notin Messages

VARIABLES
    sessions,  \* what became of each message
    asks,      \* questions the session has asked
    fut,       \* the future of its latest question
    expired,   \* has the timer of wait_for fired on that question?
    pending,   \* _pending: user -> the session whose future is registered
    answers,   \* the messages set on the session's futures
    shown,     \* history: the user has been shown the question being asked
    main,      \* where start() is
    awaited    \* the handlers start() gathers after the listeners closed

talkVars == <<sessions, asks, fut, expired, pending, answers, shown, main, awaited>>
askVars == <<asks, fut, expired, pending, answers, shown>>
mainVars == <<main, awaited>>

InFlightStates == {"queued", "running", "prompting", "waiting", "closing"}
Ends == {"reply", "closed", "undelivered", "killed"}
Mains == {"listening", "finishing", "returned", "raised"}

\* Types; a registered future belongs to a session of that user.
TypeOKTalk ==
    /\ sessions \in [Messages -> {"unsent"} \cup InFlightStates \cup Ends]
    /\ asks \in [Messages -> 0 .. MaxAsks]
    /\ fut \in [Messages -> {"none", "open", "set", "cancelled"}]
    /\ expired \in [Messages -> BOOLEAN]
    /\ pending \in [Users -> Messages \cup {NoSession}]
    /\ \A u \in Users : pending[u] # NoSession => User[pending[u]] = u
    /\ answers \in [Messages -> SUBSET Messages]
    /\ shown \in [Messages -> BOOLEAN]
    /\ main \in Mains
    /\ awaited \in SUBSET Messages

TalkInit ==
    /\ sessions = [m \in Messages |-> "unsent"]
    /\ asks = [m \in Messages |-> 0]
    /\ fut = [m \in Messages |-> "none"]
    /\ expired = [m \in Messages |-> FALSE]
    /\ pending = [u \in Users |-> NoSession]
    /\ answers = [m \in Messages |-> {}]
    /\ shown = [m \in Messages |-> FALSE]
    /\ main = "listening"
    /\ awaited = {}

-----------------------------------------------------------------------------
InFlight == {m \in Messages : sessions[m] \in InFlightStates}

Move(m, state) == sessions' = [sessions EXCEPT ![m] = state]

\* _drain: the channel yields a message and a task is created for it.
Receive(m) ==
    /\ main = "listening"
    /\ sessions[m] = "unsent"
    /\ Move(m, "queued")
    /\ UNCHANGED <<askVars, mainVars>>

\* (Mutant: any open question of the channel takes the message.)
HandleForAnyone(m) ==
    /\ sessions[m] = "queued"
    /\ \/ \E u \in Users :
             /\ pending[u] # NoSession
             /\ fut[pending[u]] = "open"
             /\ fut' = [fut EXCEPT ![pending[u]] = "set"]
             /\ answers' = [answers EXCEPT ![pending[u]] = @ \cup {m}]
             /\ Move(m, "reply")
       \/ /\ \A u \in Users : pending[u] = NoSession
          /\ Move(m, "running")
          /\ UNCHANGED <<fut, answers>>
    /\ UNCHANGED <<asks, expired, pending, shown, mainVars>>

\* _handle up to its first await: an answer to the registered future that is
\* still open, else a new Task.
Handle(m) ==
    /\ sessions[m] = "queued"
    /\ LET asker == pending[User[m]] IN
          IF asker # NoSession /\ fut[asker] = "open"
          THEN /\ fut' = [fut EXCEPT ![asker] = "set"]
               /\ answers' = [answers EXCEPT ![asker] = @ \cup {m}]
               /\ Move(m, "reply")
          ELSE /\ Move(m, "running")
               /\ UNCHANGED <<fut, answers>>
    /\ UNCHANGED <<asks, expired, pending, shown, mainVars>>

-----------------------------------------------------------------------------
(* ask(), called by the session's AgentLoop *)

\* A question is registered for the user already: ChannelDeliveryFailed, which
\* ends the run as incomplete.
AskRefused(m) ==
    /\ sessions[m] = "running"
    /\ asks[m] < MaxAsks
    /\ pending[User[m]] # NoSession
    /\ Move(m, "closing")
    /\ UNCHANGED <<askVars, mainVars>>

AskUser(m) ==
    /\ sessions[m] = "running"
    /\ asks[m] < MaxAsks
    /\ pending[User[m]] = NoSession
    /\ Move(m, "prompting")
    /\ asks' = [asks EXCEPT ![m] = @ + 1]
    /\ shown' = [shown EXCEPT ![m] = FALSE]
    /\ UNCHANGED <<fut, expired, pending, answers, mainVars>>

\* The channel puts the question before the user; its send() has still to return.
PromptShown(m) ==
    /\ sessions[m] = "prompting"
    /\ ~shown[m]
    /\ shown' = [shown EXCEPT ![m] = TRUE]
    /\ UNCHANGED <<sessions, asks, fut, expired, pending, answers, mainVars>>

PromptFails(m) ==
    /\ sessions[m] = "prompting"
    /\ Move(m, "closing")
    /\ UNCHANGED <<askVars, mainVars>>

\* send() returned: a new future is registered under the user, whatever is there.
Register(m) ==
    /\ sessions[m] = "prompting"
    /\ shown[m]
    /\ Move(m, "waiting")
    /\ fut' = [fut EXCEPT ![m] = "open"]
    /\ expired' = [expired EXCEPT ![m] = FALSE]
    /\ pending' = [pending EXCEPT ![User[m]] = m]
    /\ UNCHANGED <<asks, answers, shown, mainVars>>

\* (Mutant: one timer goes over the registered questions only.)
ExpireRegistered(m) ==
    /\ sessions[m] = "waiting"
    /\ pending[User[m]] = m
    /\ ~expired[m]
    /\ expired' = [expired EXCEPT ![m] = TRUE]
    /\ fut' = [fut EXCEPT ![m] = IF @ = "open" THEN "cancelled" ELSE @]
    /\ UNCHANGED <<sessions, asks, pending, answers, shown, mainVars>>

\* The timer of wait_for cancels the session's task: that cancels an open future;
\* with an answer already set, the cancellation waits for the task to wake.
Expire(m) ==
    /\ sessions[m] = "waiting"
    /\ ~expired[m]
    /\ expired' = [expired EXCEPT ![m] = TRUE]
    /\ fut' = [fut EXCEPT ![m] = IF @ = "open" THEN "cancelled" ELSE @]
    /\ UNCHANGED <<sessions, asks, pending, answers, shown, mainVars>>

\* (Mutant: the entry is popped after an answer only, not in a finally.)
WakeWithoutFinally(m) ==
    /\ sessions[m] = "waiting"
    /\ fut[m] # "open"
    /\ IF expired[m]
          THEN /\ Move(m, "closing")
               /\ UNCHANGED pending
          ELSE /\ Move(m, "running")
               /\ pending' = [pending EXCEPT ![User[m]] = NoSession]
    /\ UNCHANGED <<asks, fut, expired, answers, shown, mainVars>>

\* The task wakes: the entry of its user is popped, and ask() returns the answer,
\* or raises TimeoutError, which ends the run as incomplete.
Wake(m) ==
    /\ sessions[m] = "waiting"
    /\ fut[m] # "open"
    /\ pending' = [pending EXCEPT ![User[m]] = NoSession]
    /\ Move(m, IF expired[m] THEN "closing" ELSE "running")
    /\ UNCHANGED <<asks, fut, expired, answers, shown, mainVars>>

\* The AgentLoop returns or raises; either way the user gets a message.
LoopReturns(m) ==
    /\ sessions[m] = "running"
    /\ Move(m, "closing")
    /\ UNCHANGED <<askVars, mainVars>>

\* channel.send of the result; a delivery failure ends the task as an exception.
SendResult(m) ==
    /\ sessions[m] = "closing"
    /\ \E end \in {"closed", "undelivered"} : Move(m, end)
    /\ UNCHANGED <<askVars, mainVars>>

-----------------------------------------------------------------------------
(* start() *)

\* (Mutant: start() returns with its listeners.)
GatherNothing ==
    /\ main' = "returned"
    /\ awaited' = {}
    /\ UNCHANGED <<sessions, askVars>>

\* Every listener has ended: wait for the handlers that are left.
Gather ==
    /\ main' = IF InFlight = {} THEN "returned" ELSE "finishing"
    /\ awaited' = InFlight
    /\ UNCHANGED <<sessions, askVars>>

ListenersClose == main = "listening" /\ Gather

AllGathered ==
    /\ main = "finishing"
    /\ awaited \cap InFlight = {}
    /\ \A m \in awaited : sessions[m] # "undelivered"
    /\ Gather

\* gather re-raises the first exception; the handlers that are left are cancelled
\* as the process goes down, their questions unregistered on the way.
GatherRaises ==
    /\ main = "finishing"
    /\ \E m \in awaited : sessions[m] = "undelivered"
    /\ main' = "raised"
    /\ sessions' = [m \in Messages |-> IF m \in InFlight THEN "killed" ELSE sessions[m]]
    /\ pending' = [u \in Users |-> NoSession]
    /\ UNCHANGED <<asks, fut, expired, answers, shown, awaited>>

-----------------------------------------------------------------------------
Step(m) ==
    \/ Handle(m)
    \/ AskRefused(m)
    \/ AskUser(m)
    \/ PromptShown(m)
    \/ PromptFails(m)
    \/ Register(m)
    \/ Wake(m)
    \/ LoopReturns(m)
    \/ SendResult(m)

Start == ListenersClose \/ AllGathered \/ GatherRaises

TalkNext ==
    \/ \E m \in Messages : Receive(m) \/ Step(m) \/ Expire(m)
    \/ Start

TalkSpec == TalkInit /\ [][TalkNext]_talkVars

\* The event loop runs what is ready, sends come back, a run asks or ends, and the
\* timer of a question fires.  Users need not write, nor listeners close.
TalkFairSpec ==
    /\ TalkSpec
    /\ \A m \in Messages : WF_talkVars(Step(m)) /\ WF_talkVars(Expire(m))

-----------------------------------------------------------------------------
(* Properties *)

\* A message that was taken for an answer went to exactly one question, of its
\* own user, and no session was started for it.
AnswerHasOneQuestion ==
    \A x \in Messages :
        LET askers == {m \in Messages : x \in answers[m]} IN
            /\ askers # {} <=> sessions[x] = "reply"
            /\ \A m, n \in askers : m = n
            /\ \A m \in askers : User[m] = User[x]

\* What is registered is a question somebody still waits on: one that was
\* answered or timed out neither takes a later message for its answer nor keeps
\* the user from being asked again.
NoStaleQuestion ==
    \A u \in Users : pending[u] # NoSession => sessions[pending[u]] = "waiting"

\* manager.py:57: start() does not return over an undelivered response.
ReturnsAfterReplies == main = "returned" => InFlight = {}

\* Every message is dealt with: its session ends, with an answered or an
\* unanswered question, though the user never writes again.
EveryMessageHandled ==
    \A m \in Messages : (sessions[m] = "queued") ~> (sessions[m] \in Ends)

(* What the source says of a round trip, checked as it stands. *)

\* manager.py:9: while a session waits for its user's answer, "the *next* inbound
\* message from that same (channel, user_id) is routed to the waiting reply
\* instead of starting a new Task".
NextMessageIsTheReply ==
    [][\A m, asker \in Messages :
          /\ User[m] = User[asker]
          /\ sessions[asker] = "waiting" /\ fut[asker] = "open"
          => ~(sessions[m] = "queued" /\ sessions'[m] = "running")]_talkVars
=============================================================================
