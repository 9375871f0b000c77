--------------------------- MODULE ServicesProofs ---------------------------
(***************************************************************************)
(* Proofs about the components around the agent loop that share no state:  *)
(* the clocks over a verb call, a remote call, the event bus, the channels *)
(* with a network behind them, and the scaffold of plans and reflections,  *)
(* for every value of the constants.                                       *)
(***************************************************************************)
EXTENDS VerbDeadlines, McpCalls, EventBus, ChannelWires, Scaffold,
        FiniteSetTheorems, SequenceTheorems, WellFoundedInduction, TLAPS

-----------------------------------------------------------------------------
(* The order of the deadlines *)

\* Before its request is written a call has no time of it; a read lasts no longer
\* than its timeout; and each timer that ended the call had run its time.
ClockInv ==
    /\ phase \in DOMAIN After => wroteAt = Unset
    /\ phase = "read" => Written /\ wroteAt + spent <= elapsed /\ spent <= ReadDeadline
    /\ readFired => Written /\ elapsed >= wroteAt + ReadDeadline
    /\ phase \in {"aborting", "timedOut"} => readFired
    /\ phase = "cut" => elapsed - inside = BaseS
    /\ phase = "backstop" =>
           elapsed = BackstopDeadline /\ (Written /\ ~readFired => spent <= ReadDeadline)

DeadlinesInv == TypeOKDeadlines /\ ClockInv

LEMMA DeadlineFacts ==
    ASSUME TypeOKDeadlines
    PROVE  /\ ReadDeadline \in Nat /\ BackstopDeadline \in Int
           /\ Explicit => /\ budget \in Int
                          /\ ReadDeadline = budget + VerbMarginS
                          /\ BackstopDeadline >= budget + BackstopMarginS
BY DeadlineAssumption
   DEF TypeOKDeadlines, ReadDeadline, BackstopDeadline, Explicit

\* Both deadlines are those of the budget, which no step changes.
LEMMA DeadlinesStand ==
    ASSUME budget' = budget
    PROVE  ReadDeadline' = ReadDeadline /\ BackstopDeadline' = BackstopDeadline
BY DEF ReadDeadline, BackstopDeadline, Explicit

LEMMA WayOfTheCall ==
    /\ DOMAIN After = {"around", "inside", "pool", "connect", "write"}
    /\ After["around"] = "inside" /\ After["inside"] = "pool" /\ After["pool"] = "connect"
    /\ After["connect"] = "write" /\ After["write"] = "read"
BY DEF After

LEMMA DeadlinesInvInit == DeadlineInit => DeadlinesInv
<1> SUFFICES ASSUME DeadlineInit PROVE DeadlinesInv
  OBVIOUS
<1>1. TypeOKDeadlines
  <2>1. "around" \in Phases
    BY WayOfTheCall DEF Phases, Active
  <2>2. 0 \in Nat /\ 0 \in 0 .. 0
    OBVIOUS
  <2>3. QED
    BY <2>1, <2>2 DEF DeadlineInit, TypeOKDeadlines
<1>2. QED
  BY <1>1 DEF DeadlineInit, DeadlinesInv, ClockInv

LEMMA DeadlinesInvStep == DeadlinesInv /\ [DeadlineNext]_deadlineVars => DeadlinesInv'
<1> SUFFICES ASSUME DeadlinesInv, [DeadlineNext]_deadlineVars PROVE DeadlinesInv'
  OBVIOUS
<1>1. /\ elapsed \in Nat /\ inside \in 0 .. elapsed /\ spent \in 0 .. elapsed
      /\ wroteAt \in 0 .. elapsed \cup {Unset} /\ BaseS \in Nat
      /\ ReadDeadline \in Nat /\ BackstopDeadline \in Int
  BY DeadlineAssumption, DeadlineFacts DEF DeadlinesInv, TypeOKDeadlines
<1>2. Unset \notin Int
  BY DeadlineAssumption
<1>3. budget' = budget /\ stack' = stack
  BY DEF DeadlineNext, Timer, Advance, AnswerBegins, EndsAs, Verdict, Offline, ReadTimeout,
     AbortReturns, LayerTimeout, Backstop, TimePasses, deadlineVars
<1>4. ReadDeadline' = ReadDeadline /\ BackstopDeadline' = BackstopDeadline
  BY <1>3, DeadlinesStand
<1>5. CASE Advance
  <2>1. /\ phase \in DOMAIN After /\ phase' = After[phase] /\ spent' = 0
        /\ elapsed' = elapsed /\ readFired' = readFired
        /\ inside' \in {elapsed, inside}
        /\ wroteAt' = IF phase = "write" THEN elapsed ELSE wroteAt
    BY <1>5 DEF Advance
  <2>2. phase' \in {"inside", "pool", "connect", "write", "read"}
        /\ (phase' = "read" <=> phase = "write")
    BY <2>1, WayOfTheCall
  <2>3. TypeOKDeadlines'
    BY <1>1, <1>3, <2>1, <2>2, WayOfTheCall DEF DeadlinesInv, TypeOKDeadlines, Phases, Active
  <2>4. wroteAt = Unset /\ ~readFired
    BY <2>1 DEF DeadlinesInv, ClockInv, Written
  <2>5. ClockInv'
    <3>1. phase' \in DOMAIN After => wroteAt' = Unset
      BY <2>1, <2>2, <2>4, WayOfTheCall
    <3>2. phase' = "read" =>
              Written' /\ wroteAt' + spent' <= elapsed' /\ spent' <= ReadDeadline'
      BY <1>1, <1>2, <1>4, <2>1, <2>2 DEF Written
    <3>3. QED
      BY <2>1, <2>2, <2>4, <3>1, <3>2 DEF ClockInv
  <2>6. QED
    BY <2>3, <2>5 DEF DeadlinesInv
<1>6. CASE AnswerBegins
  BY <1>1, <1>3, <1>4, <1>6, SMTT(30)
     DEF AnswerBegins, DeadlinesInv, TypeOKDeadlines, ClockInv, Written
<1>7. ASSUME NEW how \in {"answered", "offline", "timedOut", "cut", "backstop"}, EndsAs(how),
             how = "timedOut" => phase = "aborting",
             how = "cut" => elapsed - inside = BaseS,
             how = "backstop" => phase \in Active /\ elapsed = BackstopDeadline
      PROVE  DeadlinesInv'
  <2>1. /\ phase' = how
        /\ UNCHANGED <<elapsed, inside, wroteAt, spent, readFired>>
    BY <1>7 DEF EndsAs
  <2>2. TypeOKDeadlines'
    BY <1>3, <2>1 DEF DeadlinesInv, TypeOKDeadlines, Phases, GivenUp
  <2>3. how = "backstop" /\ Written /\ ~readFired => spent <= ReadDeadline
    BY <1>7, WayOfTheCall DEF DeadlinesInv, ClockInv, Active, Written
  <2>4. ClockInv'
    BY <1>4, <1>7, <2>1, <2>3, WayOfTheCall DEF DeadlinesInv, ClockInv, Written
  <2>5. QED
    BY <2>2, <2>4 DEF DeadlinesInv
<1>8. CASE Verdict \/ Offline \/ AbortReturns \/ LayerTimeout \/ Backstop
  BY <1>7, <1>8 DEF Verdict, Offline, AbortReturns, LayerTimeout, Backstop
<1>9. CASE ReadTimeout
  <2>1. /\ phase = "read" /\ spent = ReadDeadline /\ phase' = "aborting"
        /\ spent' = 0 /\ readFired' = TRUE /\ UNCHANGED <<elapsed, inside, wroteAt>>
    BY <1>9 DEF ReadTimeout
  <2>2. Written /\ elapsed >= wroteAt + ReadDeadline
    BY <1>1, <1>2, <2>1 DEF DeadlinesInv, ClockInv, Written
  <2>3. TypeOKDeadlines'
    BY <1>1, <1>3, <2>1 DEF DeadlinesInv, TypeOKDeadlines, Phases, Active
  <2>4. QED
    BY <1>4, <2>1, <2>2, <2>3, WayOfTheCall DEF DeadlinesInv, ClockInv, Written
<1>10. CASE TimePasses
  <2>1. /\ phase \in Active /\ spent < MayTake
        /\ elapsed' = elapsed + 1 /\ spent' = spent + 1
        /\ UNCHANGED <<inside, wroteAt, phase, readFired>>
    BY <1>10 DEF TimePasses
  <2>2. TypeOKDeadlines'
    <3>1. elapsed' \in Nat /\ inside' \in 0 .. elapsed' /\ spent' \in 0 .. elapsed'
      BY <1>1, <2>1
    <3>2. wroteAt' \in 0 .. elapsed' \cup {Unset}
      BY <1>1, <2>1
    <3>3. QED
      BY <1>3, <2>1, <3>1, <3>2 DEF DeadlinesInv, TypeOKDeadlines
  <2>3. phase = "read" =>
            Written /\ wroteAt + (spent + 1) <= elapsed + 1 /\ spent + 1 <= ReadDeadline
    <3>1. phase = "read" => spent < ReadDeadline /\ Written /\ wroteAt + spent <= elapsed
      BY <2>1 DEF MayTake, DeadlinesInv, ClockInv
    <3>2. Written => wroteAt \in Nat
      BY <1>1 DEF Written
    <3>3. QED
      BY <1>1, <3>1, <3>2
  <2>4. readFired => Written /\ elapsed + 1 >= wroteAt + ReadDeadline
    <3>1. readFired => Written /\ elapsed >= wroteAt + ReadDeadline
      BY DEF DeadlinesInv, ClockInv
    <3>2. Written => wroteAt \in Nat
      BY <1>1 DEF Written
    <3>3. QED
      BY <1>1, <3>1, <3>2
  <2>5. phase \notin {"timedOut", "cut", "backstop"}
    BY <2>1, WayOfTheCall DEF Active
  <2>6. ClockInv'
    BY <1>4, <2>1, <2>3, <2>4, <2>5 DEF DeadlinesInv, ClockInv, Written
  <2>7. QED
    BY <2>2, <2>6 DEF DeadlinesInv
<1>11. CASE UNCHANGED deadlineVars
  BY <1>4, <1>11 DEF deadlineVars, DeadlinesInv, TypeOKDeadlines, ClockInv, Written
<1>12. QED
  BY <1>5, <1>6, <1>8, <1>9, <1>10, <1>11 DEF DeadlineNext, Timer

\* The clocks of a verb call keep their types, and none runs ahead of the call's
\* own, for every chain and every configuration.
THEOREM DeadlinesTypeCorrect == DeadlineSpec => []TypeOKDeadlines
<1>1. DeadlinesInv => TypeOKDeadlines
  BY DEF DeadlinesInv
<1>2. QED BY DeadlinesInvInit, DeadlinesInvStep, <1>1, PTL DEF DeadlineSpec

\* The margin of the backstop being the larger one: where it ends a verb that
\* the robot has, the last read of the client began later than the two differ.
THEOREM ClientComesFirst == DeadlineSpec => []ClientGivesUpFirst
<1>1. DeadlinesInv => ClientGivesUpFirst
  BY DeadlineAssumption, DeadlineFacts
     DEF DeadlinesInv, TypeOKDeadlines, ClockInv, ClientGivesUpFirst
<1>2. QED BY DeadlinesInvInit, DeadlinesInvStep, <1>1, PTL DEF DeadlineSpec

\* For every chain, budget and default, a verb is given up before its budget is
\* over by a timeout layer or by the backstop only, and by each only in the case
\* the property names.
THEOREM BudgetIsKept == DeadlineSpec => []GrantedTimeIsKept
<1>1. DeadlinesInv => GrantedTimeIsKept
  <2> SUFFICES ASSUME DeadlinesInv, phase \in GivenUp, Explicit, Written,
                      elapsed - wroteAt < budget
               PROVE  \/ phase = "cut" /\ wroteAt - inside + budget > BaseS
                      \/ phase = "backstop" /\ wroteAt > BackstopMarginS
    BY DEF GrantedTimeIsKept
  <2>1. /\ elapsed \in Nat /\ wroteAt \in Nat /\ inside \in Nat /\ budget \in Int
        /\ {BaseS, VerbMarginS, BackstopMarginS} \subseteq Nat
        /\ ReadDeadline = budget + VerbMarginS
        /\ BackstopDeadline \in Int /\ BackstopDeadline >= budget + BackstopMarginS
    BY DeadlineAssumption, DeadlineFacts DEF DeadlinesInv, TypeOKDeadlines, Written
  <2>2. CASE phase = "timedOut"
    BY <2>1, <2>2 DEF DeadlinesInv, ClockInv
  <2>3. CASE phase = "cut"
    BY <2>1, <2>3 DEF DeadlinesInv, ClockInv
  <2>4. CASE phase = "backstop"
    BY <2>1, <2>4 DEF DeadlinesInv, ClockInv
  <2>5. QED
    BY <2>2, <2>3, <2>4 DEF GivenUp
<1>2. QED BY DeadlinesInvInit, DeadlinesInvStep, <1>1, PTL DEF DeadlineSpec

-----------------------------------------------------------------------------
(* Remote calls *)

Answers == {"output"} \cup Refusals \cup Failures

Sessions ==
    [at : {"idle", "opening", "shaking", "calling", "listing", "done"},
     url : McpUrls \cup {"none"},
     tool : McpTools \cup {"verify", "none"},
     told : {"none", "ok", "unreachable", "timeout", "cancelled", "compatible"}
              \cup Refusals \cup Failures]

McpTypes ==
    /\ mcpCatalog \in McpCatalogs
    /\ session \in [McpCallIds -> Sessions]
    /\ serving \in [McpCallIds -> {"none", "asked", "running", "killed"} \cup Answers]
    /\ held \subseteq McpCallIds /\ passed \subseteq ran /\ ran \subseteq McpCallIds

\* What the server has done for a call, by where its handler is.
ServerInv(c) ==
    /\ serving[c] \in {"none", "asked"} \cup Refusals => c \notin ran
    /\ serving[c] \in {"running", "output"} => c \in ran
    /\ serving[c] \in Failures =>
           c \in ran \/ (session[c].tool \in McpHardware /\ serving[c] \in {"fault", "exception"})
    /\ c \in ran /\ session[c].tool \in McpHardware => c \in passed

\* What a session holds and says, by where its coroutine is.  The server is
\* asked by a call alone, and an answer that was told stays the handler's last.
ClientInv(c) ==
    /\ session[c].at \notin {"calling", "done"} => serving[c] = "none"
    /\ ~McpAt(c, "done") => session[c].told = "none"
    /\ c \in held => McpInSession(c) \/ (session[c].told = "cancelled" /\ serving[c] = "none")
    /\ session[c].told = "ok" => serving[c] = "output"
    /\ session[c].told \in Refusals \cup Failures => serving[c] = session[c].told
    /\ session[c].told = "compatible" => McpExpected \subseteq mcpCatalog
    /\ McpAt(c, "done") /\ session[c].url = "stdio" /\ c \notin held
           => serving[c] \notin {"asked", "running"}

McpInv == McpTypes /\ \A c \in McpCallIds : ServerInv(c) /\ ClientInv(c)

\* What the invariant says of the properties the run checks.
LEMMA McpInvIsHonest == McpInv => McpCallsAreHonest
<1> SUFFICES ASSUME McpInv PROVE McpCallsAreHonest
  OBVIOUS
<1>1. TypeOKMcp
  BY DEF McpInv, McpTypes, TypeOKMcp, Sessions, Answers
<1>2. McpSessionsClose
  BY DEF McpInv, McpTypes, ClientInv, McpSessionsClose
<1>3. McpToldTrue
  <2> SUFFICES ASSUME NEW c \in McpCallIds
               PROVE  /\ c \in ran /\ session[c].tool \in McpHardware => c \in passed
                      /\ session[c].told = "ok" => c \in ran /\ serving[c] = "output"
                      /\ session[c].told \in Refusals => c \notin ran
                      /\ session[c].told \in Failures =>
                             c \in ran \/ (session[c].tool \in McpHardware
                                           /\ session[c].told \in {"fault", "exception"})
                      /\ session[c].told = "compatible" => McpExpected \subseteq mcpCatalog
                      /\ McpAt(c, "done") /\ session[c].url = "stdio" /\ c \notin held
                             => serving[c] \notin {"asked", "running"}
    BY DEF McpToldTrue
  <2> QED
    BY DEF McpInv, ServerInv, ClientInv
<1> QED
  BY <1>1, <1>2, <1>3 DEF McpCallsAreHonest

\* A step of one call leaves the facts about every other call alone.
LEMMA McpOthersKept ==
    ASSUME McpInv, NEW c \in McpCallIds, NEW d \in McpCallIds, d # c,
           session'[d] = session[d], serving'[d] = serving[d],
           d \in held' <=> d \in held, d \in ran' <=> d \in ran,
           d \in passed' <=> d \in passed, mcpCatalog' = mcpCatalog
    PROVE  ServerInv(d)' /\ ClientInv(d)'
<1> QED
  BY DEF McpInv, ServerInv, ClientInv, McpAt, McpInSession

LEMMA McpInvInit == McpInit => McpInv
<1> SUFFICES ASSUME McpInit PROVE McpInv
  OBVIOUS
<1>1. McpTypes
  BY DEF McpInit, McpTypes, Sessions, Answers
<1>2. \A c \in McpCallIds : ServerInv(c) /\ ClientInv(c)
  BY DEF McpInit, ServerInv, ClientInv, McpAt, Refusals, Failures
<1>3. QED
  BY <1>1, <1>2 DEF McpInv

\* What becomes of the handler when the client leaves.
LEMMA McpPeerTypes ==
    ASSUME McpInv, NEW c \in McpCallIds, McpPeer(c)
    PROVE  /\ serving' \in [McpCallIds -> {"none", "asked", "running", "killed"} \cup Answers]
           /\ \A d \in McpCallIds \ {c} : serving'[d] = serving[d]
           /\ serving'[c] = serving[c] \/ serving'[c] = "killed"
           /\ serving[c] \notin {"asked", "running"} => serving'[c] = serving[c]
           /\ serving'[c] \in {"asked", "running"} => session[c].url = "http"
<1> QED
  BY DEF McpInv, McpTypes, McpPeer

\* To tell a call how it ended keeps the types of the sessions.
LEMMA McpToldTypes ==
    ASSUME session \in [McpCallIds -> Sessions], NEW c \in McpCallIds,
           NEW what \in {"unreachable", "timeout", "cancelled", "compatible", "ok"}
                           \cup Refusals \cup Failures,
           McpTold(c, what)
    PROVE  session' \in [McpCallIds -> Sessions]
<1>1. session[c] \in Sessions
  OBVIOUS
<1>2. [session[c] EXCEPT !.at = "done", !.told = what] \in Sessions
  BY <1>1 DEF Sessions
<1>3. QED
  BY <1>2 DEF McpTold

\* A call that ends by closing its session, whatever it tells its caller.
LEMMA McpClosedAndTold ==
    ASSUME McpInv, NEW c \in McpCallIds, McpInSession(c), McpClose(c),
           NEW what \in {"unreachable", "timeout", "cancelled", "compatible", "ok"}
                           \cup Refusals \cup Failures,
           McpTold(c, what),
           what = "ok" => serving[c] = "output",
           what \in Refusals \cup Failures => serving[c] = what,
           what = "compatible" => McpExpected \subseteq mcpCatalog,
           UNCHANGED <<mcpCatalog, passed, ran>>
    PROVE  McpInv'
<1> USE DEF Refusals, Failures
<1>1. McpTypes'
  BY McpPeerTypes, McpToldTypes DEF McpInv, McpTypes, McpClose
<1>2. ASSUME NEW d \in McpCallIds, d # c PROVE ServerInv(d)' /\ ClientInv(d)'
  BY <1>2, McpPeerTypes, McpOthersKept DEF McpInv, McpTypes, McpTold, McpClose
<1>3. session'[c] = [session[c] EXCEPT !.at = "done", !.told = what] /\ c \notin held'
  BY DEF McpTold, McpClose, McpInv, McpTypes
<1>4. session'[c].at = "done" /\ session'[c].told = what
        /\ session'[c].tool = session[c].tool /\ session'[c].url = session[c].url
  BY <1>3 DEF McpInv, McpTypes, Sessions
<1>5. ServerInv(c)'
  BY <1>4, McpPeerTypes DEF McpInv, McpTypes, ServerInv, McpClose
<1>6. ClientInv(c)'
  BY <1>3, <1>4, McpPeerTypes DEF McpInv, McpTypes, ClientInv, McpAt, McpClose
<1>7. QED
  BY <1>1, <1>2, <1>5, <1>6 DEF McpInv

LEMMA McpInvStep == McpInv /\ [McpNext]_mcpVars => McpInv'
<1> SUFFICES ASSUME McpInv, [McpNext]_mcpVars PROVE McpInv'
  OBVIOUS
<1> USE DEF Refusals, Failures
<1>1. ASSUME NEW c \in McpCallIds, NEW tool \in McpTools \cup {"verify"},
             NEW url \in McpUrls, NEW cancelled \in BOOLEAN,
             McpInvoke(c, tool, url, cancelled)
      PROVE  McpInv'
  <2>1. McpTypes'
    BY <1>1 DEF McpInv, McpTypes, Sessions, McpInvoke
  <2>2. ASSUME NEW d \in McpCallIds, d # c PROVE ServerInv(d)' /\ ClientInv(d)'
    BY <1>1, <2>2, McpOthersKept DEF McpInv, McpTypes, McpInvoke
  <2>3. ServerInv(c)' /\ ClientInv(c)'
    BY <1>1 DEF McpInv, McpTypes, McpInvoke, McpAt, McpInSession, ServerInv, ClientInv
  <2>4. QED
    BY <2>1, <2>2, <2>3 DEF McpInv
<1>2. ASSUME NEW c \in McpCallIds, McpOpen(c) PROVE McpInv'
  <2>1. McpTypes'
    BY <1>2 DEF McpInv, McpTypes, Sessions, McpOpen, McpGoes
  <2>2. ASSUME NEW d \in McpCallIds, d # c PROVE ServerInv(d)' /\ ClientInv(d)'
    BY <1>2, <2>2, McpOthersKept DEF McpInv, McpTypes, McpOpen, McpGoes
  <2>3. ServerInv(c)' /\ ClientInv(c)'
    BY <1>2 DEF McpInv, McpTypes, Sessions, McpOpen, McpGoes, McpAt, McpInSession,
                ServerInv, ClientInv
  <2>4. QED
    BY <2>1, <2>2, <2>3 DEF McpInv
<1>3. ASSUME NEW c \in McpCallIds, McpUnopened(c) PROVE McpInv'
  <2>1. McpTypes'
    BY <1>3, McpToldTypes DEF McpInv, McpTypes, McpUnopened
  <2>2. ASSUME NEW d \in McpCallIds, d # c PROVE ServerInv(d)' /\ ClientInv(d)'
    BY <1>3, <2>2, McpOthersKept DEF McpInv, McpTypes, McpUnopened, McpTold
  <2>3. ServerInv(c)' /\ ClientInv(c)'
    BY <1>3 DEF McpInv, McpTypes, Sessions, McpUnopened, McpTold, McpAt, McpInSession,
                ServerInv, ClientInv
  <2>4. QED
    BY <2>1, <2>2, <2>3 DEF McpInv
<1>4. ASSUME NEW c \in McpCallIds, McpShake(c) PROVE McpInv'
  <2>1. McpTypes'
    BY <1>4 DEF McpInv, McpTypes, Sessions, McpShake, McpGoes
  <2>2. ASSUME NEW d \in McpCallIds, d # c PROVE ServerInv(d)' /\ ClientInv(d)'
    BY <1>4, <2>2, McpOthersKept DEF McpInv, McpTypes, McpShake, McpGoes
  <2>3. ServerInv(c)' /\ ClientInv(c)'
    BY <1>4 DEF McpInv, McpTypes, Sessions, McpShake, McpGoes, McpAt, McpInSession,
                ServerInv, ClientInv
  <2>4. QED
    BY <2>1, <2>2, <2>3 DEF McpInv
<1>5. ASSUME NEW c \in McpCallIds, McpBroken(c) PROVE McpInv'
  BY <1>5, McpClosedAndTold DEF McpBroken
<1>6. ASSUME NEW c \in McpCallIds, McpTimeout(c) PROVE McpInv'
  BY <1>6, McpClosedAndTold DEF McpTimeout, McpTimed, McpInSession, McpAt
<1>7. ASSUME NEW c \in McpCallIds, McpAnswered(c) PROVE McpInv'
  BY <1>7, McpClosedAndTold DEF McpAnswered, McpMarshalled, McpInSession, McpAt
<1>8. ASSUME NEW c \in McpCallIds, McpListed(c) PROVE McpInv'
  BY <1>8, McpClosedAndTold DEF McpListed, McpVisible, McpInSession, McpAt
<1>9. ASSUME NEW c \in McpCallIds, McpCancel(c) PROVE McpInv'
  <2>1. CASE McpAt(c, "calling") \/ McpAt(c, "listing")
    BY <1>9, <2>1, McpClosedAndTold DEF McpCancel, McpInSession, McpAt
  <2>2. CASE ~(McpAt(c, "calling") \/ McpAt(c, "listing"))
    <3>1. McpTypes'
      BY <1>9, <2>2, McpToldTypes DEF McpInv, McpTypes, McpCancel
    <3>2. ASSUME NEW d \in McpCallIds, d # c PROVE ServerInv(d)' /\ ClientInv(d)'
      BY <1>9, <2>2, <3>2, McpOthersKept DEF McpInv, McpTypes, McpCancel, McpTold
    <3>3. ServerInv(c)' /\ ClientInv(c)'
      BY <1>9, <2>2 DEF McpInv, McpTypes, Sessions, McpCancel, McpTold, McpAt,
                        McpInSession, ServerInv, ClientInv
    <3>4. QED
      BY <3>1, <3>2, <3>3 DEF McpInv
  <2>3. QED
    BY <2>1, <2>2
<1>10. ASSUME NEW c \in McpCallIds, McpFinalize(c) PROVE McpInv'
  <2>1. serving[c] = "none" /\ serving' = serving
    BY <1>10 DEF McpInv, ClientInv, McpFinalize, McpAt, McpInSession, McpPeer
  <2>2. McpTypes'
    BY <1>10, <2>1 DEF McpInv, McpTypes, McpFinalize
  <2>3. ASSUME NEW d \in McpCallIds, d # c PROVE ServerInv(d)' /\ ClientInv(d)'
    BY <1>10, <2>1, <2>3, McpOthersKept DEF McpFinalize
  <2>4. ServerInv(c)' /\ ClientInv(c)'
    BY <1>10, <2>1 DEF McpInv, McpTypes, McpFinalize, McpAt, McpInSession, ServerInv, ClientInv
  <2>5. QED
    BY <2>2, <2>3, <2>4 DEF McpInv
<1>11. ASSUME NEW c \in McpCallIds, McpHandle(c) PROVE McpInv'
  <2>1. McpTypes'
    BY <1>11 DEF McpInv, McpTypes, Answers, McpHandle, McpGateAnswers
  <2>2. ASSUME NEW d \in McpCallIds, d # c PROVE ServerInv(d)' /\ ClientInv(d)'
    BY <1>11, <2>2, McpOthersKept DEF McpInv, McpTypes, McpHandle
  <2>3. ServerInv(c)' /\ ClientInv(c)'
    BY <1>11 DEF McpInv, McpTypes, McpHandle, McpGated, McpGateAnswers, McpAt,
                 McpInSession, ServerInv, ClientInv
  <2>4. QED
    BY <2>1, <2>2, <2>3 DEF McpInv
<1>12. ASSUME NEW c \in McpCallIds, McpRan(c) PROVE McpInv'
  <2>1. McpTypes'
    BY <1>12 DEF McpInv, McpTypes, Answers, McpRan
  <2>2. ASSUME NEW d \in McpCallIds, d # c PROVE ServerInv(d)' /\ ClientInv(d)'
    BY <1>12, <2>2, McpOthersKept DEF McpInv, McpTypes, McpRan
  <2>3. ServerInv(c)' /\ ClientInv(c)'
    BY <1>12 DEF McpInv, McpTypes, McpRan, McpAt, McpInSession, ServerInv, ClientInv
  <2>4. QED
    BY <2>1, <2>2, <2>3 DEF McpInv
<1>13. CASE UNCHANGED mcpVars
  BY <1>13 DEF mcpVars, McpInv, McpTypes, ServerInv, ClientInv, McpAt, McpInSession
<1>14. QED
  BY <1>1, <1>2, <1>3, <1>4, <1>5, <1>6, <1>7, <1>8, <1>9, <1>10, <1>11, <1>12, <1>13
     DEF McpNext

\* Whatever calls, cancellations and losses meet, in whatever number: no session is
\* left behind, and what a caller is told of a remote call is what happened to it.
THEOREM RemoteCallsAreHonest == McpSpec => []McpCallsAreHonest
<1>1. McpSpec => []McpInv
  BY McpInvInit, McpInvStep, PTL DEF McpSpec
<1>2. QED
  BY <1>1, McpInvIsHonest, PTL

-----------------------------------------------------------------------------
(* The event bus and the heartbeat *)

BusTypes ==
    /\ busLoop \in {"off", "waiting", "handling"} /\ busRunning \in BOOLEAN
    /\ published \in 0 .. MaxEvents
    /\ busQueue \in Seq(Nat) /\ Len(busQueue) <= published
    /\ handlers \in Seq(Handlers) /\ busNext \in 0 .. Len(handlers) + 1
    /\ handledBy \in [Handlers -> Seq(Nat)] /\ since \in [Handlers -> Nat]

\* The queue holds the newest events, and nobody subscribes twice.
BusOrder ==
    /\ \A k \in DOMAIN busQueue : busQueue[k] = published - Len(busQueue) + k
    /\ \A i, j \in DOMAIN handlers : handlers[i] = handlers[j] => i = j
    /\ busLoop = "handling" => busQueue # <<>> /\ busNext >= 1

\* A handler has been called with every event taken since it subscribed, the one
\* being handled included if its turn has come.
Begun(i) == IF busLoop = "handling" /\ i < busNext THEN 1 ELSE 0
CalledOnce(i) ==
    LET h == handlers[i] IN
    /\ since[h] <= published - Len(busQueue)
    /\ handledBy[h] = [k \in 1 .. published - Len(busQueue) + Begun(i) - since[h]
                           |-> since[h] + k]

\* A loop that waits was not asked to stop before its last look at the flag.
LateInv ==
    /\ late \in {0, 1} /\ (busLoop = "waiting" => late = 0) /\ (late = 1 => ~busRunning)
    /\ heart \in [asleep : BOOLEAN, running : BOOLEAN, late : {0, 1}]
    /\ heart.asleep => heart.late = 0

BusInv ==
    /\ BusTypes /\ BusOrder /\ LateInv
    /\ \A i \in DOMAIN handlers : CalledOnce(i)
    /\ \A h \in Handlers : h \notin ToSet(handlers) => handledBy[h] = <<>>

LEMMA BusInvHandles == BusInv => EventsAreHandled
<1> SUFFICES ASSUME BusInv PROVE EventsAreHandled
  OBVIOUS
<1>1. TypeOKBus
  <2>1. busQueue \in Seq(1 .. published)
    <3>1. \A k \in DOMAIN busQueue : busQueue[k] \in 1 .. published
      BY BusAssumption DEF BusInv, BusTypes, BusOrder
    <3>2. busQueue = [k \in 1 .. Len(busQueue) |-> busQueue[k]] /\ Len(busQueue) \in Nat
      BY LenProperties DEF BusInv, BusTypes
    <3>3. busQueue \in [1 .. Len(busQueue) -> 1 .. published]
      BY <3>1, <3>2
    <3>4. QED
      BY <3>2, <3>3, SeqDef
  <2>2. ToSet(handlers) \subseteq Handlers
    BY DEF BusInv, BusTypes, ToSet
  <2>3. QED
    BY <2>1, <2>2 DEF BusInv, BusTypes, LateInv, TypeOKBus
<1>2. BusEachOnce
  BY DEF BusInv, CalledOnce, Begun, BusEachOnce
<1>3. StopIsLateByOne
  BY DEF BusInv, LateInv, StopIsLateByOne
<1>4. QED
  BY <1>1, <1>2, <1>3 DEF EventsAreHandled

LEMMA BusInvInit == BusInit => BusInv
<1> SUFFICES ASSUME BusInit PROVE BusInv
  OBVIOUS
<1>1. BusTypes
  <2>1. busQueue = <<>> /\ busQueue \in Seq(Nat) /\ Len(busQueue) = 0
    BY DEF BusInit
  <2>2. handlers = <<>> /\ handlers \in Seq(Handlers) /\ Len(handlers) = 0
    BY DEF BusInit
  <2>3. handledBy \in [Handlers -> Seq(Nat)]
    BY DEF BusInit
  <2>4. published \in 0 .. MaxEvents /\ Len(busQueue) <= published
    BY <2>1, BusAssumption DEF BusInit
  <2>5. busNext \in 0 .. Len(handlers) + 1
    BY <2>2 DEF BusInit
  <2>6. QED
    BY <2>1, <2>2, <2>3, <2>4, <2>5 DEF BusInit, BusTypes
<1>2. BusOrder
  BY DEF BusInit, BusOrder
<1>3. LateInv
  BY DEF BusInit, LateInv
<1>4. QED
  BY <1>1, <1>2, <1>3 DEF BusInit, BusInv

\* A step that neither calls a handler nor takes an event from the queue.
LEMMA BusCallsKept ==
    ASSUME BusInv, handlers' = handlers, handledBy' = handledBy, since' = since,
           published' - Len(busQueue') = published - Len(busQueue),
           \A i \in DOMAIN handlers : Begun(i)' = Begun(i)
    PROVE  /\ \A i \in DOMAIN handlers' : CalledOnce(i)'
           /\ \A h \in Handlers : h \notin ToSet(handlers') => handledBy'[h] = <<>>
<1>1. ASSUME NEW i \in DOMAIN handlers PROVE CalledOnce(i)'
  <2>1. Begun(i)' = Begun(i)
    OBVIOUS
  <2>2. CalledOnce(i)
    BY DEF BusInv
  <2>3. QED
    BY <2>1, <2>2, Zenon DEF CalledOnce
<1>2. QED
  BY <1>1 DEF BusInv

LEMMA BusInvStep == BusInv /\ [BusNextState]_busVars => BusInv'
<1> SUFFICES ASSUME BusInv, [BusNextState]_busVars PROVE BusInv'
  OBVIOUS
<1> USE BusAssumption
<1>1. ASSUME NEW h \in Handlers, BusSubscribe(h), UNCHANGED heart PROVE BusInv'
  <2>1. BusTypes'
    BY <1>1 DEF BusInv, BusTypes, BusSubscribe
  <2>2. h \notin ToSet(handlers) /\ handlers' = Append(handlers, h)
    BY <1>1 DEF BusSubscribe
  <2>3. BusOrder' /\ LateInv'
    <3>1. \A i \in DOMAIN handlers' : handlers'[i] = IF i = Len(handlers) + 1 THEN h ELSE handlers[i]
      BY <2>2 DEF BusInv, BusTypes
    <3>2. \A i \in DOMAIN handlers' : i = Len(handlers) + 1 \/ i \in DOMAIN handlers
      BY <2>2 DEF BusInv, BusTypes
    <3>3. \A i \in DOMAIN handlers : handlers[i] # h
      BY <2>2 DEF ToSet
    <3>4. \A i, j \in DOMAIN handlers' : handlers'[i] = handlers'[j] => i = j
      BY <3>1, <3>2, <3>3 DEF BusInv, BusOrder
    <3>5. LateInv'
      BY <1>1 DEF BusInv, LateInv, BusSubscribe
    <3>6. QED
      BY <1>1, <3>4, <3>5 DEF BusInv, BusOrder, BusSubscribe
  <2>4. ASSUME NEW i \in DOMAIN handlers' PROVE CalledOnce(i)'
    <3>1. CASE i \in DOMAIN handlers
      <4>1. handlers'[i] = handlers[i] /\ handlers[i] # h /\ handlers[i] \in Handlers
        BY <2>2, <3>1 DEF BusInv, BusTypes, ToSet
      <4>2. since'[handlers[i]] = since[handlers[i]] /\ Begun(i)' = Begun(i)
        BY <1>1, <4>1 DEF BusInv, BusTypes, BusSubscribe, Begun
      <4>3. CalledOnce(i)
        BY <3>1 DEF BusInv
      <4>4. UNCHANGED <<published, busQueue, handledBy>>
        BY <1>1 DEF BusSubscribe
      <4>5. QED
        BY <4>1, <4>2, <4>3, <4>4, Zenon DEF CalledOnce
    <3>2. CASE i \notin DOMAIN handlers
      <4>1. i = Len(handlers) + 1 /\ handlers'[i] = h
        BY <2>2, <3>2 DEF BusInv, BusTypes
      <4>2. since'[h] = published - Len(busQueue) /\ UNCHANGED <<published, busQueue, handledBy>>
        BY <1>1 DEF BusInv, BusTypes, BusSubscribe
      <4>3. Begun(i)' = 0
        BY <1>1, <4>1 DEF BusInv, BusTypes, BusSubscribe, Begun
      <4>4. handledBy[h] = <<>>
        BY <2>2 DEF BusInv
      <4>5. published - Len(busQueue) \in Nat
        BY DEF BusInv, BusTypes
      <4>6. QED
        BY <4>1, <4>2, <4>3, <4>4, <4>5 DEF CalledOnce
    <3>3. QED
      BY <3>1, <3>2
  <2>5. ASSUME NEW g \in Handlers, g \notin ToSet(handlers') PROVE handledBy'[g] = <<>>
    <3>1. ASSUME NEW i \in DOMAIN handlers
          PROVE  i \in DOMAIN handlers' /\ handlers'[i] = handlers[i]
      <4>1. handlers \in Seq(Handlers) /\ h \in Handlers /\ handlers' = Append(handlers, h)
        BY <2>2 DEF BusInv, BusTypes
      <4>2. i \in 1 .. Len(handlers) /\ Len(handlers) \in Nat
        BY <4>1, <3>1
      <4>3. QED
        BY <4>1, <4>2
    <3>2. g \notin ToSet(handlers)
      BY <2>5, <3>1 DEF ToSet
    <3>3. QED
      BY <1>1, <3>2 DEF BusInv, BusSubscribe
  <2>6. QED
    BY <2>1, <2>3, <2>4, <2>5 DEF BusInv
<1>2. ASSUME BusPublish, UNCHANGED heart PROVE BusInv'
  <2>1. BusTypes'
    BY <1>2 DEF BusInv, BusTypes, BusPublish
  <2>2. BusOrder' /\ LateInv'
    <3>1. /\ busQueue \in Seq(Nat) /\ published \in Nat /\ published' = published + 1
          /\ busQueue' = Append(busQueue, published + 1)
      BY <1>2 DEF BusInv, BusTypes, BusPublish
    <3>2. \A k \in DOMAIN busQueue' : busQueue'[k] = published' - Len(busQueue') + k
      BY <3>1 DEF BusInv, BusOrder
    <3>3. busQueue # <<>> => busQueue' # <<>>
      BY <3>1
    <3>4. LateInv'
      BY <1>2 DEF BusInv, LateInv, BusPublish
    <3>5. QED
      BY <1>2, <3>2, <3>3, <3>4 DEF BusInv, BusOrder, BusPublish
  <2>3. published' - Len(busQueue') = published - Len(busQueue)
    BY <1>2 DEF BusInv, BusTypes, BusPublish
  <2>4. QED
    BY <1>2, <2>1, <2>2, <2>3, BusCallsKept DEF BusInv, BusPublish, Begun
<1>3. ASSUME BusRun \/ BusStop \/ BusTake, UNCHANGED heart PROVE BusInv'
  <2>1. BusTypes' /\ BusOrder'
    <3>1. UNCHANGED <<busQueue, published, handlers, handledBy, since>>
      BY <1>3 DEF BusRun, BusStop, BusTake
    <3>2. /\ busLoop' \in {"off", "waiting", "handling"} /\ busNext' \in 0 .. Len(handlers) + 1
          /\ busLoop' = "handling" => busQueue # <<>> /\ busNext' >= 1
      BY <1>3 DEF BusInv, BusTypes, BusOrder, BusRun, BusStop, BusTake
    <3>3. busRunning' \in BOOLEAN
      BY <1>3 DEF BusInv, BusTypes, BusRun, BusStop, BusTake
    <3>4. QED
      BY <3>1, <3>2, <3>3 DEF BusInv, BusTypes, BusOrder
  <2>2. LateInv'
    <3>1. CASE BusRun
      BY <1>3, <3>1 DEF BusInv, LateInv, BusRun
    <3>2. CASE BusStop
      BY <1>3, <3>2 DEF BusInv, LateInv, BusStop
    <3>3. CASE BusTake
      BY <1>3, <3>3 DEF BusInv, BusTypes, LateInv, BusTake, Lateness
    <3>4. QED
      BY <1>3, <3>1, <3>2, <3>3
  <2>3. ASSUME NEW i \in DOMAIN handlers PROVE Begun(i)' = Begun(i)
    BY <1>3 DEF BusInv, BusTypes, BusRun, BusStop, BusTake, Begun
  <2>4. QED
    BY <1>3, <2>1, <2>2, <2>3, BusCallsKept DEF BusInv, BusRun, BusStop, BusTake
<1>4. ASSUME NEW raises \in BOOLEAN, BusHandle(raises), UNCHANGED heart PROVE BusInv'
  <2> DEFINE g == handlers[busNext]
             n == published - Len(busQueue) - since[g]
  <2>1. g \in Handlers /\ busNext \in DOMAIN handlers /\ busNext \in 1 .. Len(handlers)
    BY <1>4, SMTT(30) DEF BusInv, BusTypes, BusHandle
  <2>2. busQueue # <<>> /\ Head(busQueue) = published - Len(busQueue) + 1 /\ Head(busQueue) \in Nat
    <3>1. busQueue \in Seq(Nat) /\ busQueue # <<>> /\ published \in Nat /\ 1 \in DOMAIN busQueue
      BY <1>4 DEF BusInv, BusTypes, BusOrder, BusHandle
    <3>2. busQueue[1] = published - Len(busQueue) + 1
      BY <3>1 DEF BusInv, BusOrder
    <3>3. QED
      BY <3>1, <3>2
  <2>3. /\ busLoop = "handling" /\ busNext' = busNext + 1
        /\ handledBy' = [handledBy EXCEPT ![g] = Append(@, Head(busQueue))]
        /\ UNCHANGED <<busLoop, busRunning, busQueue, published, handlers, since, late>>
    BY <1>4 DEF BusHandle, BusNextHandler
  <2>4. BusTypes'
    <3>1. Append(handledBy[g], Head(busQueue)) \in Seq(Nat)
      BY <2>1, <2>2 DEF BusInv, BusTypes
    <3>2. handledBy' \in [Handlers -> Seq(Nat)]
      BY <2>3, <3>1 DEF BusInv, BusTypes
    <3>3. busNext' \in 0 .. Len(handlers) + 1
      BY <2>1, <2>3, SMTT(30) DEF BusInv, BusTypes
    <3>4. QED
      BY <2>3, <3>2, <3>3 DEF BusInv, BusTypes
  <2>5. BusOrder' /\ LateInv'
    BY <1>4, <2>1, <2>3 DEF BusInv, BusTypes, BusOrder, LateInv
  <2>6. ASSUME NEW i \in DOMAIN handlers' PROVE CalledOnce(i)'
    <3>1. CASE i = busNext
      <4>1. Begun(i) = 0 /\ Begun(i)' = 1
        BY <2>1, <2>3, <3>1, SMTT(30) DEF BusInv, BusTypes, Begun
      <4>2. CalledOnce(i) /\ n \in Nat /\ since[g] \in Nat
        <5>1. CalledOnce(i)
          BY <2>1, <3>1 DEF BusInv
        <5>2. since[g] \in Nat /\ published \in Nat /\ Len(busQueue) \in Nat
          BY <2>1 DEF BusInv, BusTypes
        <5>3. since[g] <= published - Len(busQueue)
          BY <3>1, <5>1 DEF CalledOnce
        <5>4. QED
          BY <5>1, <5>2, <5>3
      <4>3. handledBy[g] = [k \in 1 .. n |-> since[g] + k]
        BY <3>1, <4>1, <4>2 DEF CalledOnce, BusInv, BusTypes
      <4>4. handledBy'[g] = Append(handledBy[g], Head(busQueue))
        BY <2>1, <2>3 DEF BusInv, BusTypes
      <4>5. Head(busQueue) = since[g] + (n + 1)
        BY <2>2, <4>2, SMTT(30) DEF BusInv, BusTypes
      <4>6. handledBy'[g] = [k \in 1 .. n + 1 |-> since[g] + k]
        <5> HIDE DEF n, g
        <5>1. Len(handledBy[g]) = n /\ handledBy[g] \in Seq(Nat)
          BY <2>1, <4>2, <4>3, SMTT(30) DEF BusInv, BusTypes
        <5>2. QED
          BY <4>2, <4>3, <4>4, <4>5, <5>1
      <4>7. published - Len(busQueue) + 1 - since[g] = n + 1
        BY <4>2, <2>1 DEF BusInv, BusTypes
      <4>8. QED
        BY <2>3, <3>1, <4>1, <4>2, <4>6, <4>7, SMTT(30) DEF CalledOnce
    <3>2. CASE i # busNext
      <4>1. i \in DOMAIN handlers /\ handlers[i] # g /\ handlers[i] \in Handlers
        BY <2>1, <2>3, <3>2 DEF BusInv, BusTypes, BusOrder
      <4>2. handledBy'[handlers[i]] = handledBy[handlers[i]] /\ Begun(i)' = Begun(i)
        <5>1. handledBy'[handlers[i]] = handledBy[handlers[i]]
          BY <2>3, <4>1 DEF BusInv, BusTypes
        <5>2. Begun(i)' = Begun(i)
          <6>1. i \in Int /\ busNext \in Int
            BY <2>1, <4>1 DEF BusInv, BusTypes
          <6>2. i < busNext + 1 <=> i < busNext
            BY <3>2, <6>1
          <6>3. QED
            BY <2>3, <6>2 DEF Begun
        <5>3. QED
          BY <5>1, <5>2
      <4>3. CalledOnce(i)
        BY <4>1 DEF BusInv
      <4>4. QED
        BY <2>3, <4>2, <4>3, Zenon DEF CalledOnce
    <3>3. QED
      BY <3>1, <3>2
  <2>7. ASSUME NEW h \in Handlers, h \notin ToSet(handlers') PROVE handledBy'[h] = <<>>
    <3>1. h \notin ToSet(handlers) /\ h # g
      BY <2>1, <2>3, <2>7 DEF ToSet
    <3>2. QED
      BY <2>3, <3>1 DEF BusInv, BusTypes
  <2>8. QED
    BY <2>4, <2>5, <2>6, <2>7 DEF BusInv
<1>5. ASSUME BusRoundEnds, UNCHANGED heart PROVE BusInv'
  <2>1. /\ busQueue' \in Seq(Nat) /\ Len(busQueue') <= Len(busQueue)
        /\ \A k \in DOMAIN busQueue' : busQueue'[k] = published - Len(busQueue') + k
    <3>1. CASE busLoop = "handling" /\ busQueue' = Tail(busQueue)
      BY <3>1, SMTT(30) DEF BusInv, BusTypes, BusOrder
    <3>2. CASE busQueue' = busQueue
      BY <3>2 DEF BusInv, BusTypes, BusOrder
    <3>3. QED
      BY <1>5, <3>1, <3>2 DEF BusRoundEnds
  <2>2. BusTypes'
    <3>1. Len(busQueue') <= published
      BY <2>1 DEF BusInv, BusTypes
    <3>2. busLoop' \in {"off", "waiting", "handling"}
      BY <1>5 DEF BusRoundEnds
    <3>3. QED
      BY <1>5, <2>1, <3>1, <3>2 DEF BusInv, BusTypes, BusRoundEnds
  <2>3. BusOrder' /\ LateInv'
    <3>1. BusOrder'
      BY <1>5, <2>1 DEF BusInv, BusOrder, BusRoundEnds
    <3>2. LateInv'
      BY <1>5 DEF BusInv, LateInv, BusRoundEnds, BusGoesOn
    <3>3. QED
      BY <3>1, <3>2
  <2>4. UNCHANGED <<published, handlers, handledBy, since>> /\ busLoop' # "handling"
    BY <1>5 DEF BusRoundEnds
  <2>5. ASSUME NEW i \in DOMAIN handlers
        PROVE  /\ published - Len(busQueue') + Begun(i)' = published - Len(busQueue) + Begun(i)
               /\ published - Len(busQueue) <= published - Len(busQueue')
    <3>1. CASE busLoop = "handling" /\ busNext > Len(handlers) /\ busQueue' = Tail(busQueue)
      <4>1. Len(busQueue') = Len(busQueue) - 1
        BY <3>1 DEF BusInv, BusTypes, BusOrder
      <4>2. Begun(i) = 1 /\ Begun(i)' = 0
        BY <2>4, <3>1 DEF BusInv, BusTypes, Begun
      <4>3. QED
        BY <4>1, <4>2 DEF BusInv, BusTypes
    <3>2. CASE busLoop = "waiting" /\ busQueue' = busQueue
      BY <2>4, <3>2 DEF BusInv, BusTypes, Begun
    <3>3. QED
      BY <1>5, <3>1, <3>2 DEF BusRoundEnds
  <2>6. ASSUME NEW i \in DOMAIN handlers' PROVE CalledOnce(i)'
    <3>1. CalledOnce(i) /\ since[handlers[i]] \in Nat /\ published \in Nat
          /\ Len(busQueue) \in Nat /\ Len(busQueue') \in Nat
      BY <2>2, <2>4 DEF BusInv, BusTypes
    <3>2. since[handlers[i]] <= published - Len(busQueue')
      BY <2>4, <2>5, <3>1 DEF CalledOnce
    <3>3. published - Len(busQueue') + Begun(i)' = published - Len(busQueue) + Begun(i)
      BY <2>4, <2>5
    <3>4. handledBy[handlers[i]] = [k \in 1 .. published - Len(busQueue) + Begun(i) - since[handlers[i]]
                                       |-> since[handlers[i]] + k]
      BY <3>1 DEF CalledOnce
    <3>5. handledBy[handlers[i]] = [k \in 1 .. published - Len(busQueue') + Begun(i)' - since[handlers[i]]
                                       |-> since[handlers[i]] + k]
      <4>1. PICK b, c : b = Begun(i) /\ c = Begun(i)'
        OBVIOUS
      <4>2. b \in Int /\ c \in Int
        BY <4>1 DEF Begun
      <4>3. published - Len(busQueue') + c = published - Len(busQueue) + b
        BY <3>3, <4>1, Zenon
      <4>4. published - Len(busQueue') + c - since[handlers[i]]
              = published - Len(busQueue) + b - since[handlers[i]]
        <5>1. PICK x, y, z : /\ x = published - Len(busQueue') /\ y = published - Len(busQueue)
                             /\ z = since[handlers[i]]
          OBVIOUS
        <5>2. x \in Int /\ y \in Int /\ z \in Int
          BY <3>1, <5>1
        <5>3. x + c = y + b
          BY <4>3, <5>1, Zenon
        <5>4. x + c - z = y + b - z
          BY <4>2, <5>2, <5>3
        <5>5. QED
          BY <5>1, <5>4, Zenon
      <4>5. QED
        BY <3>4, <4>1, <4>4, Zenon
    <3>6. QED
      BY <2>4, <3>2, <3>5, Zenon DEF CalledOnce
  <2>7. QED
    BY <2>2, <2>3, <2>4, <2>6 DEF BusInv
<1>6. ASSUME HeartRun \/ HeartStop \/ HeartRound \/ UNCHANGED heart, UNCHANGED loopVars
      PROVE  BusInv'
  <2>1. BusTypes' /\ BusOrder'
    <3>1. UNCHANGED <<busLoop, busRunning, busQueue, published, handlers, busNext, handledBy, since>>
      BY <1>6 DEF loopVars
    <3>2. BusTypes'
      BY <3>1 DEF BusInv, BusTypes
    <3>3. BusOrder'
      BY <3>1 DEF BusInv, BusOrder
    <3>4. QED
      BY <3>2, <3>3
  <2>2. LateInv'
    <3>1. /\ late' \in {0, 1} /\ (busLoop' = "waiting" => late' = 0) /\ (late' = 1 => ~busRunning')
      BY <1>6 DEF BusInv, LateInv, loopVars
    <3>2. /\ heart' \in [asleep : BOOLEAN, running : BOOLEAN, late : {0, 1}]
          /\ heart'.asleep => heart'.late = 0
      <4>1. CASE HeartRun
        BY <4>1 DEF HeartRun
      <4>2. CASE HeartStop
        BY <4>2 DEF BusInv, LateInv, HeartStop
      <4>3. CASE HeartRound
        <5>1. heart.late = 0 /\ heart.running \in BOOLEAN
          BY <4>3 DEF BusInv, LateInv, HeartRound
        <5>2. heart' = [heart EXCEPT !.asleep = heart.running,
                                     !.late = IF heart.running THEN 0 ELSE 1]
          BY <4>3, <5>1 DEF HeartRound
        <5>3. QED
          BY <5>1, <5>2 DEF BusInv, LateInv
      <4>4. CASE UNCHANGED heart
        BY <4>4 DEF BusInv, LateInv
      <4>5. QED
        BY <1>6, <4>1, <4>2, <4>3, <4>4
    <3>3. QED
      BY <3>1, <3>2 DEF LateInv
  <2>3. QED
    BY <1>6, <2>1, <2>2, BusCallsKept DEF BusInv, loopVars, Begun
<1>7. CASE UNCHANGED busVars
  BY <1>6, <1>7 DEF busVars
<1>8. QED
  BY <1>1, <1>2, <1>3, <1>4, <1>5, <1>6, <1>7 DEF BusNextState, BusStep

\* However many handlers subscribe, raise and take their time, and however often the
\* loops are stopped and run again: each event reaches each handler once and in order,
\* and a stop is late by one round at most.
THEOREM EventsReachTheirHandlers == BusSpec => []EventsAreHandled
<1>1. BusSpec => []BusInv
  BY BusInvInit, BusInvStep, PTL DEF BusSpec
<1>2. QED
  BY <1>1, BusInvHandles, PTL

-----------------------------------------------------------------------------
(* Sets of numbers in order *)

\* A non-empty set of numbers has a least element.
LEMMA LeastOf ==
    ASSUME NEW S, S \subseteq Nat, S # {} PROVE \E j \in S : \A k \in S : j <= k
<1>1. PICK j \in S : \A k \in S : <<k, j>> \notin OpToRel(<, Nat)
  BY NatLessThanWellFounded, WFMin, Zenon
<1>2. ASSUME NEW k \in S, k < j PROVE FALSE
  <2>1. <<k, j>> \in {ss \in Nat \X Nat : ss[1] < ss[2]}
    BY <1>2
  <2>2. QED
    BY <1>1, <2>1, Zenon DEF OpToRel
<1>3. QED
  BY <1>2

LEMMA FiniteBelow ==
    ASSUME NEW n \in Nat, NEW S \in SUBSET (1 .. n)
    PROVE  IsFiniteSet(S) /\ Cardinality(S) \in Nat
<1>1. 1 \in Int /\ n \in Int
  OBVIOUS
<1>2. IsFiniteSet(1 .. n)
  BY <1>1, FS_Interval, Zenon
<1>3. IsFiniteSet(S)
  BY <1>2, FS_Subset, Zenon
<1>4. QED
  BY <1>3, FS_CardinalityType, Zenon

Orders(S) == {s \in [1 .. Cardinality(S) -> S] : Increasing(s)}

\* Were there a bound below which some set has no order, there would be a least one:
\* but what orders the rest of a set orders the set once its greatest element is added.
LEMMA OrdersExist == ASSUME NEW n \in Nat, NEW S \in SUBSET (1 .. n) PROVE Orders(S) # {}
<1> DEFINE Without == {k \in Nat : \E T \in SUBSET (1 .. k) : Orders(T) = {}}
<1>1. SUFFICES ASSUME Without # {} PROVE FALSE
  OBVIOUS
<1>2. PICK k \in Without : \A j \in Without : k <= j
  BY <1>1, LeastOf
<1>3. PICK T \in SUBSET (1 .. k) : Orders(T) = {}
  OBVIOUS
<1>4. IsFiniteSet(T) /\ Cardinality(T) \in Nat
  BY <1>2, FiniteBelow
<1>5. k \in T
  <2>1. SUFFICES ASSUME k \notin T PROVE FALSE
    OBVIOUS
  <2>2. CASE k = 0
    <3>1. T = {}
      BY <2>2
    <3>2. Cardinality(T) = 0
      BY <3>1, FS_EmptySet, Zenon
    <3>3. <<>> \in [1 .. Cardinality(T) -> T] /\ Increasing(<<>>)
      BY <3>2 DEF Increasing
    <3>4. QED
      BY <1>3, <3>3 DEF Orders
  <2>3. CASE k # 0
    <3>1. k - 1 \in Nat /\ T \in SUBSET (1 .. k - 1)
      BY <2>1, <2>3
    <3>2. k - 1 \in Without
      BY <1>3, <3>1
    <3>3. QED
      BY <1>2, <3>1, <3>2
  <2>4. QED
    BY <2>2, <2>3
<1>6. k - 1 \in Nat /\ T \ {k} \in SUBSET (1 .. k - 1)
  BY <1>5
<1>7. k - 1 \notin Without
  <2>1. ASSUME k - 1 \in Without PROVE FALSE
    <3>1. k <= k - 1
      BY <1>2, <2>1, Zenon
    <3>2. QED
      BY <1>6, <3>1
  <2>2. QED
    BY <2>1
<1>8. PICK s : s \in Orders(T \ {k})
  BY <1>6, <1>7
<1> DEFINE m == Cardinality(T \ {k})
           t == [i \in 1 .. m + 1 |-> IF i = m + 1 THEN k ELSE s[i]]
<1>9. m \in Nat /\ Cardinality(T) = m + 1
  <2>1. m = Cardinality(T) - 1
    BY <1>4, <1>5, FS_RemoveElement, Zenon
  <2>2. m \in Nat
    BY <1>6, FiniteBelow
  <2>3. QED
    BY <1>4, <2>1, <2>2
<1>10. s \in [1 .. m -> T \ {k}] /\ Increasing(s)
  BY <1>8 DEF Orders
<1> HIDE DEF m
<1>11. t \in [1 .. m + 1 -> T]
  BY <1>5, <1>9, <1>10
<1>12. Increasing(t)
  <2> SUFFICES ASSUME NEW i \in 1 .. m + 1, NEW j \in 1 .. m + 1, i < j PROVE t[i] < t[j]
    BY DEF Increasing
  <2>1. i \in 1 .. m /\ t[i] = s[i] /\ s[i] \in T \ {k}
    BY <1>9, <1>10
  <2>2. CASE j = m + 1
    <3>1. t[j] = k /\ t[i] \in 1 .. k /\ t[i] # k
      BY <2>1, <2>2, <1>9
    <3>2. QED
      BY <3>1, <1>2
  <2>3. CASE j # m + 1
    <3>1. j \in 1 .. m /\ t[j] = s[j]
      BY <2>3, <1>9
    <3>2. QED
      BY <1>10, <2>1, <3>1 DEF Increasing
  <2>4. QED
    BY <2>2, <2>3
<1>13. QED
  BY <1>3, <1>9, <1>11, <1>12 DEF Orders

\* The order of a set holds each of its elements, and nothing else.
LEMMA InOrderSorts ==
    ASSUME NEW n \in Nat, NEW S \in SUBSET (1 .. n)
    PROVE  /\ Cardinality(S) \in Nat
           /\ InOrder(S) \in [1 .. Cardinality(S) -> S]
           /\ Increasing(InOrder(S))
           /\ \A x \in S : \E i \in 1 .. Cardinality(S) : InOrder(S)[i] = x
<1>1. IsFiniteSet(S) /\ Cardinality(S) \in Nat
  BY FiniteBelow
<1> DEFINE c == Cardinality(S)
<1>2. InOrder(S) \in [1 .. c -> S] /\ Increasing(InOrder(S))
  <2>1. \E s \in [1 .. c -> S] : Increasing(s)
    BY OrdersExist DEF Orders
  <2>2. QED
    BY <2>1 DEF InOrder
<1> DEFINE f == InOrder(S)
<1> HIDE DEF f, c
<1>3. f \in Injection(1 .. c, S)
  <2>1. ASSUME NEW i \in 1 .. c, NEW j \in 1 .. c, f[i] = f[j] PROVE i = j
    <3>1. f[i] \in Nat /\ f[j] \in Nat /\ ~(f[i] < f[j]) /\ ~(f[j] < f[i])
      <4>1. f \in [1 .. c -> S] /\ S \subseteq Nat
        BY <1>2 DEF f
      <4>2. f[i] \in Nat /\ f[j] = f[i]
        BY <2>1, <4>1
      <4>3. QED
        BY <4>2
    <3>2. ~(i < j) /\ ~(j < i)
      BY <1>2, <3>1 DEF f, Increasing
    <3>3. QED
      BY <1>1, <3>2 DEF c
  <2>2. QED
    BY <1>2, <2>1 DEF f, Injection, IsInjective
<1>4. IsFiniteSet(1 .. c) /\ Cardinality(1 .. c) = c
  BY <1>1, FS_Interval DEF c
<1>5. f \in Surjection(1 .. c, S)
  BY <1>1, <1>3, <1>4, FS_Injection DEF c
<1>6. QED
  BY <1>1, <1>2, <1>5 DEF Surjection, f, c

\* An element of a sequence and its continuation, where it stands.
LEMMA JoinedAt ==
    ASSUME NEW s \in Seq(Nat), NEW t \in Seq(Nat), NEW i \in DOMAIN (s \o t)
    PROVE  \/ i \in DOMAIN s /\ (s \o t)[i] = s[i]
           \/ i \notin DOMAIN s /\ i - Len(s) \in DOMAIN t /\ (s \o t)[i] = t[i - Len(s)]
<1>1. Len(s \o t) = Len(s) + Len(t) /\ Len(s) \in Nat /\ Len(t) \in Nat
  OBVIOUS
<1>2. QED
  BY <1>1

\* What continues an increasing sequence above its elements leaves it increasing.
LEMMA JoinedIncrease ==
    ASSUME NEW s \in Seq(Nat), NEW t \in Seq(Nat), Increasing(s), Increasing(t),
           \A i \in DOMAIN s, j \in DOMAIN t : s[i] < t[j]
    PROVE  s \o t \in Seq(Nat) /\ Increasing(s \o t)
<1>1. s \o t \in Seq(Nat) /\ Len(s \o t) = Len(s) + Len(t) /\ Len(s) \in Nat /\ Len(t) \in Nat
  OBVIOUS
<1>2. ASSUME NEW i \in DOMAIN (s \o t)
      PROVE  \/ i \in DOMAIN s /\ (s \o t)[i] = s[i]
             \/ i \notin DOMAIN s /\ i - Len(s) \in DOMAIN t /\ (s \o t)[i] = t[i - Len(s)]
  BY <1>2, JoinedAt
<1>3. ASSUME NEW i \in DOMAIN (s \o t), NEW j \in DOMAIN (s \o t), i < j
      PROVE  (s \o t)[i] < (s \o t)[j]
  <2>1. i \in Nat /\ j \in Nat /\ DOMAIN s = 1 .. Len(s)
    BY <1>1
  <2>2. CASE i \in DOMAIN s /\ j \in DOMAIN s
    BY <1>2, <1>3, <2>2 DEF Increasing
  <2>3. CASE i \in DOMAIN s /\ j \notin DOMAIN s
    BY <1>2, <2>3
  <2>4. CASE i \notin DOMAIN s
    <3>1. j \notin DOMAIN s
      BY <1>1, <1>3, <2>1, <2>4
    <3>2. i - Len(s) < j - Len(s)
      BY <1>1, <1>3, <2>1
    <3>3. QED
      BY <1>2, <2>4, <3>1, <3>2 DEF Increasing
  <2>5. QED
    BY <2>2, <2>3, <2>4
<1>4. QED
  BY <1>1, <1>3 DEF Increasing

LEMMA AppendedIncrease ==
    ASSUME NEW s \in Seq(Nat), NEW x \in Nat, Increasing(s), \A i \in DOMAIN s : s[i] < x
    PROVE  Append(s, x) \in Seq(Nat) /\ Increasing(Append(s, x))
<1>1. /\ Append(s, x) \in Seq(Nat) /\ DOMAIN Append(s, x) = 1 .. Len(s) + 1
      /\ Len(s) \in Nat /\ DOMAIN s = 1 .. Len(s)
  OBVIOUS
<1>2. ASSUME NEW i \in DOMAIN Append(s, x)
      PROVE  Append(s, x)[i] = IF i = Len(s) + 1 THEN x ELSE s[i]
  BY <1>1, <1>2
<1>3. ASSUME NEW i \in DOMAIN Append(s, x), NEW j \in DOMAIN Append(s, x), i < j
      PROVE  Append(s, x)[i] < Append(s, x)[j]
  <2>1. i \in DOMAIN s /\ i # Len(s) + 1
    BY <1>1, <1>3
  <2>2. CASE j = Len(s) + 1
    BY <1>2, <2>1, <2>2
  <2>3. CASE j # Len(s) + 1
    <3>1. j \in DOMAIN s
      BY <1>1, <2>3
    <3>2. QED
      BY <1>2, <1>3, <2>1, <2>3, <3>1 DEF Increasing
  <2>4. QED
    BY <2>2, <2>3
<1>4. QED
  BY <1>1, <1>3 DEF Increasing

-----------------------------------------------------------------------------
(* The channels with a network behind them *)

TgTypes ==
    /\ tg \in [at : {"off", "idle", "asked", "backoff", "stopping"},
               offset : 0 .. TgMax + 1, seen : Seq(Nat), taken : Nat]
    /\ bot \in [sent : 0 .. TgMax, done : Nat]
    /\ tgPast \in [yielded : SUBSET Nat, lost : SUBSET Nat, replied : SUBSET Nat, shown : SUBSET Nat]

\* The offset is above all that this process saw and below nothing Telegram still
\* has; a poll under way asked for nothing that it saw.
TgOffset ==
    /\ tg.taken <= Len(tg.seen) /\ bot.done <= bot.sent
    /\ tg.offset <= bot.sent + 1
    /\ tg.at = "asked" => tg.offset <= bot.done + 1
    /\ \A i \in DOMAIN tg.seen : tg.seen[i] < tg.offset

TgKnown == tgPast.yielded \cup TgUnread \cup tgPast.lost

\* It is known what became of a message below the offset too, which the next poll
\* acknowledges, as long as the process lives.
TgKept ==
    /\ tgPast.shown \subseteq tgPast.replied /\ tgPast.replied \subseteq tgPast.yielded
    /\ \A i \in 1 .. tg.taken : tg.seen[i] \in tgPast.yielded
    /\ \A n \in TgTexts : n <= bot.done => n \in TgKnown
    /\ tg.at # "off" => \A n \in TgTexts : n < tg.offset => n \in TgKnown

TgInv == TgTypes /\ TgOffset /\ Increasing(tg.seen) /\ TgKept

GwTypes ==
    /\ gw \in [at : {"off", "dialing", "reading", "backoff", "cancelled", "stopped"},
               ws : BOOLEAN, queue : Seq(Nat), end : Nat, got : Nat]
    /\ heard \in [taken : Nat, yielded : Seq(Nat), ended : BOOLEAN]
    /\ line \in {"none", "up", "closed"}
    /\ told \in {"none", "sent", "unavailable", "raised"}

\* The queue is what came, without the junk.
QueueInv ==
    /\ gw.got <= Len(GwFrames)
    /\ Increasing(gw.queue)
    /\ \A i \in DOMAIN gw.queue : gw.queue[i] \in 1 .. gw.got
    /\ \A n \in 1 .. gw.got :
           GwFrames[n] # "junk" => \E i \in DOMAIN gw.queue : gw.queue[i] = n

\* What listen() yielded is the utterances of what it took.
HeardInv ==
    /\ heard.taken <= Len(gw.queue)
    /\ Increasing(heard.yielded)
    /\ \A k \in DOMAIN heard.yielded : \E i \in 1 .. heard.taken :
           heard.yielded[k] = gw.queue[i] /\ GwFrames[gw.queue[i]] = "utterance"
    /\ \A i \in 1 .. heard.taken :
           GwFrames[gw.queue[i]] = "utterance"
               => \E k \in DOMAIN heard.yielded : heard.yielded[k] = gw.queue[i]
    /\ heard.ended => gw.end = heard.taken + 1

\* A task that was stopped holds no connection, and nothing comes behind the sentinel.
StopInv ==
    gw.end # 0 => /\ gw.at = "stopped" /\ ~gw.ws /\ line # "up"
                  /\ gw.end = Len(gw.queue) + 1

GwInv == GwTypes /\ QueueInv /\ HeardInv /\ StopInv

WireInv == TgInv /\ GwInv

LEMMA WireInvKeeps == WireInv => MessagesAccounted
<1> SUFFICES ASSUME WireInv PROVE MessagesAccounted
  OBVIOUS
<1>1. TypeOKWires
  <2>1. /\ tg.at \in {"off", "idle", "asked", "backoff", "stopping"}
        /\ tg.offset \in 0 .. TgMax + 1 /\ tg.taken \in 0 .. Len(tg.seen)
        /\ bot.done \in 0 .. bot.sent /\ bot.sent \in 0 .. TgMax
        /\ tgPast.shown \subseteq tgPast.replied /\ tgPast.replied \subseteq tgPast.yielded
    BY WiresAssumption DEF WireInv, TgInv, TgTypes, TgOffset, TgKept
  <2>2. /\ gw.at \in {"off", "dialing", "reading", "backoff", "cancelled", "stopped"}
        /\ gw.got \in 0 .. Len(GwFrames) /\ heard.taken \in 0 .. Len(gw.queue)
    BY WiresAssumption DEF WireInv, GwInv, GwTypes, QueueInv, HeardInv
  <2>3. QED
    BY <2>1, <2>2 DEF WireInv, GwInv, GwTypes, TypeOKWires
<1>2. TgOnceInOrder /\ TgAccounted
  BY DEF WireInv, TgInv, TgKept, TgKnown, TgOnceInOrder, TgAccounted
<1>3. GwHeardAll
  <2> DEFINE said == {n \in 1 .. gw.got : GwFrames[n] = "utterance"}
  <2>1. /\ gw.queue \in Seq(Nat) /\ heard.taken \in Nat /\ heard.taken <= Len(gw.queue)
        /\ \A i \in 1 .. heard.taken : i \in DOMAIN gw.queue
    BY DEF WireInv, GwInv, GwTypes, HeardInv
  <2>2. ASSUME NEW m \in ToSet(heard.yielded)
        PROVE  m \in said /\ \E i \in 1 .. heard.taken : m = gw.queue[i]
    <3>1. PICK i \in 1 .. heard.taken : m = gw.queue[i] /\ GwFrames[gw.queue[i]] = "utterance"
      BY <2>2 DEF WireInv, GwInv, HeardInv, ToSet
    <3>2. QED
      BY <2>1, <3>1 DEF WireInv, GwInv, QueueInv
  <2>3. ASSUME NEW n \in said
        PROVE  \E j \in DOMAIN gw.queue :
                   gw.queue[j] = n /\ (j <= heard.taken => n \in ToSet(heard.yielded))
    <3>1. PICK j \in DOMAIN gw.queue : gw.queue[j] = n
      BY <2>3 DEF WireInv, GwInv, QueueInv
    <3>2. ASSUME j <= heard.taken PROVE n \in ToSet(heard.yielded)
      <4>1. j \in 1 .. heard.taken /\ GwFrames[gw.queue[j]] = "utterance"
        BY <2>1, <2>3, <3>1, <3>2
      <4>2. PICK k \in DOMAIN heard.yielded : heard.yielded[k] = gw.queue[j]
        BY <4>1 DEF WireInv, GwInv, HeardInv
      <4>3. QED
        BY <3>1, <4>2 DEF ToSet
    <3>3. QED
      BY <3>1, <3>2
  <2>4. ASSUME NEW m \in ToSet(heard.yielded), NEW n \in said \ ToSet(heard.yielded)
        PROVE  m < n
    <3>1. PICK i \in 1 .. heard.taken : m = gw.queue[i]
      BY <2>2
    <3>2. PICK j \in DOMAIN gw.queue : gw.queue[j] = n /\ ~(j <= heard.taken)
      BY <2>3, <2>4
    <3>3. i \in DOMAIN gw.queue /\ i < j
      BY <2>1, <3>1, <3>2
    <3>4. QED
      BY <3>1, <3>2, <3>3 DEF WireInv, GwInv, QueueInv, Increasing
  <2>5. ASSUME heard.ended PROVE said \subseteq ToSet(heard.yielded)
    <3>1. heard.taken = Len(gw.queue)
      BY <2>1, <2>5 DEF WireInv, GwInv, HeardInv, StopInv
    <3>2. QED
      BY <2>1, <2>3, <3>1
  <2>6. Increasing(heard.yielded)
    BY DEF WireInv, GwInv, HeardInv
  <2>7. QED
    BY <2>2, <2>4, <2>5, <2>6 DEF GwHeardAll
<1>4. QED
  BY <1>1, <1>2, <1>3 DEF MessagesAccounted

LEMMA WireInvInit == WireInit => WireInv
<1> SUFFICES ASSUME WireInit PROVE WireInv
  OBVIOUS
<1> USE WiresAssumption
<1>1. <<>> \in Seq(Nat) /\ Increasing(<<>>) /\ Len(<<>>) = 0
  BY DEF Increasing
<1>2. TgTypes /\ GwTypes
  BY <1>1 DEF WireInit, TgTypes, GwTypes
<1>3. TgOffset /\ TgKept /\ Increasing(tg.seen)
  BY <1>1 DEF WireInit, TgOffset, TgKept
<1>4. QueueInv /\ StopInv
  BY <1>1 DEF WireInit, QueueInv, StopInv
<1>5. HeardInv
  BY <1>1 DEF WireInit, HeardInv
<1>6. QED
  BY <1>2, <1>3, <1>4, <1>5 DEF WireInv, TgInv, GwInv

\* The answer of a poll: what is queued is new, and in its order.
LEMMA TgReplyKeeps == TgInv /\ TgReply => TgInv'
<1> SUFFICES ASSUME TgInv, TgReply PROVE TgInv'
  OBVIOUS
<1> USE WiresAssumption
<1> DEFINE batch == bot.done + 1 .. bot.sent
           texts == batch \cap TgTexts
           t == InOrder(texts)
<1>1. /\ bot.sent \in 0 .. TgMax /\ bot.done \in Nat /\ bot.done <= bot.sent
      /\ tg.seen \in Seq(Nat) /\ tg.offset \in Nat /\ tg.offset <= bot.done + 1
      /\ bot' = bot /\ tg.taken \in Nat /\ tg.taken <= Len(tg.seen)
  BY DEF TgInv, TgTypes, TgOffset, TgReply
<1>2. texts \in SUBSET (1 .. bot.sent) /\ texts \subseteq Nat
  BY <1>1
<1>3. /\ Cardinality(texts) \in Nat /\ t \in [1 .. Cardinality(texts) -> texts]
      /\ Increasing(t) /\ \A x \in texts : \E i \in 1 .. Cardinality(texts) : t[i] = x
  <2>1. bot.sent \in Nat
    BY <1>1
  <2>2. QED
    <3> HIDE DEF texts
    <3>1. texts \in SUBSET (1 .. bot.sent)
      BY <1>2
    <3>2. QED
      BY <2>1, <3>1, InOrderSorts, ZenonT(30)
<1>4. /\ tg' = [tg EXCEPT !.at = "idle", !.seen = @ \o t,
                          !.offset = IF batch = {} THEN @ ELSE bot.sent + 1]
      /\ tgPast' = tgPast /\ tg.at = "asked"
  BY DEF TgReply, TgNextOffset
<1>5. batch = {} => texts = {}
  OBVIOUS
<1>6. \A n \in texts : bot.done < n /\ n <= bot.sent
  BY <1>1
<1>7. \A n \in TgTexts : n <= bot.sent => n <= bot.done \/ n \in texts
  BY <1>1
<1>8. bot.done < bot.sent => batch # {}
  <2>1. bot.done < bot.sent => bot.sent \in batch
    BY <1>1
  <2>2. QED
    BY <2>1
<1>9. batch # {} => bot.done < bot.sent
  BY <1>1
<1> HIDE DEF t, texts, batch
<1>10. t \in Seq(Nat) /\ DOMAIN t = 1 .. Cardinality(texts) /\ \A i \in DOMAIN t : t[i] \in texts
  <2>1. t \in [1 .. Cardinality(texts) -> Nat]
    BY <1>2, <1>3
  <2>2. QED
    BY <1>3, <2>1, SeqDef, SMTT(30)
<1>11. \A i \in DOMAIN tg.seen, j \in DOMAIN t : tg.seen[i] < t[j]
  <2> TAKE i \in DOMAIN tg.seen, j \in DOMAIN t
  <2>1. tg.seen[i] < tg.offset /\ tg.seen[i] \in Nat
    BY <1>1, SMTT(30) DEF TgInv, TgOffset
  <2>2. bot.done < t[j] /\ t[j] \in Nat
    BY <1>2, <1>6, <1>10
  <2>3. QED
    BY <1>1, <2>1, <2>2
<1>12. tg.seen \o t \in Seq(Nat) /\ Increasing(tg.seen \o t)
  BY <1>1, <1>3, <1>10, <1>11, JoinedIncrease DEF TgInv
<1>13. /\ tg'.at = "idle" /\ tg'.seen = tg.seen \o t /\ tg'.taken = tg.taken
       /\ tg'.offset = IF batch = {} THEN tg.offset ELSE bot.sent + 1
  BY <1>4 DEF TgInv, TgTypes
<1>14. tg'.offset \in 0 .. TgMax + 1 /\ tg'.offset <= bot.sent + 1 /\ tg.offset <= tg'.offset
  BY <1>1, <1>13, SMTT(30)
<1>15. TgTypes'
  <2>1. tg' \in [at : {"off", "idle", "asked", "backoff", "stopping"},
                 offset : 0 .. TgMax + 1, seen : Seq(Nat), taken : Nat]
    BY <1>4, <1>12, <1>13, <1>14 DEF TgInv, TgTypes
  <2>2. QED
    BY <1>1, <1>4, <2>1 DEF TgInv, TgTypes
<1>16. TgOffset'
  <2>1. Len(tg.seen \o t) = Len(tg.seen) + Len(t) /\ Len(t) \in Nat /\ Len(tg.seen) \in Nat
    BY <1>1, <1>10
  <2>2. ASSUME NEW i \in DOMAIN tg'.seen
        PROVE  tg'.seen[i] < tg'.offset
    <3>1. CASE i \in DOMAIN tg.seen
      <4>1. tg'.seen[i] = tg.seen[i] /\ tg.seen[i] \in Nat
        BY <1>1, <1>10, <1>13, <3>1, SMTT(30)
      <4>2. tg.seen[i] < tg.offset
        BY <3>1 DEF TgInv, TgOffset
      <4>3. tg.seen[i] < tg'.offset
        BY <1>1, <1>14, <4>1, <4>2, SMTT(30)
      <4>4. QED
        BY <4>1, <4>3
    <3>2. CASE i \notin DOMAIN tg.seen
      <4>1. i - Len(tg.seen) \in DOMAIN t /\ tg'.seen[i] = t[i - Len(tg.seen)]
        <5>1. i \in DOMAIN (tg.seen \o t) /\ tg'.seen[i] = (tg.seen \o t)[i]
          BY <1>13
        <5>2. QED
          BY <1>1, <1>10, <3>2, <5>1, JoinedAt
      <4>2. tg'.seen[i] \in texts
        BY <1>10, <4>1
      <4>3. tg'.seen[i] <= bot.sent /\ tg'.seen[i] \in Nat /\ batch # {}
        BY <1>2, <1>5, <1>6, <4>2
      <4>4. tg'.offset = bot.sent + 1 /\ bot.sent \in Nat
        BY <1>1, <1>13, <4>3
      <4>5. QED
        BY <4>3, <4>4
    <3>3. QED
      BY <3>1, <3>2
  <2>3. tg'.taken <= Len(tg'.seen)
    BY <1>1, <1>13, <2>1
  <2>4. QED
    BY <1>1, <1>13, <1>14, <2>2, <2>3 DEF TgOffset
<1>17. TgKept'
  <2>1. Len(tg.seen \o t) = Len(tg.seen) + Len(t) /\ Len(t) \in Nat /\ Len(tg.seen) \in Nat
    BY <1>1, <1>10
  <2>2. ASSUME NEW i \in DOMAIN tg.seen PROVE tg'.seen[i] = tg.seen[i]
    BY <1>1, <1>10, <1>13, <2>2, SMTT(30)
  <2>3. \A i \in 1 .. tg'.taken : tg'.seen[i] \in tgPast'.yielded
    <3>1. \A i \in 1 .. tg.taken : i \in DOMAIN tg.seen
      BY <1>1
    <3>2. QED
      BY <1>4, <1>13, <2>2, <3>1 DEF TgInv, TgKept
  <2>4. ASSUME NEW x \in TgUnread PROVE x \in TgUnread'
    <3>1. PICK i \in tg.taken + 1 .. Len(tg.seen) : x = tg.seen[i]
      BY <1>4, <2>4 DEF TgUnread
    <3>2. i \in DOMAIN tg.seen /\ i \in tg'.taken + 1 .. Len(tg'.seen)
      BY <1>1, <1>13, <2>1, SMTT(30)
    <3>3. QED
      BY <1>13, <2>2, <3>1, <3>2 DEF TgUnread
  <2>5. ASSUME NEW x \in texts PROVE x \in TgUnread'
    <3>1. PICK k \in DOMAIN t : t[k] = x
      BY <1>3, <1>10
    <3>2. k \in 1 .. Len(t)
      <4>1. DOMAIN t = 1 .. Len(t)
        BY <1>10
      <4>2. QED
        BY <3>1, <4>1
    <3>3. k + Len(tg.seen) \in tg'.taken + 1 .. Len(tg'.seen)
      <4>1. Len(tg'.seen) = Len(tg.seen) + Len(t) /\ tg'.taken = tg.taken
        BY <1>13, <2>1
      <4>2. tg.taken \in Nat /\ tg.taken <= Len(tg.seen)
        BY <1>1
      <4>3. \A l, m, n \in Nat : n <= l => \A q \in 1 .. m : q + l \in n + 1 .. l + m
        OBVIOUS
      <4>4. k + Len(tg.seen) \in tg.taken + 1 .. Len(tg.seen) + Len(t)
        BY <2>1, <3>2, <4>2, <4>3
      <4>5. QED
        BY <4>1, <4>4
    <3>4. tg'.seen[k + Len(tg.seen)] = x
      <4>1. k + Len(tg.seen) \in DOMAIN (tg.seen \o t) /\ k + Len(tg.seen) \notin DOMAIN tg.seen
        <5>1. DOMAIN (tg.seen \o t) = 1 .. Len(tg.seen \o t) /\ DOMAIN tg.seen = 1 .. Len(tg.seen)
          BY <1>1, <1>12
        <5>2. QED
          BY <2>1, <3>2, <5>1
      <4>2. (tg.seen \o t)[k + Len(tg.seen)] = t[(k + Len(tg.seen)) - Len(tg.seen)]
        BY <1>1, <1>10, <4>1, JoinedAt
      <4>3. (k + Len(tg.seen)) - Len(tg.seen) = k
        BY <1>10, <2>1
      <4>4. QED
        BY <1>13, <3>1, <4>2, <4>3
    <3>5. QED
      BY <1>13, <3>3, <3>4 DEF TgUnread
  <2>6. TgKnown \cup texts \subseteq TgKnown'
    BY <1>4, <2>4, <2>5 DEF TgKnown
  <2>7. ASSUME NEW n \in TgTexts, n <= bot.done \/ n < tg'.offset PROVE n \in TgKnown'
    <3>1. CASE n <= bot.done \/ n < tg.offset
      BY <1>4, <2>6, <3>1 DEF TgInv, TgKept
    <3>2. CASE ~(n <= bot.done \/ n < tg.offset)
      <4>1. n < bot.sent + 1
        BY <1>1, <1>13, <2>7, <3>2
      <4>2. n <= bot.sent
        BY <1>1, <4>1
      <4>3. QED
        BY <1>7, <2>6, <3>2, <4>2
    <3>3. QED
      BY <3>1, <3>2
  <2>8. QED
    BY <1>1, <1>4, <2>3, <2>7 DEF TgInv, TgKept
<1>18. QED
  BY <1>12, <1>13, <1>15, <1>16, <1>17 DEF TgInv

LEMMA TgInvStep == TgInv /\ [TgNext]_tgVars => TgInv'
<1> SUFFICES ASSUME TgInv, [TgNext]_tgVars PROVE TgInv'
  OBVIOUS
<1> USE WiresAssumption
<1>1. CASE TgUserWrites
  <2>1. /\ bot' = [bot EXCEPT !.sent = @ + 1] /\ bot.sent + 1 \in 0 .. TgMax
        /\ tg' = tg /\ tgPast' = tgPast
    BY <1>1 DEF TgUserWrites, TgInv, TgTypes
  <2>2. bot'.sent = bot.sent + 1 /\ bot'.done = bot.done
    BY <2>1 DEF TgInv, TgTypes
  <2>3. TgTypes'
    BY <2>1 DEF TgInv, TgTypes
  <2>4. TgOffset'
    BY <2>1, <2>2 DEF TgInv, TgTypes, TgOffset
  <2>5. TgKept'
    BY <2>1, <2>2 DEF TgInv, TgKept, TgKnown, TgUnread
  <2>6. QED
    BY <2>1, <2>3, <2>4, <2>5 DEF TgInv
<1>2. CASE TgStart
  <2>1. /\ tg' = [at |-> "idle", offset |-> 0, seen |-> <<>>, taken |-> 0]
        /\ bot' = bot /\ tgPast' = tgPast
    BY <1>2 DEF TgStart, TgFirstOffset
  <2>2. TgTypes'
    BY <2>1 DEF TgInv, TgTypes
  <2>3. TgOffset' /\ Increasing(tg'.seen)
    BY <2>1 DEF TgInv, TgTypes, TgOffset, Increasing
  <2>4. TgUnread = {} /\ \A n \in TgTexts : n \in Nat
    BY <1>2 DEF TgStart, TgUnread
  <2>5. TgKept'
    BY <2>1, <2>4 DEF TgInv, TgTypes, TgKept, TgKnown
  <2>6. QED
    BY <2>2, <2>3, <2>5 DEF TgInv
<1>3. CASE TgAsk
  <2>1. /\ tg' = [tg EXCEPT !.at = "asked"] /\ tgPast' = tgPast
        /\ bot' = [bot EXCEPT !.done = IF tg.offset > @ THEN tg.offset - 1 ELSE @]
        /\ tg.at # "off"
    BY <1>3 DEF TgAsk
  <2>2. /\ tg'.offset = tg.offset /\ tg'.seen = tg.seen /\ tg'.taken = tg.taken
        /\ bot'.sent = bot.sent
        /\ bot'.done = IF tg.offset > bot.done THEN tg.offset - 1 ELSE bot.done
    BY <2>1 DEF TgInv, TgTypes
  <2>3. bot'.done \in Nat /\ bot'.done <= bot.sent /\ tg.offset <= bot'.done + 1
    BY <2>2, SMTT(30) DEF TgInv, TgTypes, TgOffset
  <2>4. TgTypes'
    BY <2>1, <2>2, <2>3 DEF TgInv, TgTypes
  <2>5. TgOffset'
    BY <2>1, <2>2, <2>3 DEF TgInv, TgTypes, TgOffset
  <2>6. TgKept'
    <3>1. \A n \in TgTexts : n <= bot'.done => n <= bot.done \/ n < tg.offset
      BY <2>2 DEF TgInv, TgTypes
    <3>2. TgKnown' = TgKnown
      <4>1. tg'.at # "off"
        BY <2>1 DEF TgInv, TgTypes
      <4>2. QED
        BY <2>1, <2>2, <4>1 DEF TgKnown, TgUnread
    <3>3. QED
      BY <2>1, <2>2, <3>1, <3>2 DEF TgInv, TgKept
  <2>7. QED
    BY <2>2, <2>4, <2>5, <2>6 DEF TgInv
<1>4. CASE TgReply
  BY <1>4, TgReplyKeeps
<1>5. CASE TgError \/ TgStop \/ TgCrash
  <2>1. PICK where \in {"off", "backoff", "stopping"} : tg' = [tg EXCEPT !.at = where]
    BY <1>5 DEF TgError, TgAfterError, TgStop, TgCrash
  <2>2. bot' = bot /\ tg.at # "off"
    BY <1>5 DEF TgError, TgStop, TgCrash
  <2>3. /\ tg'.at = where /\ tg'.at # "asked"
        /\ tg'.offset = tg.offset /\ tg'.seen = tg.seen /\ tg'.taken = tg.taken
    BY <2>1 DEF TgInv, TgTypes
  <2>4. \/ tgPast' = tgPast /\ where # "off"
        \/ /\ where = "off"
           /\ tgPast' = [tgPast EXCEPT !.lost = @ \cup {n \in TgUnread : n <= bot.done}]
    BY <1>5, <2>1, <2>3 DEF TgError, TgAfterError, TgStop, TgCrash, TgInv, TgTypes
  <2>5. TgTypes'
    <3>1. tg' \in [at : {"off", "idle", "asked", "backoff", "stopping"},
                   offset : 0 .. TgMax + 1, seen : Seq(Nat), taken : Nat]
      BY <2>1 DEF TgInv, TgTypes
    <3>2. {n \in TgUnread : n <= bot.done} \subseteq Nat
      BY DEF TgInv, TgTypes, TgOffset, TgUnread
    <3>3. QED
      BY <2>2, <2>4, <3>1, <3>2 DEF TgInv, TgTypes
  <2>6. TgKept'
    <3>1. CASE tgPast' = tgPast /\ where # "off"
      <4>1. TgKnown' = TgKnown
        BY <2>2, <2>3, <3>1 DEF TgKnown, TgUnread
      <4>2. QED
        BY <2>2, <2>3, <3>1, <4>1 DEF TgInv, TgKept
    <3>2. CASE /\ where = "off"
               /\ tgPast' = [tgPast EXCEPT !.lost = @ \cup {n \in TgUnread : n <= bot.done}]
      <4>1. /\ tgPast'.yielded = tgPast.yielded /\ tgPast'.shown = tgPast.shown
            /\ tgPast'.replied = tgPast.replied
            /\ tgPast'.lost = tgPast.lost \cup {n \in TgUnread : n <= bot.done}
        BY <3>2 DEF TgInv, TgTypes
      <4>2. ASSUME NEW n \in TgTexts, n <= bot.done PROVE n \in TgKnown'
        BY <4>1, <4>2 DEF TgInv, TgKept, TgKnown
      <4>3. QED
        BY <2>2, <2>3, <3>2, <4>1, <4>2 DEF TgInv, TgKept
    <3>3. QED
      BY <2>4, <3>1, <3>2
  <2>7. QED
    BY <2>2, <2>3, <2>5, <2>6 DEF TgInv, TgOffset
<1>6. CASE TgListen
  <2>1. bot' = bot /\ tg.at # "off" /\ tg.taken \in Nat /\ tg.seen \in Seq(Nat)
    BY <1>6 DEF TgListen, TgInv, TgTypes
  <2>2. CASE /\ tg.taken < Len(tg.seen)
             /\ tg' = [tg EXCEPT !.taken = @ + 1]
             /\ tgPast' = [tgPast EXCEPT !.yielded = @ \cup {tg.seen[tg.taken + 1]}]
    <3>1. /\ tg'.taken = tg.taken + 1 /\ tg'.at = tg.at
          /\ tg'.offset = tg.offset /\ tg'.seen = tg.seen
      BY <2>2 DEF TgInv, TgTypes
    <3>2. /\ tgPast'.yielded = tgPast.yielded \cup {tg.seen[tg.taken + 1]}
          /\ tgPast'.lost = tgPast.lost /\ tgPast'.replied = tgPast.replied
          /\ tgPast'.shown = tgPast.shown
      BY <2>2 DEF TgInv, TgTypes
    <3>3. TgTypes'
      <4>1. tg.taken + 1 \in Nat /\ tg.seen[tg.taken + 1] \in Nat
        BY <2>1, <2>2
      <4>2. tg' = [tg EXCEPT !.taken = tg.taken + 1]
        BY <2>2
      <4>3. tg' \in [at : {"off", "idle", "asked", "backoff", "stopping"},
                     offset : 0 .. TgMax + 1, seen : Seq(Nat), taken : Nat]
        BY <4>1, <4>2 DEF TgInv, TgTypes
      <4>4. tgPast.yielded \cup {tg.seen[tg.taken + 1]} \in SUBSET Nat
        BY <4>1 DEF TgInv, TgTypes
      <4>5. tgPast' \in [yielded : SUBSET Nat, lost : SUBSET Nat,
                         replied : SUBSET Nat, shown : SUBSET Nat]
        <5>1. tgPast' = [tgPast EXCEPT !.yielded = tgPast.yielded \cup {tg.seen[tg.taken + 1]}]
          BY <2>2
        <5>2. QED
          BY <4>4, <5>1 DEF TgInv, TgTypes
      <4>6. QED
        BY <2>1, <4>3, <4>5 DEF TgInv, TgTypes
    <3>4. tg'.taken <= Len(tg'.seen)
      BY <2>1, <2>2, <3>1
    <3>5. \A i \in 1 .. tg'.taken : tg'.seen[i] \in tgPast'.yielded
      <4> TAKE i \in 1 .. tg'.taken
      <4>1. i \in 1 .. tg.taken \/ i = tg.taken + 1
        BY <2>1, <3>1
      <4>2. QED
        BY <3>1, <3>2, <4>1 DEF TgInv, TgKept
    <3>6. ASSUME NEW x \in TgUnread PROVE x \in TgKnown'
      <4>1. PICK i \in tg.taken + 1 .. Len(tg.seen) : x = tg.seen[i]
        BY <2>1, <3>6 DEF TgUnread
      <4>2. i = tg.taken + 1 \/ i \in tg.taken + 1 + 1 .. Len(tg.seen)
        BY <2>1, <4>1
      <4>3. QED
        BY <2>1, <3>1, <3>2, <4>1, <4>2 DEF TgKnown, TgUnread
    <3>7. TgKnown \subseteq TgKnown'
      BY <3>2, <3>6 DEF TgKnown
    <3>8. TgKept'
      BY <2>1, <3>1, <3>2, <3>5, <3>7 DEF TgInv, TgKept
    <3>9. QED
      BY <2>1, <3>1, <3>3, <3>4, <3>8 DEF TgInv, TgOffset
  <2>3. CASE tg.taken = Len(tg.seen) /\ tg' = [tg EXCEPT !.at = "off"] /\ tgPast' = tgPast
    <3>1. /\ tg'.at = "off"
          /\ tg'.offset = tg.offset /\ tg'.seen = tg.seen /\ tg'.taken = tg.taken
      BY <2>3 DEF TgInv, TgTypes
    <3>2. TgTypes'
      BY <2>1, <2>3 DEF TgInv, TgTypes
    <3>3. TgUnread = {}
      <4>1. tg.taken + 1 .. Len(tg.seen) = {}
        BY <2>1, <2>3
      <4>2. QED
        BY <4>1 DEF TgUnread
    <3>4. TgKept'
      BY <2>1, <2>3, <3>1, <3>3 DEF TgInv, TgKept, TgKnown
    <3>5. QED
      BY <2>1, <3>1, <3>2, <3>4 DEF TgInv, TgOffset
  <2>4. QED
    BY <1>6, <2>2, <2>3 DEF TgListen
<1>7. ASSUME NEW n \in TgTexts, TgRespond(n) PROVE TgInv'
  <2>1. n \in tgPast.yielded
    <3>1. PICK i \in DOMAIN SubSeq(tg.seen, 1, tg.taken) : n = SubSeq(tg.seen, 1, tg.taken)[i]
      BY <1>7 DEF TgRespond, ToSet
    <3>2. tg.seen \in Seq(Nat) /\ tg.taken \in Nat /\ tg.taken <= Len(tg.seen)
      BY DEF TgInv, TgTypes, TgOffset
    <3>3. i \in 1 .. tg.taken /\ n = tg.seen[i]
      BY <3>1, <3>2, SMTT(30)
    <3>4. QED
      BY <3>3 DEF TgInv, TgKept
  <2>2. tgPast' = [tgPast EXCEPT !.replied = @ \cup {n}] /\ tg' = tg /\ bot' = bot
    BY <1>7 DEF TgRespond, TgSend, TgInv, TgTypes
  <2>3. tgPast'.yielded = tgPast.yielded /\ tgPast'.shown = tgPast.shown
        /\ tgPast'.replied = tgPast.replied \cup {n} /\ tgPast'.lost = tgPast.lost
    BY <2>2 DEF TgInv, TgTypes
  <2>4. TgTypes'
    <3>1. tgPast.replied \cup {n} \in SUBSET Nat
      BY DEF TgInv, TgTypes
    <3>2. tgPast' = [tgPast EXCEPT !.replied = tgPast.replied \cup {n}]
      BY <2>2
    <3>3. QED
      BY <2>2, <3>1, <3>2 DEF TgInv, TgTypes
  <2>5. QED
    BY <2>1, <2>2, <2>3, <2>4 DEF TgInv, TgOffset, TgKept, TgKnown, TgUnread
<1>8. CASE UNCHANGED tgVars
  BY <1>8 DEF tgVars, TgInv, TgTypes, TgOffset, TgKept, TgKnown, TgUnread
<1>9. QED
  BY <1>1, <1>2, <1>3, <1>4, <1>5, <1>6, <1>7, <1>8 DEF TgNext

\* A step that leaves the queue alone, and connects no task that was stopped.
LEMMA GwMoves ==
    ASSUME GwInv, NEW where \in {"dialing", "reading", "backoff", "cancelled"}, NEW up \in BOOLEAN,
           gw.end = 0, gw' = [gw EXCEPT !.at = where, !.ws = up],
           line' \in {"none", "up", "closed"}, UNCHANGED <<heard, told>>
    PROVE  GwInv'
<1>1. /\ gw'.at = where /\ gw'.queue = gw.queue /\ gw'.end = 0 /\ gw'.got = gw.got
  BY DEF GwInv, GwTypes
<1>2. GwTypes'
  BY DEF GwInv, GwTypes
<1>3. QueueInv' /\ HeardInv'
  BY <1>1 DEF GwInv, QueueInv, HeardInv
<1>4. QED
  BY <1>1, <1>2, <1>3 DEF GwInv, StopInv

LEMMA GwInvStep == GwInv /\ [GwNext]_gwVars => GwInv' /\
                   (gw.end # 0 => line' # "up" /\ ~gw'.ws /\ told' \in {told, "unavailable"})
<1> SUFFICES ASSUME GwInv, [GwNext]_gwVars
             PROVE  /\ GwInv'
                    /\ gw.end # 0 => line' # "up" /\ ~gw'.ws /\ told' \in {told, "unavailable"}
  OBVIOUS
<1> USE WiresAssumption
<1>1. CASE GwStart \/ GwConnect \/ GwBackOff \/ GwRedial \/ GwStop
  <2>1. gw.end = 0
    BY <1>1 DEF GwInv, StopInv, GwStart, GwConnect, GwBackOff, GwRedial, GwStop
  <2>2. gw.ws \in BOOLEAN /\ gw = [gw EXCEPT !.ws = gw.ws]
    BY DEF GwInv, GwTypes
  <2>3. CASE GwStart \/ GwRedial
    <3>1. gw' = [gw EXCEPT !.at = "dialing", !.ws = gw.ws]
      BY <2>2, <2>3 DEF GwStart, GwRedial, GwInv, GwTypes
    <3>2. UNCHANGED <<line, heard, told>> /\ line \in {"none", "up", "closed"}
      BY <2>3 DEF GwStart, GwRedial, GwInv, GwTypes
    <3>3. QED
      BY <2>1, <2>2, <3>1, <3>2, GwMoves
  <2>4. CASE GwConnect
    BY <2>1, <2>4, GwMoves DEF GwConnect
  <2>5. CASE GwBackOff
    <3>1. line' \in {"none", "up", "closed"}
      BY <2>5 DEF GwBackOff, GwInv, GwTypes
    <3>2. QED
      BY <2>1, <2>5, <3>1, GwMoves DEF GwBackOff
  <2>6. CASE GwStop
    <3>1. gw' = [gw EXCEPT !.at = "cancelled", !.ws = gw.ws]
      BY <2>2, <2>6 DEF GwStop, GwInv, GwTypes
    <3>2. UNCHANGED <<line, heard, told>> /\ line \in {"none", "up", "closed"}
      BY <2>6 DEF GwStop, GwInv, GwTypes
    <3>3. QED
      BY <2>1, <2>2, <3>1, <3>2, GwMoves
  <2>7. QED
    BY <1>1, <2>3, <2>4, <2>5, <2>6
<1>2. CASE GwFrame
  <2>1. gw.end = 0 /\ UNCHANGED <<line, heard, told>>
    BY <1>2 DEF GwFrame, GwInv, StopInv
  <2>2. /\ gw.got \in Nat /\ gw.queue \in Seq(Nat) /\ gw.got < Len(GwFrames)
        /\ gw.got + 1 <= Len(GwFrames)
    BY <1>2 DEF GwFrame, GwInv, GwTypes
  <2>3. PICK q : /\ q = IF GwFrames[gw.got + 1] = "junk" THEN gw.queue
                        ELSE Append(gw.queue, gw.got + 1)
                 /\ gw' = [gw EXCEPT !.got = gw.got + 1, !.queue = q]
    BY <1>2 DEF GwFrame
  <2>4. /\ q \in Seq(Nat) /\ Increasing(q) /\ Len(gw.queue) <= Len(q)
        /\ \A i \in DOMAIN gw.queue : i \in DOMAIN q /\ q[i] = gw.queue[i]
        /\ \A i \in DOMAIN q : q[i] \in 1 .. gw.got + 1
        /\ \A n \in 1 .. gw.got + 1 :
               GwFrames[n] # "junk" => \E i \in DOMAIN q : q[i] = n
    <3>1. CASE GwFrames[gw.got + 1] = "junk"
      <4>1. q = gw.queue /\ Len(q) \in Nat
        BY <2>2, <2>3, <3>1
      <4>2. \A i \in DOMAIN q : q[i] \in 1 .. gw.got + 1
        BY <2>2, <4>1 DEF GwInv, QueueInv
      <4>3. \A n \in 1 .. gw.got + 1 : GwFrames[n] # "junk" => n \in 1 .. gw.got
        BY <2>2, <3>1
      <4>4. QED
        BY <2>2, <4>1, <4>2, <4>3 DEF GwInv, QueueInv
    <3>2. CASE GwFrames[gw.got + 1] # "junk"
      <4>1. q = Append(gw.queue, gw.got + 1)
        BY <2>3, <3>2
      <4>2. \A i \in DOMAIN gw.queue : gw.queue[i] < gw.got + 1
        BY <2>2 DEF GwInv, QueueInv
      <4>3. q \in Seq(Nat) /\ Increasing(q)
        BY <2>2, <4>1, <4>2, AppendedIncrease DEF GwInv, QueueInv
      <4>4. /\ Len(q) = Len(gw.queue) + 1 /\ Len(gw.queue) \in Nat
            /\ q[Len(gw.queue) + 1] = gw.got + 1
            /\ \A i \in DOMAIN gw.queue : i \in DOMAIN q /\ q[i] = gw.queue[i]
            /\ \A i \in DOMAIN q : i \in DOMAIN gw.queue \/ i = Len(gw.queue) + 1
            /\ Len(gw.queue) + 1 \in DOMAIN q
        BY <2>2, <4>1
      <4>5. ASSUME NEW i \in DOMAIN q PROVE q[i] \in 1 .. gw.got + 1
        <5>1. CASE i \in DOMAIN gw.queue
          <6>1. gw.queue[i] \in 1 .. gw.got
            BY <5>1 DEF GwInv, QueueInv
          <6>2. QED
            BY <2>2, <4>4, <5>1, <6>1
        <5>2. CASE i = Len(gw.queue) + 1
          BY <2>2, <4>4, <5>2
        <5>3. QED
          BY <4>4, <4>5, <5>1, <5>2
      <4>6. ASSUME NEW n \in 1 .. gw.got + 1, GwFrames[n] # "junk"
            PROVE  \E i \in DOMAIN q : q[i] = n
        <5>1. CASE n = gw.got + 1
          BY <4>4, <5>1
        <5>2. CASE n # gw.got + 1
          <6>1. n \in 1 .. gw.got
            BY <2>2, <5>2
          <6>2. PICK i \in DOMAIN gw.queue : gw.queue[i] = n
            BY <4>6, <6>1 DEF GwInv, QueueInv
          <6>3. QED
            BY <4>4, <6>2
        <5>3. QED
          BY <5>1, <5>2
      <4>7. QED
        BY <4>3, <4>4, <4>5, <4>6
    <3>3. QED
      BY <3>1, <3>2
  <2>5. /\ gw'.queue = q /\ gw'.got = gw.got + 1 /\ gw'.end = gw.end /\ gw'.ws = gw.ws
        /\ gw'.at = gw.at
    BY <2>3 DEF GwInv, GwTypes
  <2>6. GwTypes'
    <3>1. gw.got + 1 \in Nat
      BY <2>2
    <3>2. QED
      BY <2>1, <2>3, <2>4, <3>1 DEF GwInv, GwTypes
  <2>7. QueueInv'
    BY <2>2, <2>4, <2>5 DEF QueueInv
  <2>8. HeardInv'
    <3>1. /\ heard.taken \in Nat /\ heard.taken <= Len(gw.queue) /\ Len(gw.queue) \in Nat
          /\ Len(q) \in Nat
      BY <2>2, <2>4 DEF GwInv, GwTypes, HeardInv
    <3>2. \A i \in 1 .. heard.taken : q[i] = gw.queue[i]
      BY <2>2, <2>4, <3>1
    <3>3. heard.taken <= Len(q)
      BY <2>4, <3>1
    <3>4. QED
      BY <2>1, <2>5, <3>2, <3>3 DEF GwInv, HeardInv
  <2>9. QED
    BY <2>1, <2>5, <2>6, <2>7, <2>8 DEF GwInv, StopInv
<1>3. CASE GwDrop
  <2>1. line' = "closed" /\ UNCHANGED <<gw, heard, told>> /\ line = "up"
    BY <1>3 DEF GwDrop
  <2>2. QED
    BY <2>1 DEF GwInv, GwTypes, QueueInv, HeardInv, StopInv
<1>4. CASE GwStopped
  <2>1. /\ gw' = [gw EXCEPT !.at = "stopped", !.ws = FALSE, !.end = Len(gw.queue) + 1]
        /\ line' = IF line = "up" THEN "closed" ELSE line
        /\ UNCHANGED <<heard, told>> /\ gw.at = "cancelled"
    BY <1>4 DEF GwStopped, GwCancelled
  <2>2. gw.end = 0 /\ Len(gw.queue) + 1 \in Nat
    BY <2>1 DEF GwInv, GwTypes, StopInv
  <2>3. /\ gw'.at = "stopped" /\ ~gw'.ws /\ gw'.end = Len(gw.queue) + 1
        /\ gw'.queue = gw.queue /\ gw'.got = gw.got
    BY <2>1 DEF GwInv, GwTypes
  <2>4. GwTypes'
    BY <2>1, <2>2 DEF GwInv, GwTypes
  <2>5. QueueInv'
    BY <2>3 DEF GwInv, QueueInv
  <2>6. ~heard.ended
    BY <2>2 DEF GwInv, GwTypes, HeardInv
  <2>7. HeardInv'
    BY <2>1, <2>3, <2>6 DEF GwInv, HeardInv
  <2>8. StopInv'
    BY <2>1, <2>3 DEF StopInv
  <2>9. QED
    BY <2>2, <2>4, <2>5, <2>7, <2>8 DEF GwInv
<1>5. CASE GwListen
  <2>1. UNCHANGED <<gw, line, told>> /\ ~heard.ended
    BY <1>5 DEF GwListen
  <2>2. CASE heard.taken + 1 = gw.end /\ heard' = [heard EXCEPT !.ended = TRUE]
    <3>1. heard'.taken = heard.taken /\ heard'.yielded = heard.yielded
      BY <2>2 DEF GwInv, GwTypes
    <3>2. GwTypes'
      BY <2>1, <2>2 DEF GwInv, GwTypes
    <3>3. HeardInv'
      BY <2>1, <2>2, <3>1 DEF GwInv, HeardInv
    <3>4. QED
      BY <2>1, <3>2, <3>3 DEF GwInv, QueueInv, StopInv
  <2>3. CASE heard.taken < Len(gw.queue) /\
             LET n == gw.queue[heard.taken + 1] IN
             heard' = [heard EXCEPT !.taken = @ + 1,
                           !.yielded = IF GwYields(GwFrames[n]) THEN Append(@, n) ELSE @]
    <3> DEFINE k0 == heard.taken + 1
               n == gw.queue[k0]
    <3>1. /\ heard.taken \in Nat /\ Len(gw.queue) \in Nat /\ gw.queue \in Seq(Nat)
          /\ k0 \in DOMAIN gw.queue /\ k0 \in Nat /\ k0 <= Len(gw.queue) /\ n \in Nat
          /\ heard.yielded \in Seq(Nat)
      BY <2>3 DEF GwInv, GwTypes
    <3>2. PICK y : /\ y = IF GwFrames[n] = "utterance" THEN Append(heard.yielded, n) ELSE heard.yielded
                   /\ heard' = [heard EXCEPT !.taken = k0, !.yielded = y]
      BY <2>3 DEF GwYields
    <3>3. \A i \in 1 .. heard.taken : gw.queue[i] < n
      <4>1. \A i \in 1 .. heard.taken : i \in DOMAIN gw.queue /\ i < k0
        BY <3>1, SMTT(30)
      <4>2. QED
        BY <3>1, <4>1 DEF GwInv, QueueInv, Increasing
    <3> HIDE DEF n
    <3>4. \A i \in 1 .. k0 : i \in 1 .. heard.taken \/ (i = k0 /\ gw.queue[i] = n)
      BY <3>1 DEF n
    <3>5. \A i \in 1 .. heard.taken : i \in 1 .. k0
      BY <3>1
    <3>6. k0 \in 1 .. k0 /\ gw.queue[k0] = n
      BY <3>1 DEF n
    <3> HIDE DEF k0
    <3>7. /\ y \in Seq(Nat) /\ Increasing(y)
          /\ \A k \in DOMAIN y : \E i \in 1 .. k0 :
                 y[k] = gw.queue[i] /\ GwFrames[gw.queue[i]] = "utterance"
          /\ \A i \in 1 .. k0 : GwFrames[gw.queue[i]] = "utterance"
                 => \E k \in DOMAIN y : y[k] = gw.queue[i]
      <4>1. CASE GwFrames[n] # "utterance"
        <5>1. y = heard.yielded
          BY <3>2, <4>1
        <5>2. QED
          BY <3>1, <3>4, <3>5, <4>1, <5>1 DEF GwInv, HeardInv
      <4>2. CASE GwFrames[n] = "utterance"
        <5>1. y = Append(heard.yielded, n)
          BY <3>2, <4>2
        <5>2. /\ Len(heard.yielded) + 1 \in DOMAIN y /\ y[Len(heard.yielded) + 1] = n
              /\ \A k \in DOMAIN heard.yielded : k \in DOMAIN y /\ y[k] = heard.yielded[k]
              /\ \A k \in DOMAIN y : k \in DOMAIN heard.yielded \/ y[k] = n
          BY <3>1, <5>1, SMTT(30)
        <5>3. ASSUME NEW k \in DOMAIN heard.yielded PROVE heard.yielded[k] < n
          <6>1. PICK i \in 1 .. heard.taken : heard.yielded[k] = gw.queue[i]
            BY <5>3 DEF GwInv, HeardInv
          <6>2. QED
            BY <3>3, <6>1
        <5>4. y \in Seq(Nat) /\ Increasing(y)
          BY <3>1, <5>1, <5>3, AppendedIncrease DEF GwInv, HeardInv
        <5>5. ASSUME NEW k \in DOMAIN y
              PROVE  \E i \in 1 .. k0 : y[k] = gw.queue[i] /\ GwFrames[gw.queue[i]] = "utterance"
          <6>1. CASE k \in DOMAIN heard.yielded
            BY <3>5, <5>2, <6>1 DEF GwInv, HeardInv
          <6>2. CASE y[k] = n
            BY <3>6, <4>2, <6>2
          <6>3. QED
            BY <5>2, <5>5, <6>1, <6>2
        <5>6. ASSUME NEW i \in 1 .. k0, GwFrames[gw.queue[i]] = "utterance"
              PROVE  \E k \in DOMAIN y : y[k] = gw.queue[i]
          <6>1. CASE i \in 1 .. heard.taken
            <7>1. PICK k \in DOMAIN heard.yielded : heard.yielded[k] = gw.queue[i]
              BY <5>6, <6>1 DEF GwInv, HeardInv
            <7>2. QED
              BY <5>2, <7>1
          <6>2. CASE gw.queue[i] = n
            BY <5>2, <6>2
          <6>3. QED
            BY <3>4, <5>6, <6>1, <6>2
        <5>7. QED
          BY <5>4, <5>5, <5>6
      <4>3. QED
        BY <4>1, <4>2
    <3>8. heard'.taken = k0 /\ heard'.yielded = y /\ heard'.ended = heard.ended
      BY <3>2 DEF GwInv, GwTypes
    <3>9. GwTypes'
      BY <2>1, <3>1, <3>2, <3>7 DEF GwInv, GwTypes
    <3>10. HeardInv'
      BY <2>1, <3>1, <3>7, <3>8 DEF HeardInv
    <3>11. QED
      BY <2>1, <3>9, <3>10 DEF GwInv, QueueInv, StopInv
  <2>4. QED
    BY <1>5, <2>2, <2>3 DEF GwListen
<1>6. CASE GwSay
  <2>1. /\ told' = IF ~gw.ws THEN "unavailable" ELSE IF line = "up" THEN "sent" ELSE "raised"
        /\ UNCHANGED <<gw, line, heard>>
    BY <1>6 DEF GwSay
  <2>2. gw.end # 0 => line # "up" /\ ~gw.ws
    BY DEF GwInv, StopInv
  <2>3. QED
    BY <2>1, <2>2 DEF GwInv, GwTypes, QueueInv, HeardInv, StopInv
<1>7. CASE UNCHANGED gwVars
  BY <1>7 DEF gwVars, GwInv, GwTypes, QueueInv, HeardInv, StopInv
<1>8. QED
  BY <1>1, <1>2, <1>3, <1>4, <1>5, <1>6, <1>7 DEF GwNext

LEMMA WireInvStep == WireInv /\ [WireNext]_wireVars => WireInv'
<1> SUFFICES ASSUME WireInv, [WireNext]_wireVars PROVE WireInv'
  OBVIOUS
<1>1. [TgNext]_tgVars
  BY DEF WireNext, wireVars, tgVars
<1>2. [GwNext]_gwVars
  BY DEF WireNext, wireVars, gwVars
<1>3. QED
  BY <1>1, <1>2, TgInvStep, GwInvStep DEF WireInv

\* For every number of messages and any frames: however many polls and connections
\* fail, and wherever a process is stopped or crashes, no process yields a message
\* twice or out of turn, and one that Telegram has forgotten unyielded waits in the
\* queue or was acknowledged and unread when a process crashed.
THEOREM WiresAccount == WireSpec => []MessagesAccounted
<1>1. WireSpec => []WireInv
  BY WireInvInit, WireInvStep, PTL DEF WireSpec
<1>2. QED
  BY <1>1, WireInvKeeps, PTL

\* Whatever comes after a stop of the voice gateway, its connection stays closed and
\* a speaker is told so.
THEOREM GatewayStaysStopped == WireSpec => GwStaysStopped
<1>1. WireSpec => []WireInv
  BY WireInvInit, WireInvStep, PTL DEF WireSpec
<1>2. WireInv /\ [WireNext]_wireVars
        => [gw.end # 0 => /\ line' # "up" /\ ~gw'.ws
                          /\ told' \in {told, "unavailable"}]_gwVars
  <2> SUFFICES ASSUME WireInv, [WireNext]_wireVars
               PROVE  [gw.end # 0 => /\ line' # "up" /\ ~gw'.ws
                                     /\ told' \in {told, "unavailable"}]_gwVars
    OBVIOUS
  <2>1. [GwNext]_gwVars
    BY DEF WireNext, wireVars, gwVars
  <2>2. QED
    BY <2>1, GwInvStep DEF WireInv
<1>3. QED
  BY <1>1, <1>2, PTL DEF WireSpec, GwStaysStopped

-----------------------------------------------------------------------------
(* The scaffold of a Brain *)

\* The steps a write can leave in a plan, and the evaluations a log can hold.
Steps == UNION {{ValidStep(raw[i]) : i \in DOMAIN raw} : raw \in ScWrites}
Evaluations == {ValidEntry(raw) : raw \in ScEntries}

UniqueIds(plan) == \A i, j \in DOMAIN plan : plan[i].id = plan[j].id => i = j

ScaffoldTypes ==
    /\ planOf \in [ScRobots -> Nat] /\ reflectionOf \in [ScRobots -> Nat]
    /\ planTool \in Nat /\ reflectionTool \in Nat
    /\ plans \in Seq(Seq(Steps)) /\ entries \in Seq(Seq(Evaluations))
    /\ \A r \in ScRobots : planOf[r] <= Len(plans) /\ reflectionOf[r] <= Len(entries)
    /\ planTool <= Len(plans) /\ reflectionTool <= Len(entries)
    /\ calls \in 0 .. MaxScCalls

PlansUnique == \A k \in DOMAIN plans : UniqueIds(plans[k])

MergeInv ==
    /\ MergeKeepsTheRest
    /\ merging.old # <<>> => merging.store \in DOMAIN plans

\* The tools work on the stores of some robot, from the first injection on.
OwnInv ==
    /\ (\E q \in ScRobots : planOf[q] # 0) => planTool # 0
    /\ planTool # 0 => \E q \in ScRobots : planOf[q] = planTool
    /\ (\E q \in ScRobots : reflectionOf[q] # 0) => reflectionTool # 0
    /\ reflectionTool # 0 => \E q \in ScRobots : reflectionOf[q] = reflectionTool
    /\ \A q \in ScRobots : reflectionOf[q] # 0 => planOf[q] # 0

ScaffoldInv == ScaffoldTypes /\ PlansUnique /\ MergeInv /\ OwnInv

LEMMA StepStatus == ASSUME NEW s \in Steps PROVE s.status \in PlanStatuses
<1>1. PICK raw \in ScWrites : s \in {ValidStep(raw[i]) : i \in DOMAIN raw}
  BY DEF Steps
<1>2. PICK i \in DOMAIN raw : s = ValidStep(raw[i])
  BY <1>1
<1>3. s.status = IF raw[i].status \in PlanStatuses THEN raw[i].status ELSE "pending"
  BY <1>2 DEF ValidStep
<1>4. QED
  BY <1>3 DEF PlanStatuses

\* The last evaluation of a target is the one the injection goes by.
LEMMA LatestTells ==
    ASSUME NEW log \in Seq(Evaluations), NEW i \in DOMAIN log,
           \A j \in i + 1 .. Len(log) : log[j].target # log[i].target
    PROVE  Latest(log, log[i].target) = i
<1> DEFINE t == log[i].target
           isLatest(k) == log[k].target = t /\ \A j \in DOMAIN log : log[j].target = t => j <= k
<1>1. i \in 1 .. Len(log) /\ Len(log) \in Nat /\ DOMAIN log = 1 .. Len(log)
  OBVIOUS
<1>2. isLatest(i)
  BY <1>1
<1>3. \A k \in DOMAIN log : isLatest(k) => k = i
  <2> SUFFICES ASSUME NEW k \in DOMAIN log, isLatest(k) PROVE k = i
    OBVIOUS
  <2>1. i <= k /\ k <= i /\ k \in Nat /\ i \in Nat
    BY <1>1, <1>2
  <2>2. QED
    BY <2>1
<1> HIDE DEF isLatest
<1>4. (CHOOSE k \in DOMAIN log : isLatest(k)) = i
  BY <1>2, <1>3
<1>5. QED
  BY <1>4 DEF Latest, isLatest

LEMMA ScaffoldInvKeeps == ScaffoldInv => ScaffoldIsKept
<1> SUFFICES ASSUME ScaffoldInv PROVE ScaffoldIsKept
  OBVIOUS
<1> USE ScaffoldAssumption
<1>1. TypeOKScaffold
  <2>1. \A k \in DOMAIN plans : \A i \in DOMAIN plans[k] : plans[k][i].status \in PlanStatuses
    <3> TAKE k \in DOMAIN plans
    <3>1. plans[k] \in Seq(Steps)
      BY DEF ScaffoldInv, ScaffoldTypes
    <3> TAKE i \in DOMAIN plans[k]
    <3>2. plans[k][i] \in Steps
      BY <3>1
    <3>3. QED
      BY <3>2, StepStatus
  <2>2. \A k \in DOMAIN entries : \A i \in DOMAIN entries[k] : entries[k][i].verdict \in Verdicts
    <3> TAKE k \in DOMAIN entries
    <3>1. entries[k] \in Seq(Evaluations)
      BY DEF ScaffoldInv, ScaffoldTypes
    <3> TAKE i \in DOMAIN entries[k]
    <3>2. PICK raw \in ScEntries : entries[k][i] = ValidEntry(raw)
      BY <3>1 DEF Evaluations
    <3>3. QED
      BY <3>2 DEF ValidEntry, Verdicts
  <2>3. /\ \A r \in ScRobots : planOf[r] \in 0 .. Len(plans)
                               /\ reflectionOf[r] \in 0 .. Len(entries)
        /\ planTool \in 0 .. Len(plans) /\ reflectionTool \in 0 .. Len(entries)
    BY DEF ScaffoldInv, ScaffoldTypes
  <2>4. QED
    BY <2>1, <2>2, <2>3 DEF ScaffoldInv, ScaffoldTypes, TypeOKScaffold
<1>2. PlanIdsUnique /\ MergeKeepsTheRest
  BY DEF ScaffoldInv, PlansUnique, UniqueIds, PlanIdsUnique, MergeInv
<1>3. FailureIsTold
  <2> SUFFICES ASSUME NEW r \in ScRobots, reflectionOf[r] # 0,
                      NEW i \in DOMAIN entries[reflectionOf[r]],
                      \A j \in i + 1 .. Len(entries[reflectionOf[r]]) :
                          entries[reflectionOf[r]][j].target # entries[reflectionOf[r]][i].target
               PROVE  entries[reflectionOf[r]][i].target \in ReflectionShown(reflectionOf[r])
                          <=> entries[reflectionOf[r]][i].verdict # "pass"
    BY DEF FailureIsTold
  <2> DEFINE log == entries[reflectionOf[r]]
  <2>1. log \in Seq(Evaluations)
    <3>1. reflectionOf[r] \in DOMAIN entries
      BY DEF ScaffoldInv, ScaffoldTypes
    <3>2. QED
      BY <3>1 DEF ScaffoldInv, ScaffoldTypes
  <2>2. Latest(log, log[i].target) = i
    BY <2>1, LatestTells
  <2>3. ReflectionShown(reflectionOf[r])
          = {t \in {log[k].target : k \in DOMAIN log} : log[Latest(log, t)].verdict # "pass"}
    BY DEF ReflectionShown
  <2>4. QED
    BY <2>2, <2>3
<1>4. ScaffoldIsOwn
  <2> SUFFICES ASSUME NEW r \in ScRobots, \A q \in ScRobots \ {r} : planOf[q] = 0, planOf[r] # 0
               PROVE  /\ PlanShown(planOf[r]) = PlanShown(planTool)
                      /\ ReflectionShown(reflectionOf[r]) = ReflectionShown(reflectionTool)
    BY DEF ScaffoldIsOwn
  <2>1. planOf[r] = planTool
    BY DEF ScaffoldInv, OwnInv
  <2>2. reflectionOf[r] = reflectionTool
    <3>1. CASE reflectionTool # 0
      BY <3>1 DEF ScaffoldInv, OwnInv
    <3>2. CASE reflectionTool = 0
      BY <3>2 DEF ScaffoldInv, OwnInv
    <3>3. QED
      BY <3>1, <3>2
  <2>3. QED
    BY <2>1, <2>2
<1>5. QED
  BY <1>1, <1>2, <1>3, <1>4 DEF ScaffoldIsKept

LEMMA ScaffoldInvInit == ScaffoldInit => ScaffoldInv
<1> SUFFICES ASSUME ScaffoldInit PROVE ScaffoldInv
  OBVIOUS
<1> USE ScaffoldAssumption
<1>1. ScaffoldTypes
  <2>1. plans \in Seq(Seq(Steps)) /\ entries \in Seq(Seq(Evaluations))
        /\ Len(plans) = 0 /\ Len(entries) = 0
    BY DEF ScaffoldInit
  <2>2. QED
    BY <2>1 DEF ScaffoldInit, ScaffoldTypes
<1>2. PlansUnique /\ OwnInv
  BY DEF ScaffoldInit, PlansUnique, OwnInv
<1>3. MergeInv
  BY DEF ScaffoldInit, NotMerged, MergeInv, MergeKeepsTheRest
<1>4. QED
  BY <1>1, <1>2, <1>3 DEF ScaffoldInv

\* InOrder walks through each of the places once, and no other.
LEMMA PickedOnce ==
    ASSUME NEW n \in Nat, NEW at \in SUBSET (1 .. n)
    PROVE  /\ Cardinality(at) \in Nat
           /\ \A k \in 1 .. Cardinality(at) : InOrder(at)[k] \in at
           /\ \A k, l \in 1 .. Cardinality(at) : InOrder(at)[k] = InOrder(at)[l] => k = l
<1> DEFINE o == InOrder(at)
           m == Cardinality(at)
<1>1. m \in Nat /\ o \in [1 .. m -> at] /\ Increasing(o)
  BY InOrderSorts
<1> HIDE DEF o, m
<1>2. ASSUME NEW k \in 1 .. m, NEW l \in 1 .. m, o[k] = o[l] PROVE k = l
  <2>1. o[k] \in Nat /\ ~(o[k] < o[l]) /\ ~(o[l] < o[k])
    <3>1. o[k] \in at /\ at \subseteq Nat
      BY <1>1
    <3>2. QED
      <4>1. o[k] \in Nat /\ o[l] = o[k]
        BY <1>2, <3>1
      <4>2. QED
        BY <4>1
  <2>2. ~(k < l) /\ ~(l < k)
    BY <1>1, <2>1 DEF Increasing
  <2>3. QED
    BY <1>1, <2>2
<1>3. \A k \in 1 .. m : o[k] \in at
  BY <1>1
<1>4. QED
  BY <1>1, <1>2, <1>3 DEF o, m

\* What a write makes of its raw steps: one step an id, the last that was given.
Made(raw) == [i \in DOMAIN Deduped(raw) |-> ValidStep(Deduped(raw)[i])]

LEMMA MadeUnique ==
    ASSUME NEW raw \in ScWrites PROVE Made(raw) \in Seq(Steps) /\ UniqueIds(Made(raw))
<1> DEFINE isLast(i) == \A j \in DOMAIN raw : j > i => Id(raw[j].id) # Id(raw[i].id)
           at == {i \in DOMAIN raw : isLast(i)}
           o == InOrder(at)
           m == Cardinality(at)
<1>1. DOMAIN raw = 1 .. Len(raw) /\ Len(raw) \in Nat
  BY ScaffoldAssumption
<1>2. at \in SUBSET (1 .. Len(raw))
  BY <1>1
<1>3. Deduped(raw) = Picked(raw, at)
  BY DEF Deduped
<1>4. \A i, j \in at : Id(raw[i].id) = Id(raw[j].id) => i = j
  <2> SUFFICES ASSUME NEW i \in at, NEW j \in at, Id(raw[i].id) = Id(raw[j].id) PROVE i = j
    OBVIOUS
  <2>1. ~(j > i) /\ ~(i > j)
    OBVIOUS
  <2>2. i \in Nat /\ j \in Nat
    BY <1>1
  <2>3. QED
    BY <2>1, <2>2
<1> HIDE DEF at
<1>5. /\ m \in Nat /\ Picked(raw, at) = [k \in 1 .. m |-> raw[o[k]]]
      /\ \A k \in 1 .. m : o[k] \in at
      /\ \A k, l \in 1 .. m : o[k] = o[l] => k = l
  BY <1>1, <1>2, PickedOnce, Zenon DEF Picked
<1> HIDE DEF o, m
<1>6. Made(raw) = [k \in 1 .. m |-> ValidStep(raw[o[k]])]
  BY <1>3, <1>5 DEF Made
<1>7. ASSUME NEW k \in 1 .. m PROVE ValidStep(raw[o[k]]) \in Steps
  <2>1. o[k] \in DOMAIN raw
    BY <1>1, <1>2, <1>5
  <2>2. QED
    BY <2>1 DEF Steps
<1>8. Made(raw) \in Seq(Steps)
  <2>1. Made(raw) \in [1 .. m -> Steps]
    BY <1>6, <1>7
  <2>2. QED
    BY <1>5, <2>1, SeqDef
<1>9. UniqueIds(Made(raw))
  <2> SUFFICES ASSUME NEW k \in 1 .. m, NEW l \in 1 .. m, Made(raw)[k].id = Made(raw)[l].id
               PROVE  k = l
    BY <1>6 DEF UniqueIds
  <2>1. Made(raw)[k].id = Id(raw[o[k]].id) /\ Made(raw)[l].id = Id(raw[o[l]].id)
    <3>1. Made(raw)[k] = ValidStep(raw[o[k]]) /\ Made(raw)[l] = ValidStep(raw[o[l]])
      BY <1>6
    <3>2. \A x : ValidStep(x).id = Id(x.id)
      BY DEF ValidStep
    <3>3. QED
      BY <3>1, <3>2
  <2>2. QED
    BY <1>4, <1>5, <2>1, ZenonT(30)
<1>10. QED
  BY <1>8, <1>9

\* A merge keeps the steps it finds where they are, and their ids apart.
LEMMA MergedKeeps ==
    ASSUME NEW old \in Seq(Steps), NEW new \in Seq(Steps), UniqueIds(old), UniqueIds(new)
    PROVE  /\ Merged(old, new) \in Seq(Steps) /\ UniqueIds(Merged(old, new))
           /\ \A i \in DOMAIN old :
                  /\ Merged(old, new)[i].id = old[i].id
                  /\ old[i].id \notin Ids(new) => Merged(old, new)[i] = old[i]
<1> DEFINE update(s) == IF s.id \in Ids(new) THEN CHOOSE n \in ToSet(new) : n.id = s.id ELSE s
           u == [i \in DOMAIN old |-> update(old[i])]
           at == {i \in DOMAIN new : new[i].id \notin Ids(old)}
           o == InOrder(at)
           m == Cardinality(at)
           p == Picked(new, at)
<1>1. /\ DOMAIN old = 1 .. Len(old) /\ Len(old) \in Nat
      /\ DOMAIN new = 1 .. Len(new) /\ Len(new) \in Nat
  OBVIOUS
<1>2. ASSUME NEW i \in DOMAIN old
      PROVE  /\ update(old[i]) \in Steps /\ update(old[i]).id = old[i].id
             /\ old[i].id \notin Ids(new) => update(old[i]) = old[i]
  <2>1. CASE old[i].id \notin Ids(new)
    BY <2>1
  <2>2. CASE old[i].id \in Ids(new)
    <3>1. \E n \in ToSet(new) : n.id = old[i].id
      BY <2>2 DEF Ids, ToSet
    <3>2. PICK found : found = (CHOOSE n \in ToSet(new) : n.id = old[i].id)
      OBVIOUS
    <3>3. found \in ToSet(new) /\ found.id = old[i].id
      BY <3>1, <3>2
    <3>4. found \in Steps
      BY <3>3 DEF ToSet
    <3>5. update(old[i]) = found
      BY <2>2, <3>2
    <3>6. QED
      BY <2>2, <3>3, <3>4, <3>5
  <2>3. QED
    BY <2>1, <2>2
<1>3. at \in SUBSET (1 .. Len(new))
  BY <1>1
<1>4. \A j \in at : j \in DOMAIN new /\ new[j].id \notin Ids(old)
  OBVIOUS
<1>5. Merged(old, new) = u \o p
  BY DEF Merged
<1> HIDE DEF at, update
<1>6. /\ m \in Nat /\ p = [k \in 1 .. m |-> new[o[k]]]
      /\ \A k \in 1 .. m : o[k] \in at
      /\ \A k, l \in 1 .. m : o[k] = o[l] => k = l
  BY <1>1, <1>3, PickedOnce, Zenon DEF Picked
<1>7. u \in Seq(Steps) /\ Len(u) = Len(old)
  <2>1. u \in [1 .. Len(old) -> Steps]
    BY <1>1, <1>2
  <2>2. u \in Seq(Steps)
    BY <1>1, <2>1, SeqDef
  <2>3. QED
    BY <1>1, <2>1, <2>2, LenProperties
<1>8. p \in Seq(Steps) /\ Len(p) = m
  <2>1. \A k \in 1 .. m : new[o[k]] \in Steps
    BY <1>4, <1>6
  <2>2. p \in [1 .. m -> Steps]
    BY <1>6, <2>1
  <2>3. p \in Seq(Steps)
    BY <1>6, <2>2, SeqDef, ZenonT(30)
  <2>4. QED
    BY <1>6, <2>2, <2>3, LenProperties
<1>9. \A i \in DOMAIN old : u[i] = update(old[i])
  OBVIOUS
<1>10. \A k \in 1 .. m : p[k] = new[o[k]]
  BY <1>6
<1> HIDE DEF u, p, o, m
<1>11. u \o p \in Seq(Steps) /\ Len(u \o p) = Len(old) + m
  BY <1>7, <1>8, SMTT(30)
<1>12. ASSUME NEW i \in DOMAIN (u \o p)
       PROVE  \/ i \in DOMAIN old /\ (u \o p)[i] = u[i]
              \/ \E k \in 1 .. m : i = Len(old) + k /\ (u \o p)[i] = p[k]
  <2>1. i \in 1 .. Len(old) + m
    BY <1>11
  <2>2. CASE i <= Len(old)
    BY <1>1, <1>7, <1>8, <2>1, <2>2
  <2>3. CASE i > Len(old)
    <3>1. i - Len(old) \in 1 .. m /\ i = Len(old) + (i - Len(old))
      BY <1>1, <1>6, <2>1, <2>3
    <3>2. (u \o p)[i] = p[i - Len(old)]
      BY <1>1, <1>7, <1>8, <2>1, <2>3
    <3>3. QED
      BY <3>1, <3>2
  <2>4. QED
    BY <1>1, <2>1, <2>2, <2>3
<1>13. \A i \in DOMAIN old :
          /\ (u \o p)[i].id = old[i].id
          /\ old[i].id \notin Ids(new) => (u \o p)[i] = old[i]
  <2> TAKE i \in DOMAIN old
  <2>1. (u \o p)[i] = u[i]
    BY <1>1, <1>7, <1>8
  <2>2. QED
    BY <1>2, <1>9, <2>1
<1>14. UniqueIds(u \o p)
  <2> SUFFICES ASSUME NEW i \in DOMAIN (u \o p), NEW j \in DOMAIN (u \o p),
                      (u \o p)[i].id = (u \o p)[j].id
               PROVE  i = j
    BY DEF UniqueIds
  <2>1. ASSUME NEW x \in DOMAIN old, NEW k \in 1 .. m PROVE u[x].id # p[k].id
    <3>1. u[x].id = old[x].id /\ old[x].id \in Ids(old)
      BY <1>2, <1>9 DEF Ids
    <3>2. p[k].id \notin Ids(old)
      BY <1>4, <1>6, <1>10
    <3>3. QED
      BY <3>1, <3>2
  <2>2. CASE i \in DOMAIN old /\ j \in DOMAIN old /\ (u \o p)[i] = u[i] /\ (u \o p)[j] = u[j]
    BY <1>2, <1>9, <2>2 DEF UniqueIds
  <2>3. ASSUME NEW k \in 1 .. m, NEW l \in 1 .. m,
               i = Len(old) + k, j = Len(old) + l, (u \o p)[i] = p[k], (u \o p)[j] = p[l]
        PROVE  i = j
    <3>1. o[k] \in DOMAIN new /\ o[l] \in DOMAIN new /\ new[o[k]].id = new[o[l]].id
      BY <1>4, <1>6, <1>10, <2>3
    <3>2. o[k] = o[l]
      BY <3>1 DEF UniqueIds
    <3>3. QED
      BY <1>6, <2>3, <3>2
  <2>4. CASE i \in DOMAIN old /\ (u \o p)[i] = u[i]
    <3>1. CASE j \in DOMAIN old /\ (u \o p)[j] = u[j]
      BY <2>2, <2>4, <3>1
    <3>2. ASSUME NEW l \in 1 .. m, (u \o p)[j] = p[l] PROVE FALSE
      BY <2>1, <2>4, <3>2
    <3>3. QED
      BY <1>12, <3>1, <3>2
  <2>5. ASSUME NEW k \in 1 .. m, i = Len(old) + k, (u \o p)[i] = p[k] PROVE i = j
    <3>1. CASE j \in DOMAIN old /\ (u \o p)[j] = u[j]
      BY <2>1, <2>5, <3>1
    <3>2. ASSUME NEW l \in 1 .. m, j = Len(old) + l, (u \o p)[j] = p[l] PROVE i = j
      BY <2>3, <2>5, <3>2
    <3>3. QED
      BY <1>12, <3>1, <3>2
  <2>6. QED
    BY <1>12, <2>4, <2>5
<1>15. QED
  BY <1>5, <1>11, <1>13, <1>14

LEMMA InjectKeeps ==
    ASSUME ScaffoldInv, NEW r \in ScRobots, NEW native \in BOOLEAN, ScaffoldInject(r, native)
    PROVE  ScaffoldInv'
<1> USE ScaffoldAssumption
<1>1. UNCHANGED <<merging, calls>>
  BY DEF ScaffoldInject
<1>2. /\ plans \in Seq(Seq(Steps)) /\ Len(plans) \in Nat /\ <<>> \in Seq(Steps)
      /\ entries \in Seq(Seq(Evaluations)) /\ Len(entries) \in Nat /\ <<>> \in Seq(Evaluations)
  BY DEF ScaffoldInv, ScaffoldTypes
<1>3. /\ plans' \in Seq(Seq(Steps)) /\ planTool' \in Nat /\ planOf' \in [ScRobots -> Nat]
      /\ planTool' <= Len(plans') /\ \A q \in ScRobots : planOf'[q] <= Len(plans')
      /\ \A k \in DOMAIN plans : k \in DOMAIN plans' /\ plans'[k] = plans[k]
      /\ \A k \in DOMAIN plans' : k \in DOMAIN plans \/ plans'[k] = <<>>
  <2>1. CASE NeedsPlan(r)
    <3>1. /\ plans' = Append(plans, <<>>) /\ planTool' = Len(plans) + 1
          /\ planOf' = [planOf EXCEPT ![r] = Len(plans) + 1]
      BY <2>1 DEF ScaffoldInject
    <3>2. /\ plans' \in Seq(Seq(Steps)) /\ Len(plans') = Len(plans) + 1
          /\ \A k \in DOMAIN plans : k \in DOMAIN plans' /\ plans'[k] = plans[k]
          /\ \A k \in DOMAIN plans' : k \in DOMAIN plans \/ plans'[k] = <<>>
      BY <1>2, <3>1
    <3>3. planOf' \in [ScRobots -> Nat] /\ \A q \in ScRobots : planOf'[q] <= Len(plans) + 1
      BY <1>2, <3>1 DEF ScaffoldInv, ScaffoldTypes
    <3>4. QED
      BY <1>2, <3>1, <3>2, <3>3
  <2>2. CASE ~NeedsPlan(r)
    BY <2>2 DEF ScaffoldInject, ScaffoldInv, ScaffoldTypes
  <2>3. QED
    BY <2>1, <2>2
<1>4. /\ entries' \in Seq(Seq(Evaluations)) /\ reflectionTool' \in Nat
      /\ reflectionOf' \in [ScRobots -> Nat]
      /\ reflectionTool' <= Len(entries') /\ \A q \in ScRobots : reflectionOf'[q] <= Len(entries')
  <2>1. CASE ~native /\ reflectionOf[r] = 0
    <3>1. /\ entries' = Append(entries, <<>>) /\ reflectionTool' = Len(entries) + 1
          /\ reflectionOf' = [reflectionOf EXCEPT ![r] = Len(entries) + 1]
      BY <2>1 DEF ScaffoldInject
    <3>2. entries' \in Seq(Seq(Evaluations)) /\ Len(entries') = Len(entries) + 1
      BY <1>2, <3>1
    <3>3. /\ reflectionOf' \in [ScRobots -> Nat]
          /\ \A q \in ScRobots : reflectionOf'[q] <= Len(entries) + 1
      BY <1>2, <3>1 DEF ScaffoldInv, ScaffoldTypes
    <3>4. QED
      BY <1>2, <3>1, <3>2, <3>3
  <2>2. CASE ~(~native /\ reflectionOf[r] = 0)
    BY <2>2 DEF ScaffoldInject, ScaffoldInv, ScaffoldTypes
  <2>3. QED
    BY <2>1, <2>2
<1>5. ScaffoldTypes'
  BY <1>1, <1>3, <1>4 DEF ScaffoldInv, ScaffoldTypes
<1>6. PlansUnique'
  BY <1>3 DEF ScaffoldInv, PlansUnique, UniqueIds
<1>7. MergeInv'
  <2>1. merging.old # <<>> => merging.store \in DOMAIN plans /\ plans'[merging.store] = plans[merging.store]
    BY <1>3 DEF ScaffoldInv, MergeInv
  <2>2. ASSUME NEW i \in DOMAIN merging.old PROVE merging.old # <<>>
    BY <2>2
  <2>3. QED
    BY <1>1, <1>3, <2>1, <2>2 DEF ScaffoldInv, MergeInv, MergeKeepsTheRest
<1>8. OwnInv'
  <2>1. CASE NeedsPlan(r)
    <3>1. planTool' = Len(plans) + 1 /\ planOf' = [planOf EXCEPT ![r] = Len(plans) + 1]
      BY <2>1 DEF ScaffoldInject
    <3>2. planOf'[r] = planTool' /\ planTool' # 0 /\ \A q \in ScRobots : planOf[q] # 0 => planOf'[q] # 0
      BY <1>2, <3>1 DEF ScaffoldInv, ScaffoldTypes
    <3>3. CASE ~native /\ reflectionOf[r] = 0
      <4>1. /\ reflectionTool' = Len(entries) + 1
            /\ reflectionOf' = [reflectionOf EXCEPT ![r] = Len(entries) + 1]
        BY <3>3 DEF ScaffoldInject
      <4>2. QED
        BY <1>2, <3>2, <4>1 DEF ScaffoldInv, ScaffoldTypes, OwnInv
    <3>4. CASE ~(~native /\ reflectionOf[r] = 0)
      <4>1. UNCHANGED <<reflectionTool, reflectionOf>>
        BY <3>4 DEF ScaffoldInject
      <4>2. QED
        BY <3>2, <4>1 DEF ScaffoldInv, OwnInv
    <3>5. QED
      BY <3>3, <3>4
  <2>2. CASE ~NeedsPlan(r)
    <3>1. UNCHANGED <<planTool, planOf>> /\ planOf[r] # 0
      BY <2>2 DEF ScaffoldInject, NeedsPlan
    <3>2. CASE ~native /\ reflectionOf[r] = 0
      <4>1. /\ reflectionTool' = Len(entries) + 1
            /\ reflectionOf' = [reflectionOf EXCEPT ![r] = Len(entries) + 1]
        BY <3>2 DEF ScaffoldInject
      <4>2. QED
        BY <1>2, <3>1, <4>1 DEF ScaffoldInv, ScaffoldTypes, OwnInv
    <3>3. CASE ~(~native /\ reflectionOf[r] = 0)
      <4>1. UNCHANGED <<reflectionTool, reflectionOf>>
        BY <3>3 DEF ScaffoldInject
      <4>2. QED
        BY <3>1, <4>1 DEF ScaffoldInv, OwnInv
    <3>4. QED
      BY <3>2, <3>3
  <2>3. QED
    BY <2>1, <2>2
<1>9. QED
  BY <1>5, <1>6, <1>7, <1>8 DEF ScaffoldInv

LEMMA WriteKeeps ==
    ASSUME ScaffoldInv, NEW raw \in ScWrites, NEW merge \in BOOLEAN, PlanWrite(raw, merge)
    PROVE  ScaffoldInv'
<1> USE ScaffoldAssumption
<1> DEFINE new == Made(raw)
           old == plans[planTool]
           plan == IF merge THEN Merged(old, new) ELSE new
<1>1. new \in Seq(Steps) /\ UniqueIds(new)
  BY MadeUnique
<1>2. /\ plans \in Seq(Seq(Steps)) /\ planTool \in DOMAIN plans
      /\ old \in Seq(Steps) /\ UniqueIds(old)
  <2>1. planTool \in DOMAIN plans
    BY DEF ScaffoldInv, ScaffoldTypes, PlanWrite
  <2>2. QED
    BY <2>1 DEF ScaffoldInv, ScaffoldTypes, PlansUnique
<1>3. /\ plans' = [plans EXCEPT ![planTool] = plan]
      /\ merging' = IF merge THEN [store |-> planTool, old |-> old, new |-> new] ELSE NotMerged
      /\ UNCHANGED <<planOf, reflectionOf, planTool, reflectionTool, entries>>
      /\ calls' = calls + 1 /\ calls < MaxScCalls
  BY DEF PlanWrite, Called, Made
<1>4. /\ Merged(old, new) \in Seq(Steps) /\ UniqueIds(Merged(old, new))
      /\ \A i \in DOMAIN old : /\ Merged(old, new)[i].id = old[i].id
                               /\ old[i].id \notin Ids(new) => Merged(old, new)[i] = old[i]
  BY <1>1, <1>2, MergedKeeps
<1>5. plan \in Seq(Steps) /\ UniqueIds(plan)
  BY <1>1, <1>4
<1> HIDE DEF new, old, plan
<1>6. plans' \in Seq(Seq(Steps)) /\ Len(plans') = Len(plans) /\ DOMAIN plans' = DOMAIN plans
      /\ plans'[planTool] = plan /\ \A k \in DOMAIN plans : k # planTool => plans'[k] = plans[k]
  BY <1>2, <1>3, <1>5
<1>7. ScaffoldTypes'
  <2>1. calls' \in 0 .. MaxScCalls
    BY <1>3 DEF ScaffoldInv, ScaffoldTypes
  <2>2. QED
    BY <1>3, <1>6, <2>1 DEF ScaffoldInv, ScaffoldTypes
<1>8. PlansUnique'
  <2>1. ASSUME NEW k \in DOMAIN plans' PROVE UniqueIds(plans'[k])
    <3>1. CASE k = planTool
      BY <1>5, <1>6, <3>1
    <3>2. CASE k # planTool
      <4>1. plans'[k] = plans[k] /\ UniqueIds(plans[k])
        BY <1>6, <2>1, <3>2 DEF ScaffoldInv, PlansUnique
      <4>2. QED
        BY <4>1
    <3>3. QED
      BY <3>1, <3>2
  <2>2. QED
    BY <2>1 DEF PlansUnique, UniqueIds
<1>9. MergeInv'
  <2>1. CASE merge
    <3>1. merging'.store = planTool /\ merging'.old = old /\ merging'.new = new
      BY <1>3, <2>1
    <3>2. plans'[planTool] = Merged(old, new)
      BY <1>6, <2>1 DEF plan
    <3>3. ASSUME NEW i \in DOMAIN merging'.old
          PROVE  LET before == merging'.old[i]
                     now == plans'[merging'.store][i]
                 IN  now.id = before.id /\ (before.id \notin Ids(merging'.new) => now = before)
      <4>1. i \in DOMAIN old
        BY <3>1, <3>3
      <4>2. QED
        BY <1>4, <3>1, <3>2, <4>1
    <3>4. MergeKeepsTheRest'
      BY <3>3 DEF MergeKeepsTheRest, Ids
    <3>5. QED
      BY <1>2, <1>6, <3>1, <3>4 DEF MergeInv
  <2>2. CASE ~merge
    <3>1. merging' = NotMerged
      BY <1>3, <2>2
    <3>2. merging'.old = <<>>
      BY <3>1 DEF NotMerged
    <3>3. QED
      BY <3>2 DEF MergeInv, MergeKeepsTheRest
  <2>3. QED
    BY <2>1, <2>2
<1>10. OwnInv'
  BY <1>3 DEF ScaffoldInv, OwnInv
<1>11. QED
  BY <1>7, <1>8, <1>9, <1>10 DEF ScaffoldInv

LEMMA ReflectKeeps == ASSUME ScaffoldInv, NEW raw \in ScEntries, Reflect(raw) PROVE ScaffoldInv'
<1> USE ScaffoldAssumption
<1>1. /\ entries' = [entries EXCEPT ![reflectionTool] = Append(@, ValidEntry(raw))]
      /\ UNCHANGED <<planOf, reflectionOf, planTool, reflectionTool, plans, merging>>
      /\ calls' = calls + 1 /\ calls < MaxScCalls /\ reflectionTool # 0
  BY DEF Reflect, Called
<1>2. entries \in Seq(Seq(Evaluations)) /\ reflectionTool \in DOMAIN entries
  BY <1>1 DEF ScaffoldInv, ScaffoldTypes
<1>3. Append(entries[reflectionTool], ValidEntry(raw)) \in Seq(Evaluations)
  BY <1>2 DEF Evaluations
<1>4. entries' \in Seq(Seq(Evaluations)) /\ Len(entries') = Len(entries)
  BY <1>1, <1>2, <1>3
<1>5. ScaffoldTypes'
  <2>1. calls' \in 0 .. MaxScCalls
    BY <1>1 DEF ScaffoldInv, ScaffoldTypes
  <2>2. QED
    BY <1>1, <1>4, <2>1 DEF ScaffoldInv, ScaffoldTypes
<1>6. QED
  BY <1>1, <1>5 DEF ScaffoldInv, PlansUnique, UniqueIds, MergeInv, MergeKeepsTheRest, OwnInv, Ids

LEMMA ScaffoldInvStep == ScaffoldInv /\ [ScaffoldNext]_scVars => ScaffoldInv'
<1> SUFFICES ASSUME ScaffoldInv, [ScaffoldNext]_scVars PROVE ScaffoldInv'
  OBVIOUS
<1>1. CASE UNCHANGED scVars
  BY <1>1 DEF scVars, ScaffoldInv, ScaffoldTypes, PlansUnique, UniqueIds, MergeInv,
              MergeKeepsTheRest, OwnInv, Ids
<1>2. QED
  BY <1>1, InjectKeeps, WriteKeeps, ReflectKeeps DEF ScaffoldNext

\* However a Brain repeats or leaves out ids, merges and judges, for any robots and
\* any number of tasks: it finds its plan and the failures it has still to mend.
THEOREM ScaffoldsAreKept == ScaffoldSpec => []ScaffoldIsKept
<1>1. ScaffoldSpec => []ScaffoldInv
  BY ScaffoldInvInit, ScaffoldInvStep, PTL DEF ScaffoldSpec
<1>2. QED
  BY <1>1, ScaffoldInvKeeps, PTL
=============================================================================
