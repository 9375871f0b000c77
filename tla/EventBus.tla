------------------------------ MODULE EventBus ------------------------------
(***************************************************************************)
(* The in-process bus and the heartbeat: two loops that look at a flag     *)
(* only between two rounds.                                                *)
(***************************************************************************)
EXTENDS Naturals, Sequences, SequencesExt

CONSTANTS
    Handlers,    \* handlers, and as many tick functions
    MaxEvents    \* bound: events published

ASSUME BusAssumption == MaxEvents \in Nat

VARIABLES
    busLoop,     \* run(): "off", "waiting" or "handling"
    busRunning,  \* _running
    busQueue,    \* with the event being handled at its head
    published,
    handlers,    \* in the order they subscribed; busNext is the one to call next
    busNext,
    handledBy,   \* history: the events each handler was called with
    since,       \* history: how many events were published when it subscribed
    late,        \* history: rounds begun since stop()
    heart        \* the heartbeat: its loop, its flag, its rounds since stop()

loopVars == <<busLoop, busRunning, busQueue, published, handlers, busNext, handledBy, since, late>>
busVars == <<loopVars, heart>>

BusInit ==
    /\ busLoop = "off" /\ busRunning = FALSE
    /\ busQueue = <<>> /\ published = 0
    /\ handlers = <<>> /\ busNext = 0
    /\ handledBy = [h \in Handlers |-> <<>>] /\ since = [h \in Handlers |-> 0]
    /\ late = 0
    /\ heart = [asleep |-> FALSE, running |-> FALSE, late |-> 0]

BusSubscribe(h) ==
    /\ h \notin ToSet(handlers)
    /\ handlers' = Append(handlers, h)
    /\ since' = [since EXCEPT ![h] = published - Len(busQueue)]
    /\ UNCHANGED <<busLoop, busRunning, busQueue, published, busNext, handledBy, late>>

BusPublish ==
    /\ published < MaxEvents
    /\ published' = published + 1
    /\ busQueue' = Append(busQueue, published + 1)
    /\ UNCHANGED <<busLoop, busRunning, handlers, busNext, handledBy, since, late>>

\* A run() that begins sets the flag, whatever stop() said before.
BusRun ==
    /\ busLoop = "off"
    /\ busLoop' = "waiting" /\ busRunning' = TRUE /\ late' = 0
    /\ UNCHANGED <<busQueue, published, handlers, busNext, handledBy, since>>

BusStop ==
    /\ busRunning' = FALSE
    /\ UNCHANGED <<busLoop, busQueue, published, handlers, busNext, handledBy, since, late>>

Lateness == late' = IF busRunning THEN 0 ELSE late + 1

\* The get inside wait_for, which does not look at the flag.
BusTake ==
    /\ busLoop = "waiting" /\ busQueue # <<>>
    /\ busLoop' = "handling" /\ busNext' = 1
    /\ Lateness
    /\ UNCHANGED <<busRunning, busQueue, published, handlers, handledBy, since>>

\* (Mutant: a handler that raises ends the round of its event.)
BusNextHandlerOnly(i, raises) == IF raises THEN Len(handlers) + 1 ELSE i + 1

\* A handler that raises is traced, and the next one called.
BusNextHandler(i, raises) == i + 1

BusHandle(raises) ==
    /\ busLoop = "handling" /\ busNext \in DOMAIN handlers
    /\ handledBy' = [handledBy EXCEPT ![handlers[busNext]] = Append(@, Head(busQueue))]
    /\ busNext' = BusNextHandler(busNext, raises)
    /\ UNCHANGED <<busLoop, busRunning, busQueue, published, handlers, since, late>>

BusGoesOn == busRunning

\* The end of a round: every handler was called, those that came meanwhile too;
\* or a second went by without an event.
BusRoundEnds ==
    /\ \/ busLoop = "handling" /\ busNext > Len(handlers) /\ busQueue' = Tail(busQueue)
       \/ busLoop = "waiting" /\ busQueue = <<>> /\ UNCHANGED busQueue
    /\ busLoop' = IF BusGoesOn THEN "waiting" ELSE "off"
    /\ UNCHANGED <<busRunning, published, handlers, busNext, handledBy, since, late>>

BusStep ==
    \/ \E h \in Handlers : BusSubscribe(h)
    \/ BusPublish \/ BusRun \/ BusStop \/ BusTake \/ BusRoundEnds
    \/ \E raises \in BOOLEAN : BusHandle(raises)

HeartRun ==
    /\ ~heart.asleep
    /\ heart' = [asleep |-> TRUE, running |-> TRUE, late |-> 0]

HeartStop == heart' = [heart EXCEPT !.running = FALSE]

\* The sleep is over: every tick is called, the one after a tick that raised too,
\* and then the flag is looked at.
HeartRound ==
    /\ heart.asleep
    /\ heart' = [heart EXCEPT !.asleep = heart.running,
                              !.late = IF heart.running THEN 0 ELSE @ + 1]

BusNextState ==
    \/ BusStep /\ UNCHANGED heart
    \/ (HeartRun \/ HeartStop \/ HeartRound) /\ UNCHANGED loopVars

BusSpec == BusInit /\ [][BusNextState]_busVars

TypeOKBus ==
    /\ busLoop \in {"off", "waiting", "handling"}
    /\ busRunning \in BOOLEAN /\ heart.asleep \in BOOLEAN /\ heart.running \in BOOLEAN
    /\ published \in 0 .. MaxEvents /\ busQueue \in Seq(1 .. published)
    /\ ToSet(handlers) \subseteq Handlers /\ busNext \in 0 .. Len(handlers) + 1

\* Every handler is called with each event published since it subscribed, once and
\* in their order, whichever handlers raise, and however often the loop is stopped
\* and run again.
BusEachOnce ==
    \A i \in DOMAIN handlers :
        LET h == handlers[i]
            begun == IF busLoop = "handling" /\ i < busNext THEN 1 ELSE 0
            due == published - Len(busQueue) + begun - since[h]
        IN  handledBy[h] = [k \in 1 .. due |-> since[h] + k]

\* A stop is late by at most one round: one event, one beat.
StopIsLateByOne == late <= 1 /\ heart.late <= 1

\* Handlers that raise, loops stopped and run again: every event is handled as it
\* was published, and a stop takes effect.
EventsAreHandled == TypeOKBus /\ BusEachOnce /\ StopIsLateByOne
=============================================================================
