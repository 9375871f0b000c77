-------------------------- MODULE FleetCoordinator --------------------------
(***************************************************************************)
(* fleet/coordinator.py with its router and its bus, driven by one         *)
(* coroutine per subtask as examples/multi_robot_inspect.py does: assign,  *)
(* fetch the lease, announce, run the robot's own AgentLoop, announce,     *)
(* release.  The leases are those of LeaseManager, with the subtask as     *)
(* holder.                                                                 *)
(*                                                                         *)
(* A publication awaits its subscribers one after the other; between two   *)
(* of them anything else may run, and time may pass.                       *)
(***************************************************************************)
EXTENDS Naturals, FiniteSetsExt

CONSTANTS
    Robots,      \* the fleet; the router's "lowest robot_id" is the order of Nat
    Subtasks,
    Compatible,  \* per subtask, the robots whose type it accepts
    Operator,    \* a holder that claims robots without the router
    LeaseS,      \* lease_s of every lease
    Subscribers, \* the bus has 1..Subscribers
    LeaseIds,    \* bounds the leases handed out
    None

ASSUME FleetAssumption ==
    /\ Robots \subseteq Nat
    /\ Compatible \in [Subtasks -> SUBSET Robots]
    /\ Operator \notin Subtasks
    /\ LeaseS \in Nat
    /\ Subscribers \in Nat \ {0}
    /\ None \notin LeaseIds \cup Nat \cup Subtasks \cup {Operator}

VARIABLES
    leases, deadlines, issued, info, ttl,  \* LeaseManager
    pc,        \* where each subtask's coroutine is
    robot,     \* assignment.robot_id
    handle,    \* lease: what lease_for() returned
    handler,   \* the subscriber whose handler is awaited
    latest,    \* FleetBus._latest
    seen,      \* per subscriber, the last event it was handed of each robot
    overrun,   \* history: subtasks whose lease ran out under them
    abandoned, \* history: subtasks cancelled inside assign()
    shared     \* history: robots that two subtasks drove at once

Holders == Subtasks \cup {Operator}

LM == INSTANCE LeaseManager WITH Durations <- {LeaseS}

leaseVars == <<leases, deadlines, issued, info, ttl>>
busVars == <<latest, seen>>
history == <<overrun, abandoned, shared>>
vars == <<leaseVars, pc, robot, handle, handler, busVars, history>>

\* The awaits of _run_one, in order; then the ways it ends.
Publishing == {"assigning", "starting", "finishing"}
Driving == Publishing \cup {"running"}
Ended == {"done", "mismatch", "capacity", "conflict", "asserted", "cancelled"}

Event(t, place) == [by |-> t, state |-> place]
Events == [by : Subtasks, state : Publishing] \cup {None}

\* Types; a subtask has a robot from its assignment on, and a lease object only
\* after that.
TypeOK ==
    /\ LM!TypeOK
    /\ pc \in [Subtasks -> {"idle"} \cup Driving \cup Ended]
    /\ robot \in [Subtasks -> Robots \cup {None}]
    /\ handle \in [Subtasks -> issued \cup {None}]
    /\ \A t \in Subtasks : pc[t] \in Driving => robot[t] \in Compatible[t]
    /\ \A t \in Subtasks : pc[t] \in Driving \ {"assigning"} => handle[t] # None
    /\ handler \in [Subtasks -> 0 .. Subscribers]
    /\ latest \in [Robots -> Events]
    /\ seen \in [1 .. Subscribers -> [Robots -> Events]]
    /\ overrun \in SUBSET Subtasks
    /\ abandoned \in SUBSET Subtasks
    /\ shared \in SUBSET Robots

Init ==
    /\ LM!Init
    /\ pc = [t \in Subtasks |-> "idle"]
    /\ robot = [t \in Subtasks |-> None]
    /\ handle = [t \in Subtasks |-> None]
    /\ handler = [t \in Subtasks |-> 0]
    /\ latest = [r \in Robots |-> None]
    /\ seen = [s \in 1 .. Subscribers |-> [r \in Robots |-> None]]
    /\ overrun = {}
    /\ abandoned = {}
    /\ shared = {}

-----------------------------------------------------------------------------
Drivers(r) == {t \in Subtasks : pc[t] \in Driving /\ robot[t] = r}

Goto(t, place) == pc' = [pc EXCEPT ![t] = place]

\* FleetBus.publish: record the robot's status, then hand it to the first
\* subscriber.
Publish(t, r, place) ==
    /\ Goto(t, place)
    /\ latest' = [latest EXCEPT ![r] = Event(t, place)]
    /\ seen' = [seen EXCEPT ![1][r] = Event(t, place)]
    /\ handler' = [handler EXCEPT ![t] = 1]

\* (Mutant: a handler that raises ends the publication.)
NextHandlerOrNone(t) ==
    /\ pc[t] \in Publishing
    /\ handler[t] < Subscribers
    /\ handler' = [handler EXCEPT ![t] = Subscribers]
    /\ UNCHANGED <<leaseVars, pc, robot, handle, seen, latest, history>>

\* The handler returned, or raised: both hand the event to the next subscriber.
NextHandler(t) ==
    /\ pc[t] \in Publishing
    /\ handler[t] < Subscribers
    /\ handler' = [handler EXCEPT ![t] = @ + 1]
    /\ seen' = [seen EXCEPT ![handler[t] + 1][robot[t]] = Event(t, pc[t])]
    /\ UNCHANGED <<leaseVars, pc, robot, handle, latest, history>>

Delivered(t, place) == pc[t] = place /\ handler[t] = Subscribers

-----------------------------------------------------------------------------
(* FleetRouter.route and FleetCoordinator.assign *)

Busy == {r \in Robots : LM!IsLeased(r)}
FreeFor(t) == Compatible[t] \ Busy

Mismatch(t) ==
    /\ pc[t] = "idle"
    /\ Compatible[t] = {}
    /\ Goto(t, "mismatch")
    /\ UNCHANGED <<leaseVars, robot, handle, handler, busVars, history>>

NoCapacity(t) ==
    /\ pc[t] = "idle"
    /\ Compatible[t] # {}
    /\ FreeFor(t) = {}
    /\ Goto(t, "capacity")
    /\ UNCHANGED <<leaseVars, robot, handle, handler, busVars, history>>

\* The lowest free compatible robot, leased and announced.  Nothing is awaited
\* from the list of busy robots to the lease, so the RobotLockConflictError that
\* coordinator.py:80 reserves for a race stays without one.
Assign(t) ==
    /\ pc[t] = "idle"
    /\ FreeFor(t) # {}
    /\ LET r == Min(FreeFor(t)) IN
          IF LM!MayAcquire(r, t)
          THEN /\ LM!Acquire(r, LeaseS, t)
               /\ robot' = [robot EXCEPT ![t] = r]
               /\ Publish(t, r, "assigning")
               /\ shared' = IF Drivers(r) = {} THEN shared ELSE shared \cup {r}
               /\ overrun' = IF LeaseS = 0 THEN overrun \cup {t} ELSE overrun
          ELSE /\ Goto(t, "conflict")
               /\ UNCHANGED <<leaseVars, robot, handler, busVars, shared, overrun>>
    /\ UNCHANGED <<handle, abandoned>>

\* (Mutant: no assertion on the lease.)
FetchAnything(t) ==
    /\ Delivered(t, "assigning")
    /\ handle' = [handle EXCEPT ![t] = leases[robot[t]]]
    /\ Publish(t, robot[t], "starting")
    /\ UNCHANGED <<leaseVars, robot, history>>

\* assign() returned; `lease = coord.lease_for(robot_id)` asks the manager for
\* the robot's live lease, asserts there is one, and the status goes out.
FetchLease(t) ==
    /\ Delivered(t, "assigning")
    /\ LET r == robot[t] IN
          \/ /\ LM!IsLeased(r)
             /\ handle' = [handle EXCEPT ![t] = leases[r]]
             /\ Publish(t, r, "starting")
          \/ /\ ~LM!IsLeased(r)
             /\ Goto(t, "asserted")
             /\ UNCHANGED <<handle, handler, busVars>>
    /\ UNCHANGED <<leaseVars, robot, history>>

Run(t) ==
    /\ Delivered(t, "starting")
    /\ Goto(t, "running")
    /\ UNCHANGED <<leaseVars, robot, handle, handler, busVars, history>>

\* (Mutant: the lease is released before the robot is announced idle.)
RunEndsReleasing(t) ==
    /\ pc[t] = "running"
    /\ LM!Release(handle[t])
    /\ Publish(t, robot[t], "finishing")
    /\ UNCHANGED <<robot, handle, history>>

RunEnds(t) ==
    /\ pc[t] = "running"
    /\ Publish(t, robot[t], "finishing")
    /\ UNCHANGED <<leaseVars, robot, handle, history>>

\* The finally clause.
Done(t) ==
    /\ Delivered(t, "finishing")
    /\ LM!Release(handle[t])
    /\ Goto(t, "done")
    /\ UNCHANGED <<robot, handle, handler, busVars, history>>

\* (Mutant: no finally.)
CancelWithoutRelease(t) ==
    /\ pc[t] \in Driving
    /\ Goto(t, "cancelled")
    /\ abandoned' = IF pc[t] = "assigning" THEN abandoned \cup {t} ELSE abandoned
    /\ UNCHANGED <<leaseVars, robot, handle, handler, busVars, overrun, shared>>

\* The coroutine is cancelled, or its loop raises, while it awaits: inside the
\* try the lease is released, inside assign() nobody releases it.
Cancel(t) ==
    /\ pc[t] \in Driving
    /\ Goto(t, "cancelled")
    /\ IF pc[t] = "assigning"
          THEN UNCHANGED leaseVars /\ abandoned' = abandoned \cup {t}
          ELSE LM!Release(handle[t]) /\ UNCHANGED abandoned
    /\ UNCHANGED <<robot, handle, handler, busVars, overrun, shared>>

-----------------------------------------------------------------------------
\* FleetCoordinator.acquire without a route.
Claim(r) ==
    /\ LM!Acquire(r, LeaseS, Operator)
    /\ UNCHANGED <<pc, robot, handle, handler, busVars, history>>

Tick ==
    /\ LM!Tick
    /\ overrun' = overrun \cup {t \in Subtasks :
          pc[t] \in Driving /\ LM!HeldBy(robot[t]) = t /\ deadlines'[robot[t]] = 0}
    /\ UNCHANGED <<pc, robot, handle, handler, busVars, abandoned, shared>>

Coroutine(t) ==
    \/ Mismatch(t)
    \/ NoCapacity(t)
    \/ Assign(t)
    \/ NextHandler(t)
    \/ FetchLease(t)
    \/ Run(t)
    \/ RunEnds(t)
    \/ Done(t)
    \/ Cancel(t)

Next ==
    \/ \E t \in Subtasks : Coroutine(t)
    \/ \E r \in Robots : Claim(r)
    \/ Tick

Spec == Init /\ [][Next]_vars

-----------------------------------------------------------------------------
(* Properties *)

\* As long as no lease has run out under its subtask, a robot is driven by one
\* loop at a time.
OneDriverWithinLeases ==
    overrun = {} => \A r \in Robots : Cardinality(Drivers(r)) <= 1

\* A coroutine that has ended keeps no robot from the others, except one that
\* was cancelled inside assign(): its lease has to run out.
EndedTasksHoldNothing ==
    \A t \in Subtasks \ abandoned : pc[t] \in Ended =>
        \A r \in Robots : LM!HeldBy(r) # t

\* Once the publication of a robot's latest status has been through, it is the
\* last one every subscriber was handed: statuses neither get lost nor overtake
\* each other, unless two loops drove the robot at once.
SubscribersAgree ==
    \A r \in Robots \ shared :
        latest[r] # None /\ handler[latest[r].by] = Subscribers
            => \A s \in 1 .. Subscribers : seen[s][r] = latest[r]
=============================================================================
