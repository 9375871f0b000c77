----------------------- MODULE FleetCoordinatorProofs -----------------------
(***************************************************************************)
(* The coordinator's guarantees, for any fleet, any subtasks and robot     *)
(* types, any lease_s, any number of subscribers and any interleaving of   *)
(* assignments, cancellations, expiry and outside claims.                  *)
(***************************************************************************)
EXTENDS FleetCoordinator, WellFoundedInduction, FiniteSetTheorems, TLAPS

LMP == INSTANCE LeaseManagerProofs WITH Durations <- {LeaseS}

LEMMA MinInSet ==
  ASSUME NEW S \in SUBSET Nat, S # {}
  PROVE  Min(S) \in S
<1>1. PICK x \in S : \A y \in S : <<y, x>> \notin OpToRel(<, Nat)
  BY NatLessThanWellFounded, WFMin, Zenon
<1>2. ASSUME NEW y \in S PROVE x <= y
  <2>1. SUFFICES ASSUME y < x PROVE FALSE
    OBVIOUS
  <2>2. <<y, x>> \in {ss \in Nat \X Nat : ss[1] < ss[2]}
    BY <2>1
  <2>3. <<y, x>> \in OpToRel(<, Nat)
    BY <2>2, Zenon DEF OpToRel
  <2>4. QED
    BY <1>1, <2>3
<1>3. QED
  BY <1>2, Zenon DEF Min

\* The holders are those of the lease manager, with one duration.
LEMMA LeaseParameters ==
    /\ {LeaseS} \subseteq Nat
    /\ None \notin LeaseIds \cup Nat \cup Holders
BY FleetAssumption DEF Holders

-----------------------------------------------------------------------------
(* The inductive invariant *)

\* A subtask's live lease is on its own robot and, once its coroutine holds a
\* lease object, that object; only a cancelled assignment outlives its coroutine.
LeasesAreTheirs ==
    \A t \in Subtasks, r \in Robots : LM!HeldBy(r) = t =>
        /\ robot[t] = r
        /\ pc[t] \in Driving \/ t \in abandoned
        /\ pc[t] \in Driving \ {"assigning"} => handle[t] = leases[r]

AbandonedAreOver == \A t \in abandoned : pc[t] = "cancelled"

\* Until some lease runs out, who drives a robot holds it.
DriversHold ==
    overrun = {} => \A t \in Subtasks : pc[t] \in Driving => LM!HeldBy(robot[t]) = t

UnassignedHaveNoRobot == \A t \in Subtasks : pc[t] = "idle" => robot[t] = None

\* The latest status of a robot is by a subtask it was assigned to; unless two
\* have driven it, by the one that drives it now and about where that one is.
LatestIsOfRobot == \A r \in Robots : latest[r] # None => robot[latest[r].by] = r

LatestIsByDriver ==
    \A r \in Robots \ shared : \A t \in Drivers(r) :
        /\ latest[r].by = t
        /\ pc[t] \in Publishing => latest[r].state = pc[t]

\* The subscribers up to the one whose handler is awaited have it.
DeliveredInOrder ==
    \A r \in Robots \ shared : latest[r] # None =>
        \A s \in 1 .. Subscribers :
            s <= handler[latest[r].by] => seen[s][r] = latest[r]

BusInv ==
    UnassignedHaveNoRobot /\ LatestIsOfRobot /\ LatestIsByDriver /\ DeliveredInOrder

Inv ==
    /\ LMP!Inv
    /\ TypeOK
    /\ LeasesAreTheirs
    /\ AbandonedAreOver
    /\ DriversHold
    /\ BusInv

-----------------------------------------------------------------------------
(* The lease manager's steps, seen from the holders *)

LEMMA LeaseTypes ==
    /\ LMP!Inv => LM!TypeOK
    /\ LMP!Inv' => LM!TypeOK'
BY DEF LMP!Inv, LMP!TypeOK, LM!TypeOK, LMP!LeaseInfo, LM!LeaseInfo

\* A live lease is an entry of both dicts.
LEMMA HeldByLease ==
  ASSUME LMP!Inv, NEW r \in Robots
  PROVE  /\ LM!IsLeased(r) => /\ leases[r] \in issued
                              /\ leases[r] # None
                              /\ info[leases[r]].robot = r
                              /\ info[leases[r]].holder \in Holders
         /\ LM!HeldBy(r) # None <=> LM!IsLeased(r)
         /\ LM!IsLeased(r) => LM!HeldBy(r) = info[leases[r]].holder
BY LeaseParameters DEF LMP!Inv, LMP!TypeOK, LMP!LeaseKnown, LMP!LeaseInfo,
   LM!HeldBy, LM!IsLeased, LM!IsExpired

LEMMA LeaseAcquired ==
  ASSUME LMP!Inv, NEW r \in Robots, NEW h \in Holders, LM!Acquire(r, LeaseS, h)
  PROVE  /\ LMP!Inv'
         /\ issued \subseteq issued'
         /\ LM!HeldBy(r) \in {None, h}
         /\ LM!HeldBy(r)' = IF LeaseS = 0 THEN None ELSE h
         /\ \A q \in Robots \ {r} :
               leases'[q] = leases[q] /\ LM!HeldBy(q)' = LM!HeldBy(q)
<1>1. LMP!Inv'
  <2>1. LMP!Acquire(r, LeaseS, h)
    BY DEF LM!Acquire, LMP!Acquire, LM!MayAcquire, LMP!MayAcquire,
           LM!HeldBy, LMP!HeldBy, LM!IsLeased, LMP!IsLeased, LM!IsExpired, LMP!IsExpired
  <2>2. QED
    BY <2>1, LMP!AcquireStep, LeaseParameters
<1>2. issued \subseteq issued' /\ LM!HeldBy(r) \in {None, h}
  BY DEF LM!Acquire, LM!MayAcquire
<1>3. LM!HeldBy(r)' = IF LeaseS = 0 THEN None ELSE h
  BY LeaseParameters DEF LM!Acquire, LMP!Inv, LMP!TypeOK, LM!HeldBy, LM!IsLeased, LM!IsExpired
<1>4. ASSUME NEW q \in Robots \ {r}
      PROVE  leases'[q] = leases[q] /\ LM!HeldBy(q)' = LM!HeldBy(q)
  BY LeaseParameters DEF LM!Acquire, LMP!Inv, LMP!TypeOK, LMP!LeaseKnown,
     LM!HeldBy, LM!IsLeased, LM!IsExpired
<1>5. QED
  BY <1>1, <1>2, <1>3, <1>4

LEMMA LeaseReleased ==
  ASSUME LMP!Inv, NEW x \in issued, LM!Release(x)
  PROVE  /\ LMP!Inv'
         /\ issued' = issued
         /\ \A q \in Robots :
               IF leases[q] = x THEN LM!HeldBy(q)' = None
               ELSE leases'[q] = leases[q] /\ LM!HeldBy(q)' = LM!HeldBy(q)
<1>1. LMP!Inv'
  <2>1. LMP!Release(x)
    BY DEF LM!Release, LMP!Release
  <2>2. QED
    BY <2>1, LMP!ReleaseStep, LeaseParameters
<1>2. issued' = issued
  BY DEF LM!Release
<1>3. ASSUME NEW q \in Robots
      PROVE  IF leases[q] = x THEN LM!HeldBy(q)' = None
             ELSE leases'[q] = leases[q] /\ LM!HeldBy(q)' = LM!HeldBy(q)
  BY LeaseParameters DEF LM!Release, LMP!Inv, LMP!TypeOK, LMP!LeaseKnown, LMP!LeaseInfo,
     LM!HeldBy, LM!IsLeased, LM!IsExpired
<1>4. QED
  BY <1>1, <1>2, <1>3

LEMMA LeasesAged ==
  ASSUME LMP!Inv, LM!Tick
  PROVE  /\ LMP!Inv'
         /\ issued' = issued /\ leases' = leases
         /\ \A q \in Robots :
               LM!HeldBy(q)' = IF deadlines'[q] = 0 THEN None ELSE LM!HeldBy(q)
<1>1. LMP!Inv'
  <2>1. LMP!Tick
    BY DEF LM!Tick, LMP!Tick, LM!Less, LMP!Less
  <2>2. QED
    BY <2>1, LMP!TickStep, LeaseParameters
<1>2. issued' = issued /\ leases' = leases
  BY DEF LM!Tick
<1>3. ASSUME NEW q \in Robots
      PROVE  LM!HeldBy(q)' = IF deadlines'[q] = 0 THEN None ELSE LM!HeldBy(q)
  BY LeaseParameters DEF LM!Tick, LM!Less, LMP!Inv, LMP!TypeOK, LMP!LeaseKnown, LMP!LeaseInfo,
     LM!HeldBy, LM!IsLeased, LM!IsExpired
<1>4. QED
  BY <1>1, <1>2, <1>3

LEMMA LeasesKept ==
  ASSUME LMP!Inv, UNCHANGED leaseVars
  PROVE  /\ LMP!Inv'
         /\ \A q \in Robots : LM!HeldBy(q)' = LM!HeldBy(q)
BY DEF leaseVars, LMP!Inv, LMP!TypeOK, LMP!LeaseKnown, LMP!ClaimHonoured, LMP!LeaseInfo,
   LM!HeldBy, LM!IsLeased, LM!IsExpired

-----------------------------------------------------------------------------
(* What is published *)

LEMMA PublishKeepsBus ==
  ASSUME TypeOK, BusInv, NEW t \in Subtasks, NEW r \in Robots, NEW place \in Publishing,
         Publish(t, r, place),
         robot' = [robot EXCEPT ![t] = r],
         pc[t] = "idle" \/ (pc[t] \in Driving /\ robot[t] = r),
         shared' \subseteq Robots, shared \subseteq shared',
         pc[t] = "idle" => r \in shared' \/ Drivers(r) = {}
  PROVE  BusInv'
<1> USE FleetAssumption DEF TypeOK, BusInv, Publish, Goto, Event
<1>1. UnassignedHaveNoRobot'
  BY DEF UnassignedHaveNoRobot, Publishing
<1>2. LatestIsOfRobot'
  BY DEF LatestIsOfRobot, UnassignedHaveNoRobot, Events
<1>3. ASSUME r \notin shared', NEW d \in Drivers(r)'
      PROVE  d = t
  <2>1. r \notin shared /\ d \in Subtasks
    BY <1>3 DEF Drivers
  <2>2. d # t => d \in Drivers(r)
    BY <1>3 DEF Drivers
  <2>3. CASE pc[t] = "idle"
    BY <1>3, <2>2, <2>3
  <2>4. CASE pc[t] \in Driving /\ robot[t] = r
    BY <2>1, <2>2, <2>4 DEF LatestIsByDriver, Drivers
  <2>5. QED
    BY <2>3, <2>4
<1>4. LatestIsByDriver'
  <2> SUFFICES ASSUME NEW q \in Robots \ shared', NEW d \in Drivers(q)'
               PROVE  /\ latest'[q].by = d
                      /\ pc'[d] \in Publishing => latest'[q].state = pc'[d]
    BY DEF LatestIsByDriver
  <2>1. CASE q = r
    BY <1>3, <2>1
  <2>2. CASE q # r
    <3>1. d \in Subtasks /\ d # t /\ d \in Drivers(q) /\ pc'[d] = pc[d] /\ latest'[q] = latest[q]
      BY <2>2 DEF Drivers
    <3>2. QED
      BY <3>1 DEF LatestIsByDriver
  <2>3. QED
    BY <2>1, <2>2
<1>5. DeliveredInOrder'
  <2> SUFFICES ASSUME NEW q \in Robots \ shared', latest'[q] # None,
                      NEW s \in 1 .. Subscribers, s <= handler'[latest'[q].by]
               PROVE  seen'[s][q] = latest'[q]
    BY DEF DeliveredInOrder
  <2>1. CASE q = r
    <3>1. s = 1
      BY <2>1
    <3>2. QED
      BY <2>1, <3>1
  <2>2. CASE q # r
    <3>1. latest'[q] = latest[q] /\ robot[latest[q].by] = q /\ latest[q].by \in Subtasks
      BY <2>2 DEF LatestIsOfRobot, Events
    <3>2. latest[q].by # t
      BY <2>2, <3>1 DEF UnassignedHaveNoRobot
    <3>3. seen'[s][q] = seen[s][q]
      BY <2>2
    <3>4. QED
      BY <3>1, <3>2, <3>3 DEF DeliveredInOrder
  <2>3. QED
    BY <2>1, <2>2
<1>6. QED
  BY <1>1, <1>2, <1>4, <1>5

\* Leaving a publication, or ending without one.
LEMMA MoveKeepsBus ==
  ASSUME TypeOK, BusInv, NEW t \in Subtasks, NEW place \in {"running"} \cup Ended,
         Goto(t, place),
         pc[t] \in Driving \/ place \in Ended,
         UNCHANGED <<robot, handler, busVars, shared>>
  PROVE  BusInv'
<1> USE DEF TypeOK, BusInv, Goto, busVars
<1>1. UnassignedHaveNoRobot'
  BY DEF UnassignedHaveNoRobot, Ended
<1>2. LatestIsOfRobot'
  BY DEF LatestIsOfRobot
<1>3. LatestIsByDriver'
  BY DEF LatestIsByDriver, Drivers, Publishing, Driving, Ended
<1>4. DeliveredInOrder'
  BY DEF DeliveredInOrder
<1>5. QED
  BY <1>1, <1>2, <1>3, <1>4

LEMMA HandlerKeepsBus ==
  ASSUME TypeOK, BusInv, NEW t \in Subtasks, NextHandler(t)
  PROVE  BusInv'
<1> USE FleetAssumption DEF TypeOK, BusInv, NextHandler, Event
<1>1. robot[t] \in Robots /\ t \in Drivers(robot[t])
  BY DEF Drivers, Driving
<1>2. UnassignedHaveNoRobot'
  BY DEF UnassignedHaveNoRobot
<1>3. LatestIsOfRobot'
  BY DEF LatestIsOfRobot
<1>4. LatestIsByDriver'
  BY DEF LatestIsByDriver, Drivers, history
<1>5. DeliveredInOrder'
  <2> SUFFICES ASSUME NEW q \in Robots \ shared, latest[q] # None,
                      NEW s \in 1 .. Subscribers, s <= handler'[latest[q].by]
               PROVE  seen'[s][q] = latest[q]
    BY DEF DeliveredInOrder, history
  <2>1. latest[q].by \in Subtasks /\ robot[latest[q].by] = q
    BY DEF LatestIsOfRobot, Events
  <2>2. CASE q # robot[t]
    BY <2>1, <2>2 DEF DeliveredInOrder
  <2>3. CASE q = robot[t]
    <3>1. latest[q].by = t /\ latest[q].state = pc[t]
      BY <1>1, <2>3 DEF LatestIsByDriver
    <3>2. latest[q] = Event(t, pc[t])
      BY <3>1 DEF Events
    <3>3. CASE s = handler[t] + 1
      BY <2>3, <3>2, <3>3
    <3>4. CASE s # handler[t] + 1
      BY <2>3, <3>1, <3>4 DEF DeliveredInOrder
    <3>5. QED
      BY <3>3, <3>4
  <2>4. QED
    BY <2>2, <2>3
<1>6. QED
  BY <1>2, <1>3, <1>4, <1>5

-----------------------------------------------------------------------------
(* The steps *)

LEMMA InvInit == Init => Inv
<1> SUFFICES ASSUME Init PROVE Inv
  OBVIOUS
<1>1. LMP!Inv
  <2>1. LMP!Init
    BY DEF Init, LM!Init, LMP!Init
  <2>2. QED
    BY <2>1, LMP!InvInit, LeaseParameters
<1>2. TypeOK
  BY <1>1, LeaseTypes, FleetAssumption DEF Init, LM!Init, TypeOK, Events, Driving, Publishing
<1>3. LeasesAreTheirs /\ AbandonedAreOver /\ DriversHold
  BY FleetAssumption DEF Init, LM!Init, LeasesAreTheirs, AbandonedAreOver,
     DriversHold, Driving, Publishing, LM!HeldBy, LM!IsLeased
<1>4. BusInv
  BY DEF Init, BusInv, UnassignedHaveNoRobot, LatestIsOfRobot, LatestIsByDriver,
     DeliveredInOrder, Drivers, Driving, Publishing
<1>5. QED
  BY <1>1, <1>2, <1>3, <1>4 DEF Inv

\* A free robot is leased to nobody, so the acquisition is let through.
LEMMA RouteIsFree ==
  ASSUME Inv, NEW t \in Subtasks, FreeFor(t) # {}
  PROVE  LET r == Min(FreeFor(t)) IN
            /\ r \in Compatible[t] /\ r \in Robots
            /\ LM!HeldBy(r) = None
            /\ LM!MayAcquire(r, t)
<1>1. FreeFor(t) \in SUBSET Nat
  BY FleetAssumption DEF FreeFor
<1>2. Min(FreeFor(t)) \in FreeFor(t)
  BY <1>1, MinInSet
<1>3. QED
  BY <1>2, FleetAssumption DEF FreeFor, Busy, LM!HeldBy, LM!MayAcquire

LEMMA AssignStep ==
  ASSUME Inv, NEW t \in Subtasks, Assign(t)
  PROVE  Inv'
<1>1. PICK r \in Robots :
         /\ r = Min(FreeFor(t))
         /\ r \in Compatible[t]
         /\ LM!HeldBy(r) = None
         /\ LM!MayAcquire(r, t)
  BY RouteIsFree DEF Assign
<1>2. /\ pc[t] = "idle"
      /\ LM!Acquire(r, LeaseS, t)
      /\ robot' = [robot EXCEPT ![t] = r]
      /\ Publish(t, r, "assigning")
      /\ shared' = IF Drivers(r) = {} THEN shared ELSE shared \cup {r}
      /\ overrun' = IF LeaseS = 0 THEN overrun \cup {t} ELSE overrun
      /\ UNCHANGED <<handle, abandoned>>
  BY <1>1 DEF Assign
<1>3. /\ LMP!Inv'
      /\ issued \subseteq issued'
      /\ LM!HeldBy(r)' = IF LeaseS = 0 THEN None ELSE t
      /\ \A q \in Robots \ {r} :
            leases'[q] = leases[q] /\ LM!HeldBy(q)' = LM!HeldBy(q)
  BY <1>1, <1>2, LeaseAcquired DEF Inv, Holders
<1>4. t \notin abandoned
  BY <1>2 DEF Inv, AbandonedAreOver
<1> USE DEF Publish, Goto
<1>5. TypeOK'
  <2>1. LM!TypeOK'
    BY <1>3, LeaseTypes
  <2>2. latest' \in [Robots -> Events] /\ seen' \in [1 .. Subscribers -> [Robots -> Events]]
    BY <1>1, <1>2, FleetAssumption DEF Inv, TypeOK, Events, Event, Publishing
  <2>3. handle' \in [Subtasks -> issued' \cup {None}]
    BY <1>2, <1>3 DEF Inv, TypeOK
  <2>4. ASSUME NEW u \in Subtasks
        PROVE  /\ pc'[u] \in Driving => robot'[u] \in Compatible[u]
               /\ pc'[u] \in Driving \ {"assigning"} => handle'[u] # None
    BY <1>1, <1>2 DEF Inv, TypeOK
  <2>5. /\ pc' \in [Subtasks -> {"idle"} \cup Driving \cup Ended]
        /\ robot' \in [Subtasks -> Robots \cup {None}]
        /\ handler' \in [Subtasks -> 0 .. Subscribers]
    BY <1>2, FleetAssumption DEF Inv, TypeOK, Driving, Publishing
  <2>6. overrun' \subseteq Subtasks /\ abandoned' \subseteq Subtasks /\ shared' \subseteq Robots
    BY <1>2 DEF Inv, TypeOK
  <2>7. QED
    BY <2>1, <2>2, <2>3, <2>4, <2>5, <2>6 DEF TypeOK
<1>6. AbandonedAreOver'
  BY <1>2, <1>4 DEF Inv, TypeOK, AbandonedAreOver
<1>7. LeasesAreTheirs'
  <2> SUFFICES ASSUME NEW u \in Subtasks, NEW q \in Robots, LM!HeldBy(q)' = u
               PROVE  /\ robot'[u] = q
                      /\ pc'[u] \in Driving \/ u \in abandoned'
                      /\ pc'[u] \in Driving \ {"assigning"} => handle'[u] = leases'[q]
    BY DEF LeasesAreTheirs
  <2>1. CASE q = r
    BY <1>2, <1>3, <2>1, FleetAssumption DEF Inv, TypeOK, Driving, Publishing
  <2>2. CASE q # r
    <3>1. LM!HeldBy(q) = u /\ leases'[q] = leases[q]
      BY <1>3, <2>2
    <3>2. u # t
      BY <1>2, <1>4, <3>1 DEF Inv, LeasesAreTheirs, Driving, Publishing
    <3>3. QED
      BY <1>2, <3>1, <3>2 DEF Inv, TypeOK, LeasesAreTheirs
  <2>3. QED
    BY <2>1, <2>2
<1>8. DriversHold'
  <2> SUFFICES ASSUME overrun' = {}, NEW u \in Subtasks, pc'[u] \in Driving
               PROVE  LM!HeldBy(robot[u])' = u
    BY DEF DriversHold
  <2> LeaseS # 0 /\ overrun = {}
    BY <1>2
  <2>1. CASE u = t
    <3>1. robot'[u] = r
      BY <1>2, <2>1 DEF Inv, TypeOK
    <3>2. QED
      BY <1>3, <2>1, <3>1
  <2>2. CASE u # t
    <3>1. robot'[u] = robot[u] /\ pc[u] \in Driving /\ LM!HeldBy(robot[u]) = u
      BY <1>2, <2>2 DEF Inv, TypeOK, DriversHold
    <3>2. robot[u] \in Robots \ {r}
      BY <1>1, <3>1, FleetAssumption DEF Inv, TypeOK
    <3>3. PICK q \in Robots \ {r} : q = robot[u]
      BY <3>2
    <3>4. LM!HeldBy(q)' = u
      BY <1>3, <3>1, <3>3
    <3>5. QED
      BY <3>1, <3>3, <3>4
  <2>3. QED
    BY <2>1, <2>2
<1>9. BusInv'
  BY <1>1, <1>2, PublishKeepsBus DEF Inv, TypeOK, Publishing
<1>10. QED
  BY <1>3, <1>5, <1>6, <1>7, <1>8, <1>9 DEF Inv

\* An action that leaves the leases and moves one coroutine to a place that drives
\* only if it drove before.
LEMMA MoveStep ==
  ASSUME Inv, NEW t \in Subtasks, t \notin abandoned,
         NEW place \in {"running", "mismatch", "capacity"},
         Goto(t, place),
         pc[t] = (IF place = "running" THEN "starting" ELSE "idle"),
         UNCHANGED <<leaseVars, robot, handle, handler, busVars, history>>
  PROVE  Inv'
<1> USE DEF Goto
<1> LMP!Inv' /\ \A q \in Robots : LM!HeldBy(q)' = LM!HeldBy(q)
  BY LeasesKept DEF Inv
<1>1. TypeOK'
  <2>1. LM!TypeOK'
    BY LeaseTypes
  <2>2. QED
    BY <2>1 DEF Inv, TypeOK, Driving, Publishing, Ended, leaseVars, busVars, history
<1>2. AbandonedAreOver'
  BY DEF Inv, TypeOK, AbandonedAreOver, history
<1>3. LeasesAreTheirs'
  BY DEF Inv, TypeOK, LeasesAreTheirs, Driving, Publishing, leaseVars, history
<1>4. DriversHold'
  <2> SUFFICES ASSUME overrun = {}, NEW u \in Subtasks, pc'[u] \in Driving
               PROVE  LM!HeldBy(robot[u])' = u
    BY DEF DriversHold, history
  <2>1. pc[u] \in Driving
    BY DEF Inv, TypeOK, Driving, Publishing
  <2>2. PICK q \in Robots : q = robot[u]
    BY <2>1, FleetAssumption DEF Inv, TypeOK
  <2>3. QED
    BY <2>1, <2>2 DEF Inv, DriversHold
<1>5. BusInv'
  BY MoveKeepsBus DEF Inv, Driving, Publishing, Ended, busVars, history
<1>6. QED
  BY <1>1, <1>2, <1>3, <1>4, <1>5 DEF Inv

LEMMA HandlerStep ==
  ASSUME Inv, NEW t \in Subtasks, NextHandler(t)
  PROVE  Inv'
<1> USE DEF NextHandler
<1> LMP!Inv' /\ \A q \in Robots : LM!HeldBy(q)' = LM!HeldBy(q)
  BY LeasesKept DEF Inv
<1>1. TypeOK'
  <2>1. LM!TypeOK'
    BY LeaseTypes
  <2>2. Event(t, pc[t]) \in Events
    BY DEF Event, Events
  <2>3. handler'[t] \in 1 .. Subscribers /\ handler[t] + 1 \in 1 .. Subscribers
    BY FleetAssumption DEF Inv, TypeOK
  <2>4. seen' \in [1 .. Subscribers -> [Robots -> Events]]
    BY <2>2, <2>3 DEF Inv, TypeOK
  <2>5. QED
    BY <2>1, <2>3, <2>4, FleetAssumption DEF Inv, TypeOK, leaseVars, history
<1>2. AbandonedAreOver' /\ LeasesAreTheirs'
  BY DEF Inv, AbandonedAreOver, LeasesAreTheirs, leaseVars, history
<1>3. DriversHold'
  <2> SUFFICES ASSUME overrun = {}, NEW u \in Subtasks, pc[u] \in Driving
               PROVE  LM!HeldBy(robot[u])' = u
    BY DEF DriversHold, history
  <2>2. PICK q \in Robots : q = robot[u]
    BY FleetAssumption DEF Inv, TypeOK
  <2>3. QED
    BY <2>2 DEF Inv, DriversHold
<1>4. BusInv'
  BY HandlerKeepsBus DEF Inv
<1>5. QED
  BY <1>1, <1>2, <1>3, <1>4 DEF Inv

\* A status published by a coroutine that has its robot; on the first one it has
\* fetched the live lease of the robot.
LEMMA StatusStep ==
  ASSUME Inv, NEW t \in Subtasks, NEW place \in {"starting", "finishing"},
         pc[t] = (IF place = "starting" THEN "assigning" ELSE "running"),
         Publish(t, robot[t], place),
         place = "starting" => /\ LM!IsLeased(robot[t])
                               /\ handle' = [handle EXCEPT ![t] = leases[robot[t]]],
         place # "starting" => handle' = handle,
         UNCHANGED <<leaseVars, robot, history>>
  PROVE  Inv'
<1> USE DEF Publish, Goto
<1> LMP!Inv' /\ \A q \in Robots : LM!HeldBy(q)' = LM!HeldBy(q)
  BY LeasesKept DEF Inv
<1>1. PICK r \in Robots : r = robot[t]
  BY FleetAssumption DEF Inv, TypeOK, Driving, Publishing
<1>2. handle'[t] \in issued /\ handle'[t] # None
  BY <1>1, HeldByLease DEF Inv, TypeOK, Driving, Publishing
<1>3. TypeOK'
  <2>1. LM!TypeOK'
    BY LeaseTypes
  <2>2. latest' \in [Robots -> Events] /\ seen' \in [1 .. Subscribers -> [Robots -> Events]]
    <3>1. Event(t, place) \in Events
      BY DEF Events, Event, Publishing
    <3>2. latest \in [Robots -> Events] /\ seen \in [1 .. Subscribers -> [Robots -> Events]]
      BY DEF Inv, TypeOK
    <3>3. /\ latest' = [latest EXCEPT ![r] = Event(t, place)]
          /\ seen' = [seen EXCEPT ![1][r] = Event(t, place)]
      BY <1>1
    <3>4. /\ [latest EXCEPT ![r] = Event(t, place)] \in [Robots -> Events]
          /\ [seen[1] EXCEPT ![r] = Event(t, place)] \in [Robots -> Events]
      BY <3>1, <3>2, FleetAssumption
    <3>5. seen' \in [1 .. Subscribers -> [Robots -> Events]]
      <4> DEFINE s == [seen[1] EXCEPT ![r] = Event(t, place)]
      <4>1. seen' = [seen EXCEPT ![1] = s]
        BY <3>3
      <4>2. s \in [Robots -> Events]
        BY <3>4
      <4> HIDE DEF s
      <4>3. QED
        BY <3>2, <4>1, <4>2
    <3>6. QED
      BY <3>3, <3>4, <3>5
  <2>3. handle' \in [Subtasks -> issued' \cup {None}]
    BY <1>2 DEF Inv, TypeOK, leaseVars
  <2>4. ASSUME NEW u \in Subtasks
        PROVE  /\ pc'[u] \in Driving => robot'[u] \in Compatible[u]
               /\ pc'[u] \in Driving \ {"assigning"} => handle'[u] # None
    BY <1>2 DEF Inv, TypeOK, Driving, Publishing
  <2>5. /\ pc' \in [Subtasks -> {"idle"} \cup Driving \cup Ended]
        /\ handler' \in [Subtasks -> 0 .. Subscribers]
    BY FleetAssumption DEF Inv, TypeOK, Driving, Publishing
  <2>6. QED
    BY <2>1, <2>2, <2>3, <2>4, <2>5 DEF Inv, TypeOK, history
<1>4. AbandonedAreOver'
  BY DEF Inv, TypeOK, AbandonedAreOver, history
<1>5. LeasesAreTheirs'
  <2> SUFFICES ASSUME NEW u \in Subtasks, NEW q \in Robots, LM!HeldBy(q) = u
               PROVE  /\ robot[u] = q
                      /\ pc'[u] \in Driving \/ u \in abandoned
                      /\ pc'[u] \in Driving \ {"assigning"} => handle'[u] = leases[q]
    BY DEF LeasesAreTheirs, leaseVars, history
  <2>1. CASE u = t
    BY <1>1, <2>1 DEF Inv, TypeOK, LeasesAreTheirs, Driving, Publishing
  <2>2. CASE u # t
    BY <2>2 DEF Inv, TypeOK, LeasesAreTheirs
  <2>3. QED
    BY <2>1, <2>2
<1>6. DriversHold'
  <2> SUFFICES ASSUME overrun = {}, NEW u \in Subtasks, pc'[u] \in Driving
               PROVE  LM!HeldBy(robot[u])' = u
    BY DEF DriversHold, history
  <2>1. pc[u] \in Driving
    BY DEF Inv, TypeOK, Driving, Publishing
  <2>2. PICK q \in Robots : q = robot[u]
    BY <2>1, FleetAssumption DEF Inv, TypeOK
  <2>3. QED
    BY <2>1, <2>2 DEF Inv, DriversHold
<1>7. BusInv'
  <2>1. robot' = [robot EXCEPT ![t] = r]
    BY <1>1 DEF Inv, TypeOK
  <2>2. pc[t] \in Driving /\ pc[t] # "idle" /\ Publish(t, r, place)
    BY <1>1 DEF Driving, Publishing
  <2>3. TypeOK /\ BusInv /\ place \in Publishing /\ shared' = shared /\ shared \subseteq Robots
    BY DEF Inv, TypeOK, Publishing, history
  <2> HIDE DEF Publish, Goto
  <2>4. QED
    BY <1>1, <2>1, <2>2, <2>3, PublishKeepsBus
<1>8. QED
  BY <1>3, <1>4, <1>5, <1>6, <1>7 DEF Inv

\* A coroutine ends and gives back the lease it holds: nothing is leased to it
\* any more, and no lease of another coroutine is touched within the leases.
LEMMA EndStep ==
  ASSUME Inv, NEW t \in Subtasks, NEW place \in {"done", "cancelled"},
         pc[t] \in Driving \ {"assigning"},
         LM!Release(handle[t]),
         Goto(t, place),
         UNCHANGED <<robot, handle, handler, busVars, history>>
  PROVE  Inv'
<1> USE DEF Goto
<1>1. PICK x \in issued : x = handle[t]
  BY DEF Inv, TypeOK
<1>2. /\ LMP!Inv'
      /\ issued' = issued
      /\ \A q \in Robots :
            IF leases[q] = x THEN LM!HeldBy(q)' = None
            ELSE leases'[q] = leases[q] /\ LM!HeldBy(q)' = LM!HeldBy(q)
  BY <1>1, LeaseReleased DEF Inv
<1>3. TypeOK'
  <2>1. LM!TypeOK'
    BY <1>2, LeaseTypes
  <2>2. pc' \in [Subtasks -> {"idle"} \cup Driving \cup Ended]
    BY DEF Inv, TypeOK, Ended
  <2>3. \A u \in Subtasks : pc'[u] \in Driving => u # t /\ pc'[u] = pc[u]
    BY DEF Inv, TypeOK, Driving, Publishing
  <2>4. QED
    BY <1>2, <2>1, <2>2, <2>3 DEF Inv, TypeOK, busVars, history
<1>4. AbandonedAreOver'
  BY DEF Inv, TypeOK, AbandonedAreOver, Driving, Publishing, history
<1>5. LeasesAreTheirs'
  <2> SUFFICES ASSUME NEW u \in Subtasks, NEW q \in Robots, LM!HeldBy(q)' = u
               PROVE  /\ robot[u] = q
                      /\ pc'[u] \in Driving \/ u \in abandoned
                      /\ pc'[u] \in Driving \ {"assigning"} => handle[u] = leases'[q]
    BY DEF LeasesAreTheirs, history
  <2>1. leases[q] # x /\ leases'[q] = leases[q] /\ LM!HeldBy(q) = u
    BY <1>2, FleetAssumption
  <2>2. u # t
    BY <1>1, <2>1 DEF Inv, LeasesAreTheirs
  <2>3. QED
    BY <2>1, <2>2 DEF Inv, TypeOK, LeasesAreTheirs
<1>6. DriversHold'
  <2> SUFFICES ASSUME overrun = {}, NEW u \in Subtasks, pc'[u] \in Driving
               PROVE  LM!HeldBy(robot[u])' = u
    BY DEF DriversHold, history
  <2>1. u # t /\ pc[u] \in Driving
    BY DEF Inv, TypeOK, Driving, Publishing
  <2>2. PICK q \in Robots : q = robot[u]
    BY <2>1, FleetAssumption DEF Inv, TypeOK
  <2>3. PICK r \in Robots : r = robot[t]
    BY FleetAssumption DEF Inv, TypeOK
  <2>4. LM!HeldBy(q) = u /\ LM!HeldBy(r) = t
    BY <2>1, <2>2, <2>3 DEF Inv, DriversHold
  <2>5. leases[r] = x
    BY <1>1, <2>3, <2>4 DEF Inv, LeasesAreTheirs
  <2>6. leases[q] # x
    BY <2>1, <2>4, <2>5, HeldByLease, FleetAssumption DEF Inv
  <2>7. QED
    BY <1>2, <2>2, <2>4, <2>6
<1>7. BusInv'
  BY MoveKeepsBus DEF Inv, Ended, history
<1>8. QED
  BY <1>2, <1>3, <1>4, <1>5, <1>6, <1>7 DEF Inv

\* A coroutine ends and leaves the leases alone: cancelled inside assign(), or
\* refused by the assertion because its robot is not leased any more.
LEMMA LeaveStep ==
  ASSUME Inv, NEW t \in Subtasks, pc[t] = "assigning",
         NEW place \in {"asserted", "cancelled"},
         Goto(t, place),
         place = "asserted" => ~LM!IsLeased(robot[t]) /\ abandoned' = abandoned,
         place = "cancelled" => abandoned' = abandoned \cup {t},
         UNCHANGED <<leaseVars, robot, handle, handler, busVars, overrun, shared>>
  PROVE  Inv'
<1> USE DEF Goto
<1> LMP!Inv' /\ \A q \in Robots : LM!HeldBy(q)' = LM!HeldBy(q)
  BY LeasesKept DEF Inv
<1>1. TypeOK'
  <2>1. LM!TypeOK'
    BY LeaseTypes
  <2>2. abandoned' \subseteq Subtasks
    BY DEF Inv, TypeOK
  <2>3. QED
    BY <2>1, <2>2 DEF Inv, TypeOK, Driving, Publishing, Ended, leaseVars, busVars
<1>2. AbandonedAreOver'
  BY DEF Inv, TypeOK, AbandonedAreOver
<1>3. LeasesAreTheirs'
  <2> SUFFICES ASSUME NEW u \in Subtasks, NEW q \in Robots, LM!HeldBy(q) = u
               PROVE  /\ robot[u] = q
                      /\ pc'[u] \in Driving \/ u \in abandoned'
                      /\ pc'[u] \in Driving \ {"assigning"} => handle[u] = leases[q]
    BY DEF LeasesAreTheirs, leaseVars
  <2>1. robot[u] = q /\ LM!IsLeased(q)
    BY HeldByLease, FleetAssumption DEF Inv, LeasesAreTheirs
  <2>2. CASE u = t
    BY <2>1, <2>2 DEF Inv, TypeOK, Driving, Publishing
  <2>3. CASE u # t
    BY <2>3 DEF Inv, TypeOK, LeasesAreTheirs
  <2>4. QED
    BY <2>2, <2>3
<1>4. DriversHold'
  <2> SUFFICES ASSUME overrun = {}, NEW u \in Subtasks, pc'[u] \in Driving
               PROVE  LM!HeldBy(robot[u])' = u
    BY DEF DriversHold
  <2>1. pc[u] \in Driving
    BY DEF Inv, TypeOK, Driving, Publishing
  <2>2. PICK q \in Robots : q = robot[u]
    BY <2>1, FleetAssumption DEF Inv, TypeOK
  <2>3. QED
    BY <2>1, <2>2 DEF Inv, DriversHold
<1>5. BusInv'
  BY MoveKeepsBus DEF Inv, Driving, Publishing, Ended
<1>6. QED
  BY <1>1, <1>2, <1>3, <1>4, <1>5 DEF Inv

LEMMA ClaimStep ==
  ASSUME Inv, NEW r \in Robots, Claim(r)
  PROVE  Inv'
<1> USE DEF Claim
<1>1. /\ LMP!Inv'
      /\ issued \subseteq issued'
      /\ LM!HeldBy(r) \in {None, Operator}
      /\ LM!HeldBy(r)' = IF LeaseS = 0 THEN None ELSE Operator
      /\ \A q \in Robots \ {r} :
            leases'[q] = leases[q] /\ LM!HeldBy(q)' = LM!HeldBy(q)
  BY LeaseAcquired DEF Inv, Holders
<1>2. LM!HeldBy(r) \notin Subtasks /\ LM!HeldBy(r)' \notin Subtasks
  BY <1>1, FleetAssumption
<1>3. TypeOK'
  <2>1. LM!TypeOK'
    BY <1>1, LeaseTypes
  <2>2. handle' \in [Subtasks -> issued' \cup {None}]
    BY <1>1 DEF Inv, TypeOK
  <2>3. QED
    BY <2>1, <2>2 DEF Inv, TypeOK, busVars, history
<1>4. AbandonedAreOver' /\ BusInv'
  BY DEF Inv, AbandonedAreOver, BusInv, UnassignedHaveNoRobot,
     LatestIsOfRobot, LatestIsByDriver, DeliveredInOrder, Drivers, busVars, history
<1>5. LeasesAreTheirs'
  <2> SUFFICES ASSUME NEW u \in Subtasks, NEW q \in Robots, LM!HeldBy(q)' = u
               PROVE  /\ robot[u] = q
                      /\ pc[u] \in Driving \/ u \in abandoned
                      /\ pc[u] \in Driving \ {"assigning"} => handle[u] = leases'[q]
    BY DEF LeasesAreTheirs, history
  <2>1. q # r
    BY <1>2
  <2>2. QED
    BY <1>1, <2>1 DEF Inv, LeasesAreTheirs
<1>6. DriversHold'
  <2> SUFFICES ASSUME overrun = {}, NEW u \in Subtasks, pc[u] \in Driving
               PROVE  LM!HeldBy(robot[u])' = u
    BY DEF DriversHold, history
  <2>1. PICK q \in Robots : q = robot[u]
    BY FleetAssumption DEF Inv, TypeOK
  <2>2. LM!HeldBy(q) = u /\ q # r
    BY <1>2, <2>1 DEF Inv, DriversHold
  <2>3. QED
    BY <1>1, <2>1, <2>2
<1>7. QED
  BY <1>1, <1>3, <1>4, <1>5, <1>6 DEF Inv

LEMMA TickStep ==
  ASSUME Inv, Tick
  PROVE  Inv'
<1> USE DEF Tick
<1>1. /\ LMP!Inv'
      /\ issued' = issued /\ leases' = leases
      /\ \A q \in Robots :
            LM!HeldBy(q)' = IF deadlines'[q] = 0 THEN None ELSE LM!HeldBy(q)
  BY LeasesAged DEF Inv
<1>2. TypeOK'
  <2>1. LM!TypeOK'
    BY <1>1, LeaseTypes
  <2>2. overrun' \subseteq Subtasks
    BY DEF Inv, TypeOK
  <2>3. QED
    BY <1>1, <2>1, <2>2 DEF Inv, TypeOK, busVars
<1>3. AbandonedAreOver' /\ BusInv'
  BY DEF Inv, AbandonedAreOver, BusInv, UnassignedHaveNoRobot,
     LatestIsOfRobot, LatestIsByDriver, DeliveredInOrder, Drivers, busVars
<1>4. LeasesAreTheirs'
  BY <1>1, FleetAssumption DEF Inv, LeasesAreTheirs
<1>5. DriversHold'
  <2> SUFFICES ASSUME overrun' = {}, NEW u \in Subtasks, pc[u] \in Driving
               PROVE  LM!HeldBy(robot[u])' = u
    BY DEF DriversHold
  <2>1. PICK q \in Robots : q = robot[u]
    BY FleetAssumption DEF Inv, TypeOK
  <2>2. overrun = {}
    OBVIOUS
  <2>3. LM!HeldBy(q) = u
    BY <2>1, <2>2 DEF Inv, DriversHold
  <2>4. deadlines'[q] # 0
    BY <2>1, <2>3
  <2>5. QED
    BY <1>1, <2>1, <2>3, <2>4
<1>6. QED
  BY <1>1, <1>2, <1>3, <1>4, <1>5 DEF Inv

LEMMA CoroutineStep ==
  ASSUME Inv, NEW t \in Subtasks, Coroutine(t)
  PROVE  Inv'
<1> t \in abandoned => pc[t] = "cancelled"
  BY DEF Inv, AbandonedAreOver
<1>1. CASE Mismatch(t)
  BY <1>1, MoveStep DEF Mismatch
<1>2. CASE NoCapacity(t)
  BY <1>2, MoveStep DEF NoCapacity
<1>3. CASE Assign(t)
  BY <1>3, AssignStep
<1>4. CASE NextHandler(t)
  BY <1>4, HandlerStep
<1>5. CASE FetchLease(t)
  <2>1. CASE LM!IsLeased(robot[t])
    BY <1>5, <2>1, StatusStep DEF FetchLease, Delivered
  <2>2. CASE ~LM!IsLeased(robot[t])
    BY <1>5, <2>2, LeaveStep DEF FetchLease, Delivered, history
  <2>3. QED
    BY <2>1, <2>2
<1>6. CASE Run(t)
  BY <1>6, MoveStep DEF Run, Delivered
<1>7. CASE RunEnds(t)
  BY <1>7, StatusStep DEF RunEnds
<1>8. CASE Done(t)
  BY <1>8, EndStep DEF Done, Delivered, Driving, Publishing
<1>9. CASE Cancel(t)
  <2>1. CASE pc[t] = "assigning"
    BY <1>9, <2>1, LeaveStep DEF Cancel
  <2>2. CASE pc[t] # "assigning"
    BY <1>9, <2>2, EndStep DEF Cancel, history
  <2>3. QED
    BY <2>1, <2>2
<1>10. QED
  BY <1>1, <1>2, <1>3, <1>4, <1>5, <1>6, <1>7, <1>8, <1>9 DEF Coroutine

LEMMA InvStep == Inv /\ [Next]_vars => Inv'
<1> SUFFICES ASSUME Inv, [Next]_vars PROVE Inv'
  OBVIOUS
<1>1. CASE UNCHANGED vars
  <2>1. LMP!Inv' /\ LM!TypeOK'
    BY <1>1, LeasesKept, LeaseTypes DEF Inv, vars, leaseVars
  <2>2. QED
    BY <1>1, <2>1 DEF Inv, TypeOK, LeasesAreTheirs, AbandonedAreOver,
       DriversHold, BusInv, UnassignedHaveNoRobot, LatestIsOfRobot, LatestIsByDriver,
       DeliveredInOrder, Drivers, vars, leaseVars, busVars, history,
       LM!HeldBy, LM!IsLeased, LM!IsExpired
<1>2. QED
  BY <1>1, CoroutineStep, ClaimStep, TickStep DEF Next

-----------------------------------------------------------------------------
\* Every coroutine has a robot of a type it accepts from its assignment on, and
\* past assign() a lease object the manager issued.
THEOREM TypeCorrect == Spec => []TypeOK
<1>1. Inv => TypeOK
  BY DEF Inv
<1>2. QED
  BY InvInit, InvStep, <1>1, PTL DEF Spec

\* As long as no lease runs out under its subtask, no two loops drive a robot.
THEOREM DriversAreExclusive == Spec => []OneDriverWithinLeases
<1>1. Inv => OneDriverWithinLeases
  <2> SUFFICES ASSUME Inv, overrun = {}, NEW r \in Robots
               PROVE  Cardinality(Drivers(r)) <= 1
    BY DEF OneDriverWithinLeases
  <2>1. Drivers(r) \subseteq {LM!HeldBy(r)}
    BY DEF Inv, DriversHold, Drivers
  <2>2. CASE Drivers(r) = {}
    BY <2>2, FS_EmptySet
  <2>3. CASE Drivers(r) = {LM!HeldBy(r)}
    <3>1. Cardinality({LM!HeldBy(r)}) = 1
      BY FS_Singleton, Zenon
    <3>2. QED
      BY <2>3, <3>1
  <2>4. QED
    BY <2>1, <2>2, <2>3
<1>2. QED
  BY InvInit, InvStep, <1>1, PTL DEF Spec

\* No robot stays with a coroutine that has ended, however it ended, unless it
\* was cancelled between the acquisition and the return of assign().
THEOREM EndedTasksAreFree == Spec => []EndedTasksHoldNothing
<1>1. Inv => EndedTasksHoldNothing
  BY DEF Inv, LeasesAreTheirs, EndedTasksHoldNothing, Ended, Driving, Publishing
<1>2. QED
  BY InvInit, InvStep, <1>1, PTL DEF Spec

\* Statuses of a robot that one loop at a time has driven reach every subscriber
\* in the order they were published.
THEOREM SubscribersSeeTheLatest == Spec => []SubscribersAgree
<1>1. Inv => SubscribersAgree
  BY DEF Inv, BusInv, DeliveredInOrder, SubscribersAgree
<1>2. QED
  BY InvInit, InvStep, <1>1, PTL DEF Spec
-----------------------------------------------------------------------------
(* Refinement *)

LEMMA LeaseManagerStep ==
  ASSUME Inv, [Next]_vars
  PROVE  [LM!Next]_(LM!vars)
<1>1. CASE UNCHANGED leaseVars
  BY <1>1 DEF leaseVars, LM!vars
<1>2. CASE UNCHANGED vars
  BY <1>2 DEF vars, leaseVars, LM!vars
<1>3. ASSUME NEW t \in Subtasks, Coroutine(t)
      PROVE  LM!Next \/ UNCHANGED leaseVars
  <2>1. CASE Assign(t)
    <3>1. PICK r \in Robots : LM!Acquire(r, LeaseS, t)
      BY <2>1, RouteIsFree DEF Assign
    <3>2. QED
      BY <3>1 DEF LM!Next, Holders
  <2>2. CASE pc[t] \in Driving \ {"assigning"} /\ LM!Release(handle[t])
    <3>1. handle[t] \in issued
      BY <2>2 DEF Inv, TypeOK
    <3>2. QED
      BY <2>2, <3>1 DEF LM!Next
  <2>3. QED
    BY <1>3, <2>1, <2>2 DEF Coroutine, Mismatch, NoCapacity, NextHandler, FetchLease, Run,
       RunEnds, Done, Cancel, Delivered, Driving, Publishing
<1>4. ASSUME NEW r \in Robots, Claim(r)
      PROVE  LM!Next
  BY <1>4 DEF Claim, LM!Next, Holders
<1>5. Tick => LM!Next
  BY DEF Tick, LM!Next
<1>6. QED
  BY <1>1, <1>2, <1>3, <1>4, <1>5 DEF Next

\* The coordinator, its coroutines and its outside claimants only ever use the
\* leases as the lease manager allows.
THEOREM FleetUsesLeaseManager == Spec => LM!Spec
<1>1. Init => LM!Init
  BY DEF Init
<1>2. Inv /\ [Next]_vars => [LM!Next]_(LM!vars)
  BY LeaseManagerStep
<1>3. QED
  BY <1>1, <1>2, InvInit, InvStep, PTL DEF Spec, LM!Spec
=============================================================================
