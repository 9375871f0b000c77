---------------------------- MODULE LeaseManager ----------------------------
(***************************************************************************)
(* fleet/lease.py: one time-bounded lease per robot.  Every method runs    *)
(* from its first line to its last without an await that can block (the    *)
(* lock guards no await), so each one is an action.                        *)
(*                                                                         *)
(* Time is the monotonic clock the deadlines are on; a deadline is kept as *)
(* the number of ticks left to it.                                         *)
(***************************************************************************)
EXTENDS Naturals

CONSTANTS
    Robots,
    Holders,    \* task or loop ids
    LeaseIds,   \* the uuids RobotLease can be given (bounds the runs)
    Durations,  \* the values of lease_s callers pass
    None        \* no entry in a dict; no holder

ASSUME LeaseAssumption ==
    /\ Durations \subseteq Nat
    /\ None \notin LeaseIds \cup Nat \cup Holders

VARIABLES
    leases,     \* _leases: robot -> its RobotLease (its id), or None
    deadlines,  \* _deadlines: robot -> ticks to the deadline, or None
    issued,     \* the RobotLease objects callers hold
    info,       \* robot_id and holder of each issued lease
    ttl         \* history: how long the manager still owes a lease its robot

vars == <<leases, deadlines, issued, info, ttl>>

LeaseInfo == [robot : Robots, holder : Holders]

\* Types; the two dicts always have the same keys: a lease without a deadline
\* would never expire.
TypeOK ==
    /\ leases \in [Robots -> LeaseIds \cup {None}]
    /\ deadlines \in [Robots -> Nat \cup {None}]
    /\ \A r \in Robots : leases[r] = None <=> deadlines[r] = None
    /\ issued \in SUBSET LeaseIds
    /\ info \in [issued -> LeaseInfo]
    /\ ttl \in [LeaseIds -> Nat]

Init ==
    /\ leases = [r \in Robots |-> None]
    /\ deadlines = [r \in Robots |-> None]
    /\ issued = {}
    /\ info = [x \in {} |-> None]
    /\ ttl = [x \in LeaseIds |-> 0]

\* (Mutant: only a missing deadline counts.)
IsExpiredWithoutClock(r) == deadlines[r] = None

IsExpired(r) == deadlines[r] # None /\ deadlines[r] = 0

IsLeased(r) == leases[r] # None /\ ~IsExpired(r)

HeldBy(r) == IF IsLeased(r) THEN info[leases[r]].holder ELSE None

\* (Mutant: whoever comes last gets the robot.)
MayAcquireAlways(r, h) == <<r, h>> \in Robots \X Holders

\* A live lease of another holder is a conflict and raises; in every other
\* case the robot gets a new lease, whatever was there before.
MayAcquire(r, h) == HeldBy(r) \in {None, h}

Acquire(r, d, h) ==
    /\ MayAcquire(r, h)
    /\ \E x \in LeaseIds \ issued :
          /\ leases' = [leases EXCEPT ![r] = x]
          /\ deadlines' = [deadlines EXCEPT ![r] = d]
          /\ issued' = issued \cup {x}
          /\ info' = [y \in issued \cup {x} |->
                        IF y = x THEN [robot |-> r, holder |-> h] ELSE info[y]]
          /\ ttl' = [y \in LeaseIds |->
                       IF y = x THEN d
                       ELSE IF y \in issued /\ info[y] = [robot |-> r, holder |-> h] THEN 0
                       ELSE ttl[y]]

\* (Mutant: release by robot, whatever lease is there now.)
ReleaseRobot(x) ==
    /\ x \in issued
    /\ leases' = [leases EXCEPT ![info[x].robot] = None]
    /\ deadlines' = [deadlines EXCEPT ![info[x].robot] = None]
    /\ ttl' = [ttl EXCEPT ![x] = 0]
    /\ UNCHANGED <<issued, info>>

\* Any caller that has the lease object can release it, at any time and again.
Release(x) ==
    /\ x \in issued
    /\ LET r == info[x].robot IN
          IF leases[r] = x
          THEN /\ leases' = [leases EXCEPT ![r] = None]
               /\ deadlines' = [deadlines EXCEPT ![r] = None]
          ELSE UNCHANGED <<leases, deadlines>>
    /\ ttl' = [ttl EXCEPT ![x] = 0]
    /\ UNCHANGED <<issued, info>>

Less(n) == IF n \in Nat \ {0} THEN n - 1 ELSE n

Tick ==
    /\ \E r \in Robots : deadlines[r] \notin {None, 0}
    /\ deadlines' = [r \in Robots |-> Less(deadlines[r])]
    /\ ttl' = [x \in LeaseIds |-> Less(ttl[x])]
    /\ UNCHANGED <<leases, issued, info>>

Next ==
    \/ \E r \in Robots, d \in Durations, h \in Holders : Acquire(r, d, h)
    \/ \E x \in issued : Release(x)
    \/ Tick

Spec == Init /\ [][Next]_vars

\* The clock runs; nobody has to call anything.
FairSpec == Spec /\ WF_vars(Tick)

-----------------------------------------------------------------------------
(* Properties *)

\* A lease a caller was given, did not release and did not renew keeps its robot
\* for as long as was asked for, whatever other callers acquire or release: no
\* takeover, no stale release and no release of a replaced lease cuts it short.
ClaimHonoured ==
    \A x \in issued : ttl[x] > 0 =>
        /\ leases[info[x].robot] = x
        /\ deadlines[info[x].robot] = ttl[x]

\* lease.py:1, "exclusive per-robot leasing": the leases implement ownership.
Ownership == INSTANCE RobotOwnership
    WITH Nobody <- None, owner <- [r \in Robots |-> HeldBy(r)]

OwnershipSpec == Ownership!Spec

\* A holder that vanishes blocks its robot only for a time: every lease ends for
\* good, though nobody releases it.
LeaseEnds ==
    \A x \in LeaseIds :
        <>[](\A r \in Robots : leases[r] = x => IsExpired(r))
=============================================================================
