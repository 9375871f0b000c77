------------------------- MODULE LeaseManagerProofs -------------------------
(***************************************************************************)
(* Leases are honoured, and implement exclusive ownership, for any fleet,  *)
(* any number of tasks and leases and any lease_s.                         *)
(***************************************************************************)
EXTENDS LeaseManager, TLAPS

\* What the dict holds was issued, for that robot.
LeaseKnown ==
    \A r \in Robots : leases[r] # None =>
        leases[r] \in issued /\ info[leases[r]].robot = r

Inv == TypeOK /\ LeaseKnown /\ ClaimHonoured

LEMMA InvInit == Init => Inv
<1> SUFFICES ASSUME Init PROVE Inv
  OBVIOUS
<1>1. TypeOK
  BY DEF Init, TypeOK
<1>2. LeaseKnown /\ ClaimHonoured
  BY DEF Init, LeaseKnown, ClaimHonoured
<1>3. QED
  BY <1>1, <1>2 DEF Inv

\* A lease the manager still owes its robot is the one in the dict: so an
\* acquisition that is let through can cut short only the caller's own lease.
LEMMA OwedIsCurrent ==
  ASSUME Inv, NEW x \in issued, ttl[x] > 0
  PROVE  LET r == info[x].robot IN r \in Robots /\ leases[r] = x /\ HeldBy(r) = info[x].holder
BY LeaseAssumption DEF Inv, TypeOK, ClaimHonoured, LeaseInfo, HeldBy, IsLeased, IsExpired

LEMMA AcquireStep ==
  ASSUME Inv, NEW r \in Robots, NEW d \in Durations, NEW h \in Holders, Acquire(r, d, h)
  PROVE  Inv'
<1> PICK x \in LeaseIds \ issued :
      /\ leases' = [leases EXCEPT ![r] = x]
      /\ deadlines' = [deadlines EXCEPT ![r] = d]
      /\ issued' = issued \cup {x}
      /\ info' = [y \in issued \cup {x} |->
                    IF y = x THEN [robot |-> r, holder |-> h] ELSE info[y]]
      /\ ttl' = [y \in LeaseIds |->
                   IF y = x THEN d
                   ELSE IF y \in issued /\ info[y] = [robot |-> r, holder |-> h] THEN 0
                   ELSE ttl[y]]
  BY DEF Acquire
<1> d \in Nat /\ x # None /\ d # None
  BY LeaseAssumption
<1>1. TypeOK'
  BY DEF Inv, TypeOK, LeaseInfo
<1>2. LeaseKnown'
  BY DEF Inv, TypeOK, LeaseKnown
<1>3. ClaimHonoured'
  <2> SUFFICES ASSUME NEW y \in issued', ttl'[y] > 0
               PROVE  /\ leases'[info'[y].robot] = y
                      /\ deadlines'[info'[y].robot] = ttl'[y]
    BY DEF ClaimHonoured
  <2>1. CASE y = x
    BY <2>1 DEF Inv, TypeOK
  <2>2. CASE y # x
    <3>1. y \in issued /\ ttl'[y] = ttl[y] /\ info'[y] = info[y]
          /\ info[y] # [robot |-> r, holder |-> h]
      BY <2>2 DEF Inv, TypeOK
    <3>2. info[y].robot \in Robots /\ HeldBy(info[y].robot) = info[y].holder
      BY <3>1, OwedIsCurrent
    <3>3. info[y].robot # r
      <4>1. SUFFICES ASSUME info[y].robot = r PROVE FALSE
        OBVIOUS
      <4>2. info[y].holder = h
        <5>1. info[y].holder \in Holders
          BY <3>1 DEF Inv, TypeOK, LeaseInfo
        <5>2. QED
          BY <3>2, <4>1, <5>1, LeaseAssumption DEF Acquire, MayAcquire
      <4>3. QED
        BY <3>1, <4>1, <4>2 DEF Inv, TypeOK, LeaseInfo
    <3>4. QED
      BY <3>1, <3>2, <3>3 DEF Inv, TypeOK, ClaimHonoured
  <2>3. QED
    BY <2>1, <2>2
<1>4. QED
  BY <1>1, <1>2, <1>3 DEF Inv

LEMMA ReleaseStep ==
  ASSUME Inv, NEW x \in issued, Release(x)
  PROVE  Inv'
<1> DEFINE r == info[x].robot
<1> r \in Robots
  BY DEF Inv, TypeOK, LeaseInfo
<1> USE LeaseAssumption DEF Inv, TypeOK
<1>1. TypeOK'
  BY DEF Release
<1>2. LeaseKnown'
  BY DEF Release, LeaseKnown
<1>3. ClaimHonoured'
  <2> SUFFICES ASSUME NEW y \in issued', ttl'[y] > 0
               PROVE  /\ leases'[info'[y].robot] = y
                      /\ deadlines'[info'[y].robot] = ttl'[y]
    BY DEF ClaimHonoured
  <2>1. y \in issued /\ y # x /\ ttl'[y] = ttl[y] /\ info' = info
    BY DEF Release
  <2>2. /\ info[y].robot \in Robots
        /\ leases[info[y].robot] = y
        /\ deadlines[info[y].robot] = ttl[y]
    BY <2>1 DEF ClaimHonoured, LeaseInfo
  <2>3. QED
    BY <2>1, <2>2 DEF Release
<1>4. QED
  BY <1>1, <1>2, <1>3

LEMMA TickStep == Inv /\ Tick => Inv'
<1> SUFFICES ASSUME Inv, Tick PROVE Inv'
  OBVIOUS
<1> USE LeaseAssumption DEF Inv, TypeOK, Tick, Less
<1>1. TypeOK'
  OBVIOUS
<1>2. LeaseKnown'
  BY DEF LeaseKnown
<1>3. ClaimHonoured'
  BY DEF ClaimHonoured, LeaseInfo
<1>4. QED
  BY <1>1, <1>2, <1>3

LEMMA InvStep == Inv /\ [Next]_vars => Inv'
<1> SUFFICES ASSUME Inv, [Next]_vars PROVE Inv'
  OBVIOUS
<1>1. CASE UNCHANGED vars
  BY <1>1 DEF Inv, TypeOK, LeaseKnown, ClaimHonoured, vars
<1>2. QED
  BY <1>1, AcquireStep, ReleaseStep, TickStep DEF Next

\* The two dicts of the manager always agree on which robots have an entry.
THEOREM TypeCorrect == Spec => []TypeOK
<1>1. Inv => TypeOK
  BY DEF Inv
<1>2. QED BY InvInit, InvStep, <1>1, PTL DEF Spec

\* No lease is cut short by anyone but its holder.
THEOREM LeasesHonoured == Spec => []ClaimHonoured
<1>1. Inv => ClaimHonoured
  BY DEF Inv
<1>2. QED BY InvInit, InvStep, <1>1, PTL DEF Spec
-----------------------------------------------------------------------------
(* Refinement *)

ownerBar == [r \in Robots |-> HeldBy(r)]

LEMMA AcquireTakes ==
  ASSUME Inv, NEW r \in Robots, NEW d \in Durations, NEW h \in Holders, Acquire(r, d, h)
  PROVE  Ownership!Next
<1> d \in Nat /\ d # None
  BY LeaseAssumption
<1>1. \A q \in Robots \ {r} : HeldBy(q)' = HeldBy(q)
  BY DEF Acquire, Inv, TypeOK, LeaseKnown, HeldBy, IsLeased, IsExpired
<1>2. HeldBy(r)' = IF d = 0 THEN None ELSE h
  BY LeaseAssumption DEF Acquire, Inv, TypeOK, HeldBy, IsLeased, IsExpired
<1>3. CASE d = 0
  <2>1. Ownership!Free({r})
    BY <1>1, <1>2, <1>3 DEF Ownership!Free
  <2>2. QED
    BY <2>1 DEF Ownership!Next
<1>4. CASE d # 0
  <2>1. Ownership!Take(r, h)
    <3>1. HeldBy(r) \in {None, h}
      BY DEF Acquire, MayAcquire
    <3>2. [q \in Robots |-> HeldBy(q)]' = [[q \in Robots |-> HeldBy(q)] EXCEPT ![r] = h]
      BY <1>1, <1>2, <1>4
    <3>3. QED
      BY <3>1, <3>2 DEF Ownership!Take
  <2>2. QED
    BY <2>1 DEF Ownership!Next
<1>5. QED
  BY <1>3, <1>4

LEMMA ReleaseFrees ==
  ASSUME Inv, NEW x \in issued, Release(x)
  PROVE  Ownership!Next \/ UNCHANGED ownerBar
<1> DEFINE r == info[x].robot
<1> r \in Robots
  BY DEF Inv, TypeOK, LeaseInfo
<1>1. CASE leases[r] = x
  <2>1. \A q \in Robots : HeldBy(q)' = IF q = r THEN None ELSE HeldBy(q)
    BY <1>1 DEF Release, Inv, TypeOK, HeldBy, IsLeased, IsExpired
  <2>2. Ownership!Free({r})
    BY <2>1 DEF Ownership!Free
  <2>3. QED
    BY <2>2 DEF Ownership!Next
<1>2. CASE leases[r] # x
  BY <1>2 DEF Release, ownerBar, HeldBy, IsLeased, IsExpired
<1>3. QED
  BY <1>1, <1>2

LEMMA TickFrees ==
  ASSUME Inv, Tick
  PROVE  Ownership!Next
<1> DEFINE rs == {r \in Robots : deadlines'[r] = 0}
<1>1. \A q \in Robots : HeldBy(q)' = IF q \in rs THEN None ELSE HeldBy(q)
  BY LeaseAssumption DEF Tick, Less, Inv, TypeOK, HeldBy, IsLeased, IsExpired
<1>2. Ownership!Free(rs)
  BY <1>1 DEF Ownership!Free
<1>3. QED
  BY <1>2 DEF Ownership!Next

\* Every behaviour of the manager is one of exclusive ownership: whatever the
\* interleaving of acquisitions, renewals, releases (stale ones included) and
\* expiry, a robot never passes from one live holder straight to another.
THEOREM LeasesImplementOwnership == Spec => OwnershipSpec
<1>1. Init => Ownership!Init
  BY LeaseAssumption DEF Init, Ownership!Init, HeldBy, IsLeased
<1>2. Inv /\ [Next]_vars => [Ownership!Next]_ownerBar
  <2> SUFFICES ASSUME Inv, [Next]_vars PROVE [Ownership!Next]_ownerBar
    OBVIOUS
  <2>1. CASE UNCHANGED vars
    BY <2>1 DEF vars, ownerBar, HeldBy, IsLeased, IsExpired
  <2>2. QED
    BY <2>1, AcquireTakes, ReleaseFrees, TickFrees DEF Next
<1>3. QED
  BY <1>1, <1>2, InvInit, InvStep, PTL DEF Spec, OwnershipSpec, Ownership!Spec, ownerBar

=============================================================================
