---------------------------- MODULE RobotsProofs ----------------------------
(***************************************************************************)
(* Proofs about what stands between a plan and a robot: the registry of    *)
(* skills, one run of a built-in skill, one call of a tool on its way      *)
(* through the schema gate and the safety envelope, the capability gate    *)
(* with the taught motions, and the simulated robot.  They share no state. *)
(***************************************************************************)
EXTENDS CapabilityGate, SafeCalls, SkillRegistry, SkillRuns, SimServer, FiniteSetTheorems,
        SequenceTheorems, WellFoundedInduction, TLAPS

-----------------------------------------------------------------------------
(* The skill registry, for any skill objects, any manifests and any number *)
(* of calls.                                                               *)

SwapHandles == [name : SkillNames, old : SkillVersions \cup {NoVersion},
                new : SkillVersions, was : Skills \cup {NoSkill}, open : BOOLEAN]

RegistryTypes ==
    /\ skills \in [SkillNames -> [SkillVersions -> Skills \cup {NoSkill}]]
    /\ active \in [SkillNames -> SkillVersions \cup {NoVersion}]
    /\ handles \in Seq(SwapHandles)
    /\ orderly \in BOOLEAN

\* A skill object stands under its own name and version.
StoreIsNamed ==
    \A n \in SkillNames, v \in SkillVersions : skills[n][v] # NoSkill =>
        Manifest[skills[n][v]] = [name |-> n, version |-> v, valid |-> TRUE]

\* What is active, and what a handle names, is registered: nothing ever leaves the store.
Named ==
    /\ \A n \in SkillNames : active[n] # NoVersion => skills[n][active[n]] # NoSkill
    /\ \A i \in DOMAIN handles :
          LET h == handles[i] IN
          /\ skills[h.name][h.new] # NoSkill
          /\ h.old # NoVersion => skills[h.name][h.old] # NoSkill

\* The open handles of a skill are a chain: each leads back to what ran before its
\* swap, which is what the one before it brought; the newest brought what runs.
LastOpen(i, n) == i \in OpenOf(n) /\ \A j \in OpenOf(n) : j <= i
NextOpen(i, j, n) ==
    /\ i \in OpenOf(n) /\ j \in OpenOf(n) /\ i < j
    /\ \A k \in OpenOf(n) : k <= i \/ j <= k

Chained ==
    orderly => \A n \in SkillNames :
        /\ \A i \in OpenOf(n) : At(n, handles[i].old) = handles[i].was
        /\ \A i \in OpenOf(n) : LastOpen(i, n) => Active(n) = At(n, handles[i].new)
        /\ \A i, j \in OpenOf(n) : NextOpen(i, j, n) => handles[j].was = At(n, handles[i].new)

RegistryInv == RegistryTypes /\ StoreIsNamed /\ Named /\ Chained

\* A set of numbers that is not empty has a least one.
LEMMA LeastOf ==
    ASSUME NEW S, S \subseteq Nat, S # {} PROVE \E j \in S : \A k \in S : j <= k
<1>1. PICK j \in S : \A k \in S : <<k, j>> \notin OpToRel(<, Nat)
  BY NatLessThanWellFounded, WFMin, Zenon
<1>2. ASSUME NEW k \in S, k < j PROVE FALSE
  <2>1. <<k, j>> \in {ss \in Nat \X Nat : ss[1] < ss[2]}
    BY <1>2
  <2>2. QED
    BY <1>1, <2>1, Zenon DEF OpToRel
<1>3. QED
  BY <1>2

LEMMA RegistryIsKept == RegistryInv => RegistryKeepsVersions
<1> SUFFICES ASSUME RegistryInv PROVE RegistryKeepsVersions
  OBVIOUS
<1>1. TypeOKRegistry
  <2>1. ASSUME NEW i \in DOMAIN handles PROVE handles[i] \in SwapHandles
    BY DEF RegistryInv, RegistryTypes
  <2>2. QED
    BY <2>1 DEF RegistryInv, RegistryTypes, SwapHandles, Named, TypeOKRegistry
<1>2. ActiveIsRegistered
  BY DEF RegistryInv, RegistryTypes, StoreIsNamed, Named, ActiveIsRegistered, Active, At
<1>3. SwapsUnwind
  <2> SUFFICES ASSUME orderly, NEW n \in SkillNames, NEW i \in OpenOf(n)
               PROVE  LET later == {j \in OpenOf(n) : j > i}
                          isNext(j) == \A k \in later : j <= k
                          newer == IF later = {} THEN Active(n)
                                   ELSE handles[CHOOSE j \in later : isNext(j)].was
                      IN  /\ newer = At(n, handles[i].new)
                          /\ At(n, handles[i].old) = handles[i].was
    BY DEF SwapsUnwind
  <2> DEFINE later == {j \in OpenOf(n) : j > i}
             isNext(j) == \A k \in later : j <= k
             newer == IF later = {} THEN Active(n)
                      ELSE handles[CHOOSE j \in later : isNext(j)].was
  <2>1. OpenOf(n) \subseteq Nat
    BY DEF OpenOf, RegistryInv, RegistryTypes
  <2>2. Chained
    BY DEF RegistryInv
  <2>3. CASE later = {}
    <3>1. LastOpen(i, n)
      BY <2>1, <2>3 DEF LastOpen
    <3>2. QED
      BY <2>2, <2>3, <3>1 DEF Chained
  <2>4. CASE later # {}
    <3>1. PICK j \in later : isNext(j)
      BY <2>1, <2>4, LeastOf
    <3>2. \A k \in later : isNext(k) => k = j
      BY <2>1, <3>1
    <3>3. (CHOOSE k \in later : isNext(k)) = j
      BY <3>1, <3>2
    <3>4. NextOpen(i, j, n)
      BY <2>1, <3>1 DEF NextOpen
    <3>5. QED
      BY <2>2, <2>4, <3>1, <3>3, <3>4 DEF Chained
  <2>5. QED
    BY <2>3, <2>4
<1>4. QED
  BY <1>1, <1>2, <1>3 DEF RegistryKeepsVersions

LEMMA RegistryInvInit == RegistryInit => RegistryInv
<1> SUFFICES ASSUME RegistryInit PROVE RegistryInv
  OBVIOUS
<1>1. RegistryTypes
  BY DEF RegistryInit, RegistryTypes
<1>2. StoreIsNamed /\ Named
  BY DEF RegistryInit, StoreIsNamed, Named
<1>3. \A n \in SkillNames : OpenOf(n) = {}
  BY DEF RegistryInit, OpenOf
<1>4. QED
  BY <1>1, <1>2, <1>3 DEF RegistryInv, Chained

\* A registration, valid or not, adds a name to the store and takes none away.
LEMMA RegisteredKeeps ==
    ASSUME RegistryInv, NEW s \in Skills, Registered(s)
    PROVE  /\ skills' \in [SkillNames -> [SkillVersions -> Skills \cup {NoSkill}]]
           /\ active' \in [SkillNames -> SkillVersions \cup {NoVersion}]
           /\ StoreIsNamed'
           /\ \A n \in SkillNames : active'[n] # NoVersion => skills'[n][active'[n]] # NoSkill
           /\ \A n \in SkillNames, v \in SkillVersions :
                 skills[n][v] # NoSkill => skills'[n][v] # NoSkill
<1>1. /\ Manifest[s].name \in SkillNames /\ Manifest[s].version \in SkillVersions
      /\ s # NoSkill /\ Manifest[s].version # NoVersion
  BY RegistryAssumption DEF SkillNames, SkillVersions
<1>2. CASE ~Manifest[s].valid
  BY <1>2 DEF Registered, RegistryInv, RegistryTypes, StoreIsNamed, Named
<1>3. CASE Manifest[s].valid
  <2> DEFINE m == Manifest[s]
  <2>1. /\ skills' = [skills EXCEPT ![m.name][m.version] = s]
        /\ active' = [active EXCEPT ![m.name] = m.version]
    BY <1>3 DEF Registered
  <2>2. /\ skills' \in [SkillNames -> [SkillVersions -> Skills \cup {NoSkill}]]
        /\ active' \in [SkillNames -> SkillVersions \cup {NoVersion}]
    BY <1>1, <2>1 DEF RegistryInv, RegistryTypes
  <2>3. \A n \in SkillNames, v \in SkillVersions :
           skills'[n][v] = IF n = m.name /\ v = m.version THEN s ELSE skills[n][v]
    BY <1>1, <2>1 DEF RegistryInv, RegistryTypes
  <2>4. \A n \in SkillNames : active'[n] = IF n = m.name THEN m.version ELSE active[n]
    BY <1>1, <2>1 DEF RegistryInv, RegistryTypes
  <2>5. Manifest[s] = [name |-> m.name, version |-> m.version, valid |-> TRUE]
    BY <1>3, RegistryAssumption
  <2>6. StoreIsNamed'
    <3> SUFFICES ASSUME NEW n \in SkillNames, NEW v \in SkillVersions, skills'[n][v] # NoSkill
                 PROVE  Manifest[skills'[n][v]] = [name |-> n, version |-> v, valid |-> TRUE]
      BY DEF StoreIsNamed
    <3>1. CASE n = m.name /\ v = m.version
      BY <2>3, <2>5, <3>1
    <3>2. CASE ~(n = m.name /\ v = m.version)
      BY <2>3, <3>2 DEF RegistryInv, StoreIsNamed
    <3>3. QED
      BY <3>1, <3>2
  <2>7. QED
    BY <1>1, <2>2, <2>3, <2>4, <2>6 DEF RegistryInv, RegistryTypes, Named
<1>4. QED
  BY <1>2, <1>3

LEMMA RegisterKeeps ==
    ASSUME RegistryInv, NEW s \in Skills, Register(s) PROVE RegistryInv'
<1>1. Registered(s) /\ UNCHANGED handles /\ orderly' = (orderly /\ ~Manifest[s].valid)
  BY DEF Register
<1>2. RegistryTypes' /\ StoreIsNamed' /\ Named'
  <2>1. ASSUME NEW i \in DOMAIN handles PROVE handles[i] \in SwapHandles
    BY DEF RegistryInv, RegistryTypes
  <2>2. QED
    BY <1>1, <2>1, RegisteredKeeps DEF RegistryInv, RegistryTypes, Named, SwapHandles
<1>3. CASE Manifest[s].valid
  BY <1>1, <1>2, <1>3 DEF RegistryInv, Chained
<1>4. CASE ~Manifest[s].valid
  <2>1. UNCHANGED <<skills, active, handles, orderly>>
    BY <1>1, <1>4 DEF Registered, RegistryInv, RegistryTypes
  <2>2. Chained'
    BY <2>1 DEF RegistryInv, Chained, LastOpen, NextOpen, OpenOf, Active, At
  <2>3. QED
    BY <1>2, <2>2 DEF RegistryInv
<1>5. QED
  BY <1>3, <1>4

LEMMA HotswapKeeps ==
    ASSUME RegistryInv, NEW s \in Skills, Hotswap(s) PROVE RegistryInv'
<1> DEFINE m == Manifest[s]
           top == Len(handles) + 1
<1>1. Registered(s)
  BY DEF Hotswap
<1>2. CASE ~m.valid
  <2>1. skills' = skills /\ active' = active /\ handles' = handles /\ orderly' = orderly
    BY <1>1, <1>2 DEF Hotswap, Registered, RegistryInv, RegistryTypes
  <2>2. RegistryTypes' /\ StoreIsNamed' /\ Named'
    BY <2>1 DEF RegistryInv, RegistryTypes, StoreIsNamed, Named
  <2>3. Chained'
    BY <2>1 DEF RegistryInv, Chained, LastOpen, NextOpen, OpenOf, Active, At
  <2>4. QED
    BY <2>2, <2>3 DEF RegistryInv
<1>3. CASE m.valid
  <2>1. /\ m.name \in SkillNames /\ m.version \in SkillVersions
        /\ s # NoSkill /\ m.version # NoVersion
    BY RegistryAssumption DEF SkillNames, SkillVersions
  <2>2. /\ skills' = [skills EXCEPT ![m.name][m.version] = s]
        /\ active' = [active EXCEPT ![m.name] = m.version]
        /\ handles' = Append(handles, SwapHandle(s))
        /\ orderly' = (orderly /\ skills[m.name][m.version] = NoSkill)
    BY <1>1, <1>3 DEF Hotswap, Registered
  <2>3. SwapHandle(s) \in SwapHandles
    BY <2>1 DEF SwapHandle, Handle, SwapHandles, Active, At, RegistryInv, RegistryTypes
  <2>4. /\ handles' \in Seq(SwapHandles) /\ DOMAIN handles' = 1 .. top
        /\ \A i \in DOMAIN handles : i < top /\ handles'[i] = handles[i]
        /\ handles'[top] = SwapHandle(s) /\ DOMAIN handles = 1 .. Len(handles)
        /\ Len(handles) \in Nat
    BY <2>2, <2>3 DEF RegistryInv, RegistryTypes
  <2>5. \A n \in SkillNames, v \in SkillVersions :
           skills'[n][v] = IF n = m.name /\ v = m.version THEN s ELSE skills[n][v]
    BY <2>1, <2>2 DEF RegistryInv, RegistryTypes
  <2>6. \A n \in SkillNames : active'[n] = IF n = m.name THEN m.version ELSE active[n]
    BY <2>1, <2>2 DEF RegistryInv, RegistryTypes
  <2>7. RegistryTypes'
    BY <1>1, <2>2, <2>4, RegisteredKeeps DEF RegistryInv, RegistryTypes
  <2>8. StoreIsNamed'
    BY <1>1, RegisteredKeeps
  <2>9. /\ SwapHandle(s).name = m.name /\ SwapHandle(s).new = m.version
        /\ SwapHandle(s).old = active[m.name] /\ SwapHandle(s).was = Active(m.name)
        /\ SwapHandle(s).open
    BY DEF SwapHandle, Handle
  <2>10. ASSUME NEW i \in DOMAIN handles PROVE handles[i] \in SwapHandles
    BY DEF RegistryInv, RegistryTypes
  <2>11. Named'
    <3>1. \A i \in DOMAIN handles' :
             /\ skills'[handles'[i].name][handles'[i].new] # NoSkill
             /\ handles'[i].old # NoVersion => skills'[handles'[i].name][handles'[i].old] # NoSkill
      <4> TAKE i \in DOMAIN handles'
      <4>1. CASE i = top
        BY <2>1, <2>4, <2>5, <2>9, <4>1 DEF RegistryInv, RegistryTypes, Named
      <4>2. CASE i # top
        <5>1. i \in DOMAIN handles /\ handles'[i] = handles[i]
          BY <2>4, <4>2
        <5>2. QED
          BY <1>1, <2>10, <5>1, RegisteredKeeps DEF RegistryInv, Named, SwapHandles
      <4>3. QED
        BY <4>1, <4>2
    <3>2. QED
      BY <1>1, <3>1, RegisteredKeeps DEF Named
  <2>12. ASSUME orderly' PROVE Chained'
    <3>1. orderly /\ skills[m.name][m.version] = NoSkill
      BY <2>2, <2>12
    <3> DEFINE NewAt(n, v) == IF v = NoVersion THEN NoSkill ELSE skills'[n][v]
    <3>2. \A n \in SkillNames, v \in SkillVersions \cup {NoVersion} :
              (v # NoVersion => skills[n][v] # NoSkill) => NewAt(n, v) = At(n, v)
      BY <2>5, <3>1 DEF At
    <3>3. \A n \in SkillNames : OpenOf(n)' = OpenOf(n) \cup (IF n = m.name THEN {top} ELSE {})
      BY <2>4, <2>9 DEF OpenOf
    <3>4. \A n \in SkillNames : Active(n)' = IF n = m.name THEN s ELSE Active(n)
      BY <2>1, <2>5, <2>6, <3>2 DEF Active, At, RegistryInv, RegistryTypes, Named
    <3>5. ASSUME NEW n \in SkillNames, NEW i \in OpenOf(n)
          PROVE  /\ i \in DOMAIN handles /\ i < top /\ handles'[i] = handles[i]
                 /\ NewAt(n, handles[i].new) = At(n, handles[i].new)
                 /\ NewAt(n, handles[i].old) = At(n, handles[i].old)
      <4>1. i \in DOMAIN handles /\ handles[i].name = n
        BY DEF OpenOf
      <4>2. i < top /\ handles'[i] = handles[i] /\ handles[i] \in SwapHandles
        BY <2>4, <2>10, <4>1
      <4>3. /\ skills[n][handles[i].new] # NoSkill
            /\ handles[i].old # NoVersion => skills[n][handles[i].old] # NoSkill
        BY <4>1 DEF RegistryInv, Named
      <4>4. QED
        BY <3>2, <4>1, <4>2, <4>3 DEF SwapHandles, At
    <3>6. /\ NewAt(m.name, m.version) = s
          /\ At(m.name, active[m.name]) = Active(m.name)
          /\ NewAt(m.name, handles'[top].old) = Active(m.name)
          /\ handles'[top].new = m.version /\ handles'[top].was = Active(m.name)
      <4>1. NewAt(m.name, m.version) = s
        BY <2>1, <2>5 DEF At
      <4>2. NewAt(m.name, handles'[top].old) = Active(m.name)
        BY <2>1, <2>4, <2>9, <3>2 DEF RegistryInv, RegistryTypes, Named, At, Active
      <4>3. QED
        BY <2>4, <2>9, <4>1, <4>2 DEF Active
    <3>7. ASSUME NEW n \in SkillNames
          PROVE  \A i \in OpenOf(n)' : NewAt(n, handles'[i].old) = handles'[i].was
      BY <3>1, <3>3, <3>5, <3>6, <2>9 DEF RegistryInv, Chained
    <3>8. ASSUME NEW n \in SkillNames, NEW i \in OpenOf(n)', LastOpen(i, n)'
          PROVE  Active(n)' = NewAt(n, handles'[i].new)
      <4>1. CASE n = m.name
        <5>1. i = top
          BY <2>4, <3>3, <3>5, <3>8, <4>1 DEF LastOpen, OpenOf
        <5>2. QED
          BY <3>4, <3>6, <4>1, <5>1 DEF At
      <4>2. CASE n # m.name
        <5>1. i \in OpenOf(n) /\ LastOpen(i, n)
          BY <3>3, <3>8, <4>2 DEF LastOpen
        <5>2. QED
          BY <3>1, <3>4, <3>5, <4>2, <5>1 DEF RegistryInv, Chained, At
      <4>3. QED
        BY <4>1, <4>2
    <3>9. ASSUME NEW n \in SkillNames, NEW i \in OpenOf(n)', NEW j \in OpenOf(n)', NextOpen(i, j, n)'
          PROVE  handles'[j].was = NewAt(n, handles'[i].new)
      <4>1. i \in OpenOf(n)
        <5>1. i # top
          BY <2>4, <3>9 DEF NextOpen, OpenOf
        <5>2. QED
          BY <3>3, <5>1
      <4>2. CASE j \in OpenOf(n)
        <5>1. NextOpen(i, j, n)
          BY <3>3, <3>9, <4>1, <4>2 DEF NextOpen
        <5>2. QED
          BY <3>1, <3>5, <4>1, <4>2, <5>1 DEF RegistryInv, Chained, At
      <4>3. CASE j \notin OpenOf(n)
        <5>1. n = m.name /\ j = top
          BY <3>3, <4>3
        <5>2. LastOpen(i, n)
          BY <2>4, <3>3, <3>5, <3>9, <4>1, <5>1 DEF LastOpen, NextOpen, OpenOf
        <5>3. Active(n) = At(n, handles[i].new)
          BY <3>1, <4>1, <5>2 DEF RegistryInv, Chained
        <5>4. handles'[j].was = Active(n)
          BY <3>6, <5>1
        <5>5. NewAt(n, handles'[i].new) = At(n, handles[i].new)
          BY <3>5, <4>1
        <5>6. QED
          BY <5>3, <5>4, <5>5
      <4>4. QED
        BY <4>2, <4>3
    <3>10. QED
      BY <3>7, <3>8, <3>9 DEF Chained, At
  <2>13. QED
    BY <2>7, <2>8, <2>11, <2>12 DEF RegistryInv, Chained
<1>4. QED
  BY <1>2, <1>3

LEMMA RollbackKeeps ==
    ASSUME RegistryInv, NEW i \in DOMAIN handles, Rollback(i) PROVE RegistryInv'
<1> DEFINE h == handles[i]
<1>1. /\ h \in SwapHandles /\ handles \in Seq(SwapHandles)
      /\ h.name \in SkillNames /\ h.old \in SkillVersions /\ h.old # NoVersion
      /\ skills[h.name][h.old] # NoSkill
  <2>1. h \in SwapHandles /\ handles \in Seq(SwapHandles)
    BY DEF RegistryInv, RegistryTypes
  <2>2. QED
    BY <2>1 DEF Rollback, RolledBack, SwapHandles
<1>2. /\ skills' = skills /\ active' = [active EXCEPT ![h.name] = h.old]
      /\ handles' = [handles EXCEPT ![i].open = FALSE]
      /\ orderly' = (orderly /\ i \in OpenOf(h.name) /\ \A j \in OpenOf(h.name) : j <= i)
  BY DEF Rollback, RolledBack
<1>3. [h EXCEPT !.open = FALSE] \in SwapHandles
  BY <1>1 DEF SwapHandles
<1>4. /\ handles' \in Seq(SwapHandles) /\ DOMAIN handles' = DOMAIN handles
      /\ \A j \in DOMAIN handles : j # i => handles'[j] = handles[j]
      /\ handles'[i] = [h EXCEPT !.open = FALSE]
  BY <1>1, <1>2, <1>3
<1>5. \A j \in DOMAIN handles :
         /\ handles'[j].name = handles[j].name /\ handles'[j].old = handles[j].old
         /\ handles'[j].new = handles[j].new /\ handles'[j].was = handles[j].was
         /\ handles'[j].open = (handles[j].open /\ j # i)
  <2> TAKE j \in DOMAIN handles
  <2>1. handles[j] \in SwapHandles
    BY <1>1
  <2>2. QED
    BY <1>1, <1>4, <2>1 DEF SwapHandles
<1>6. \A n \in SkillNames : active'[n] = IF n = h.name THEN h.old ELSE active[n]
  BY <1>1, <1>2 DEF RegistryInv, RegistryTypes
<1>7. RegistryTypes'
  BY <1>1, <1>2, <1>4 DEF RegistryInv, RegistryTypes
<1>8. StoreIsNamed' /\ Named'
  BY <1>1, <1>2, <1>4, <1>5, <1>6 DEF RegistryInv, StoreIsNamed, Named
<1>9. ASSUME orderly' PROVE Chained'
  <2>1. orderly /\ LastOpen(i, h.name)
    BY <1>2, <1>9 DEF LastOpen
  <2>2. \A n \in SkillNames : OpenOf(n)' = OpenOf(n) \ {i}
    BY <1>4, <1>5 DEF OpenOf
  <2>3. \A n \in SkillNames : \A j \in OpenOf(n) : j \in DOMAIN handles /\ handles[j].name = n
    BY DEF OpenOf
  <2>4. OpenOf(h.name) \subseteq Nat
    BY <1>1 DEF OpenOf
  <2>5. \A n, v : At(n, v)' = At(n, v)
    BY <1>2 DEF At
  <2>6. \A n \in SkillNames : Active(n)' = IF n = h.name THEN h.was ELSE Active(n)
    BY <1>1, <1>2, <1>6, <2>1 DEF RegistryInv, Chained, LastOpen, Active, At
  <2>7. ASSUME NEW n \in SkillNames
        PROVE  \A j \in OpenOf(n)' : At(n, handles'[j].old) = handles'[j].was
    BY <1>5, <2>1, <2>2, <2>3 DEF RegistryInv, Chained
  <2>8. ASSUME NEW n \in SkillNames, NEW j \in OpenOf(n) \ {i}, LastOpen(j, n)'
        PROVE  Active(n)' = At(n, handles'[j].new)
    <3>1. CASE n = h.name
      <4>1. NextOpen(j, i, n)
        BY <2>1, <2>2, <2>4, <2>8, <3>1 DEF LastOpen, NextOpen
      <4>2. QED
        BY <1>5, <2>1, <2>3, <2>6, <3>1, <4>1 DEF RegistryInv, Chained, LastOpen
    <3>2. CASE n # h.name
      <4>1. LastOpen(j, n)
        BY <2>2, <2>3, <2>8, <3>2 DEF LastOpen
      <4>2. QED
        BY <1>5, <2>1, <2>3, <2>6, <3>2, <4>1 DEF RegistryInv, Chained
    <3>3. QED
      BY <3>1, <3>2
  <2>9. ASSUME NEW n \in SkillNames, NEW j \in OpenOf(n) \ {i}, NEW k \in OpenOf(n) \ {i},
               NextOpen(j, k, n)'
        PROVE  handles'[k].was = At(n, handles'[j].new)
    <3>1. NextOpen(j, k, n)
      BY <2>1, <2>2, <2>3, <2>4, <2>9 DEF LastOpen, NextOpen
    <3>2. QED
      BY <1>5, <2>1, <2>3, <3>1 DEF RegistryInv, Chained
  <2>10. QED
    BY <1>2, <2>2, <2>5, <2>7, <2>8, <2>9 DEF Chained, At
<1>10. QED
  BY <1>7, <1>8, <1>9 DEF RegistryInv, Chained

LEMMA RegistryInvStep == RegistryInv /\ [RegistryNext]_registryVars => RegistryInv'
<1> SUFFICES ASSUME RegistryInv, [RegistryNext]_registryVars PROVE RegistryInv'
  OBVIOUS
<1>1. CASE UNCHANGED registryVars
  BY <1>1 DEF registryVars, RegistryInv, RegistryTypes, StoreIsNamed, Named, Chained,
              LastOpen, NextOpen, OpenOf, Active, At
<1>2. QED
  BY <1>1, RegisterKeeps, HotswapKeeps, RollbackKeeps DEF RegistryNext

\* Whatever is registered, swapped and taken back, by any number of calls: what runs
\* is registered under the name and version it reports, and swaps of new versions
\* that are taken back newest first lead back to what ran before.
THEOREM SwapsLeaveNoTrace == RegistrySpec => []RegistryKeepsVersions
<1>1. RegistrySpec => []RegistryInv
  BY RegistryInvInit, RegistryInvStep, PTL DEF RegistrySpec
<1>2. QED
  BY <1>1, RegistryIsKept, PTL

-----------------------------------------------------------------------------
(* One run of a built-in skill, for any number of waypoints.               *)

SkillTools == {"reactive_grasp", "move_to_pose", "execute_action", "locomote_to", "move_joints"}
ToolCalls == [tool : SkillTools, verdict : {"awaited", "success", "failed", "raised"}]

RunTypes ==
    /\ subtask \in Subtasks
    /\ at \in {"called", "gate", "tool", "episode", "ended"}
    /\ completed \in 0..Steps
    /\ calls \in Seq(ToolCalls)
    /\ episode \in {"none", "success", "partial", "failure"}
    /\ told.outcome \in {"none", "success", "partial", "failure"}

\* The calls are the steps up to the first that was not confirmed.
CallsInOrder ==
    /\ Len(calls) \in {completed, completed + 1} /\ Len(calls) <= Steps
    /\ \A i \in DOMAIN calls :
          /\ calls[i].tool = subtask.skill.tools[i]
          /\ calls[i].verdict = "success" <=> i <= completed

\* Nothing is called before the parameters were found complete, and no answer is
\* given while the run goes on.
RunGoesOn ==
    /\ at \in {"gate", "tool", "episode"} \/ calls # <<>> => ParametersGiven
    /\ at # "ended" => told = Untold /\ episode = "none"
    /\ at = "called" => calls = <<>>
    /\ at = "gate" => Len(calls) = completed /\ completed < Steps
    /\ at = "tool" => Len(calls) = completed + 1
    /\ at = "episode" => calls # <<>> /\ ~Waypoints

\* What was told, in terms of the steps that were confirmed.
ToldByCount ==
    told # Untold =>
        /\ told.outcome = "success" <=> completed = Steps /\ calls # <<>>
        /\ \/ told.raised \/ ~Waypoints
           \/ /\ told.completed = completed
              /\ told.outcome = "partial" <=> completed \notin {0, Steps}
        /\ episode \in {told.outcome, "none"}

\* An episode is written when the last step has its verdict.
EpisodeIsLast ==
    at = "episode" => (calls[Len(calls)].verdict = "success" <=> completed = Steps)

RunInv == RunTypes /\ CallsInOrder /\ RunGoesOn /\ ToldByCount /\ EpisodeIsLast

\* The tools of a subtask: for the waypoints one call for each of them, none for the
\* others without tools.
LEMMA SubtaskTools ==
    ASSUME subtask \in Subtasks
    PROVE  /\ subtask.skill.tools \in Seq(SkillTools) /\ Steps \in Nat
           /\ subtask.params \in Seq({"joints", "malformed"})
           /\ ParametersGiven => Steps > 0
           /\ subtask.skill = PickSkill => Steps = 1 /\ ~Waypoints
           /\ Waypoints => DOMAIN subtask.params = 1..Steps
<1> USE DEF Steps, Waypoints, ParametersGiven, SkillTools
<1>1. CASE \E s \in {PickSkill, PlaceSkill, NavigateToSkill}, p \in {<<>>, <<"joints">>} :
              subtask = [skill |-> s, params |-> p]
  <2>1. PICK s \in {PickSkill, PlaceSkill, NavigateToSkill}, p \in {<<>>, <<"joints">>} :
            subtask = [skill |-> s, params |-> p]
    BY <1>1
  <2>2. p \in Seq({"joints", "malformed"})
    <3>1. <<>> \in Seq({"joints", "malformed"}) /\ <<"joints">> \in Seq({"joints", "malformed"})
      OBVIOUS
    <3>2. QED
      BY <3>1
  <2>3. /\ s.tools \in Seq(SkillTools) /\ Len(s.tools) > 0
        /\ s.name \in {"pick", "place", "navigate_to"}
    <3>1. CASE s = PickSkill
      <4>1. s.tools = <<"reactive_grasp">> /\ s.name \in {"pick", "place", "navigate_to"}
        BY <3>1 DEF PickSkill
      <4>2. <<"reactive_grasp">> \in Seq(SkillTools) /\ Len(<<"reactive_grasp">>) > 0
        OBVIOUS
      <4>3. QED
        BY <4>1, <4>2
    <3>2. CASE s = PlaceSkill
      <4>1. s.tools = <<"move_to_pose", "execute_action">> /\ s.name \in {"pick", "place", "navigate_to"}
        BY <3>2 DEF PlaceSkill
      <4>2. <<"move_to_pose", "execute_action">> \in Seq(SkillTools) 
              /\ Len(<<"move_to_pose", "execute_action">>) > 0
        OBVIOUS
      <4>3. QED
        BY <4>1, <4>2
    <3>3. CASE s = NavigateToSkill
      <4>1. s.tools = <<"locomote_to">> /\ s.name \in {"pick", "place", "navigate_to"}
        BY <3>3 DEF NavigateToSkill
      <4>2. <<"locomote_to">> \in Seq(SkillTools) /\ Len(<<"locomote_to">>) > 0
        OBVIOUS
      <4>3. QED
        BY <4>1, <4>2
    <3>4. QED
      BY <3>1, <3>2, <3>3
  <2>4. s = PickSkill => Len(s.tools) = 1
    BY DEF PickSkill
  <2>5. QED
    BY <2>1, <2>2, <2>3, <2>4
<1>2. CASE \E p \in Params : subtask = [skill |-> FollowJointWaypointsSkill(p), params |-> p]
  <2>1. PICK n \in 0..MaxPoints : \E p \in [1..n -> {"joints", "malformed"}] :
            subtask = [skill |-> FollowJointWaypointsSkill(p), params |-> p]
    BY <1>2 DEF Params
  <2> PICK p \in [1..n -> {"joints", "malformed"}] :
          subtask = [skill |-> FollowJointWaypointsSkill(p), params |-> p]
    BY <2>1
  <2>2. n \in Nat
    BY RunAssumption
  <2>3. p \in Seq({"joints", "malformed"}) /\ Len(p) = n
    BY <2>2
  <2>4. subtask.skill.tools = [i \in 1..n |-> "move_joints"]
    <3>1. subtask.skill.tools = [i \in DOMAIN p |-> "move_joints"]
      BY <2>1 DEF FollowJointWaypointsSkill
    <3>2. QED
      BY <3>1
  <2>5. subtask.skill.tools \in Seq(SkillTools) /\ Len(subtask.skill.tools) = n
    <3>1. subtask.skill.tools \in [1..n -> SkillTools]
      BY <2>4
    <3>2. subtask.skill.tools \in Seq(SkillTools)
      BY <2>2, <3>1, SeqDef
    <3>3. QED
      BY <2>2, <3>1, <3>2, LenProperties
  <2>6. subtask.params = p /\ subtask.skill.name = "follow_joint_waypoints"
    BY <2>1 DEF FollowJointWaypointsSkill
  <2>7. p # <<>> => n > 0
    BY <2>1, <2>2
  <2>8. QED
    BY <2>1, <2>2, <2>3, <2>5, <2>6, <2>7 DEF PickSkill
<1>3. QED
  BY <1>1, <1>2 DEF Subtasks

LEMMA RunIsSafe == RunInv => SkillStepsAreSafe
<1> SUFFICES ASSUME RunInv PROVE SkillStepsAreSafe
  OBVIOUS
<1>1. /\ subtask \in Subtasks /\ Steps \in Nat /\ completed \in Nat
      /\ DOMAIN calls = 1..Len(calls) /\ Len(calls) \in Nat
  BY SubtaskTools DEF RunInv, RunTypes
<1>2. TypeOKRun
  BY <1>1 DEF RunInv, RunTypes, RunGoesOn, CallsInOrder, TypeOKRun
<1>3. MalformedMovesNothing
  BY DEF RunInv, RunGoesOn, ParametersGiven, MalformedMovesNothing
<1>4. HaltsInPlace
  BY <1>1 DEF RunInv, CallsInOrder, HaltsInPlace
<1>5. Confirmed = 1..completed
  <2>1. completed <= Len(calls)
    <3>1. Len(calls) = completed \/ Len(calls) = completed + 1
      BY DEF RunInv, CallsInOrder
    <3>2. Len(calls) \in Nat /\ completed \in Nat
      BY <1>1
    <3>3. QED
      BY <3>1, <3>2
  <2>2. ASSUME NEW i \in 1..Len(calls) PROVE i \in Confirmed <=> i \in 1..completed
    <3>1. calls[i].verdict = "success" <=> i <= completed
      BY <1>1, <2>2 DEF RunInv, CallsInOrder
    <3>2. i \in 1..completed <=> i <= completed
      BY <1>1
    <3>3. QED
      BY <1>1, <3>1, <3>2 DEF Confirmed
  <2>3. Confirmed \subseteq 1..Len(calls) /\ 1..completed \subseteq 1..Len(calls)
    BY <1>1, <2>1 DEF Confirmed
  <2>4. QED
    BY <2>2, <2>3
<1>6. Cardinality(Confirmed) = completed
  BY <1>1, <1>5, FS_Interval
<1>7. Confirmed = 1..Steps <=> completed = Steps
  BY <1>1, <1>5
<1>8. Confirmed = {} <=> completed = 0
  BY <1>1, <1>5
<1>9. TellsWhatHappened
  BY <1>6, <1>7, <1>8 DEF RunInv, ToldByCount, TellsWhatHappened
<1>10. QED
  BY <1>2, <1>3, <1>4, <1>9 DEF SkillStepsAreSafe

LEMMA RunInvInit == RunInit => RunInv
<1> SUFFICES ASSUME RunInit PROVE RunInv
  OBVIOUS
<1>1. Steps \in Nat
  BY SubtaskTools DEF RunInit
<1>2. QED
  BY <1>1 DEF RunInit, RunInv, RunTypes, CallsInOrder, RunGoesOn, ToldByCount, EpisodeIsLast,
              Untold

\* The facts about a run that every step starts from.
LEMMA RunFacts ==
    ASSUME RunInv
    PROVE  /\ subtask \in Subtasks /\ Steps \in Nat /\ completed \in Nat /\ completed <= Steps
           /\ DOMAIN calls = 1..Len(calls) /\ Len(calls) \in Nat
           /\ \A i \in 1..Steps : subtask.skill.tools[i] \in SkillTools
           /\ ParametersGiven => Steps > 0
           /\ subtask.skill = PickSkill => Steps = 1 /\ ~Waypoints
<1>1. subtask \in Subtasks /\ completed \in 0..Steps /\ calls \in Seq(ToolCalls)
  BY DEF RunInv, RunTypes
<1>2. QED
  BY <1>1, SubtaskTools DEF Steps

\* An answer is written into the newest call.
LEMMA AnsweredKeeps ==
    ASSUME RunInv, at = "tool", NEW v \in {"success", "failed", "raised"}, Answered(v)
    PROVE  /\ calls' \in Seq(ToolCalls) /\ Len(calls') = Len(calls)
           /\ DOMAIN calls' = DOMAIN calls
           /\ \A i \in DOMAIN calls : calls'[i].tool = calls[i].tool
           /\ \A i \in DOMAIN calls : i <= completed => calls'[i].verdict = calls[i].verdict
           /\ calls'[Len(calls)].verdict = v
           /\ Len(calls) = completed + 1 /\ Len(calls) \in DOMAIN calls
<1> DEFINE n == Len(calls)
<1>1. calls \in Seq(ToolCalls) /\ n = completed + 1 /\ n \in DOMAIN calls
  BY RunFacts DEF RunInv, RunTypes, RunGoesOn
<1>2. calls[n] \in ToolCalls
  BY <1>1
<1>3. /\ [calls[n] EXCEPT !.verdict = v] \in ToolCalls
      /\ [calls[n] EXCEPT !.verdict = v].tool = calls[n].tool
      /\ [calls[n] EXCEPT !.verdict = v].verdict = v
  BY <1>2 DEF ToolCalls
<1>4. calls' = [calls EXCEPT ![n] = [calls[n] EXCEPT !.verdict = v]]
  BY DEF Answered
<1> HIDE DEF n
<1>5. /\ calls' \in Seq(ToolCalls) /\ Len(calls') = Len(calls) /\ DOMAIN calls' = DOMAIN calls
      /\ \A i \in DOMAIN calls : i # n => calls'[i] = calls[i]
      /\ calls'[n] = [calls[n] EXCEPT !.verdict = v]
  BY <1>1, <1>3, <1>4
<1>6. n > completed /\ n = Len(calls)
  BY <1>1, RunFacts DEF n
<1>7. \A i \in DOMAIN calls : calls'[i].tool = calls[i].tool
  BY <1>3, <1>5
<1>8. \A i \in DOMAIN calls : i <= completed => i # n
  BY <1>1, <1>6, RunFacts
<1>9. \A i \in DOMAIN calls : i <= completed => calls'[i].verdict = calls[i].verdict
  BY <1>5, <1>8
<1>10. QED
  BY <1>1, <1>3, <1>5, <1>6, <1>7, <1>9

LEMMA RunInvStep == RunInv /\ [RunNext]_runVars => RunInv'
<1> SUFFICES ASSUME RunInv, [RunNext]_runVars PROVE RunInv'
  OBVIOUS
<1>f. /\ subtask \in Subtasks /\ Steps \in Nat /\ completed \in Nat /\ completed <= Steps
      /\ DOMAIN calls = 1..Len(calls) /\ Len(calls) \in Nat
      /\ \A i \in 1..Steps : subtask.skill.tools[i] \in SkillTools
      /\ ParametersGiven => Steps > 0
      /\ subtask.skill = PickSkill => Steps = 1 /\ ~Waypoints
  BY RunFacts
<1> USE DEF Steps, Waypoints, ParametersGiven, Untold
<1>1. CASE RunStart
  <2>1. calls = <<>> /\ completed = 0 /\ told = Untold /\ episode = "none"
    <3>1. calls = <<>> /\ told = Untold /\ episode = "none"
      BY <1>1 DEF RunStart, RunInv, RunGoesOn
    <3>2. Len(calls) = 0
      BY <3>1
    <3>3. Len(calls) \in {completed, completed + 1}
      BY DEF RunInv, CallsInOrder
    <3>4. QED
      BY <1>f, <3>1, <3>2, <3>3
  <2>2. CASE ParametersGiven
    BY <1>f, <1>1, <2>1, <2>2 DEF RunStart, RunInv, RunTypes, CallsInOrder, RunGoesOn,
                                  ToldByCount, EpisodeIsLast
  <2>3. CASE ~ParametersGiven
    <3>1. /\ at' = "ended" /\ UNCHANGED <<subtask, completed, episode, calls>>
          /\ told' = [outcome |-> "failure", completed |-> 0, raised |-> FALSE]
      BY <1>1, <2>1, <2>3 DEF RunStart, Result, Outcome
    <3>2. RunTypes' /\ CallsInOrder' /\ RunGoesOn' /\ EpisodeIsLast'
      BY <2>1, <3>1 DEF RunInv, RunTypes, CallsInOrder, RunGoesOn, EpisodeIsLast
    <3>3. ToldByCount'
      BY <1>f, <2>1, <3>1 DEF ToldByCount
    <3>4. QED
      BY <3>2, <3>3 DEF RunInv
  <2>4. QED
    BY <2>2, <2>3
<1>2. CASE RunGate
  <2>1. [tool |-> Tool, verdict |-> "awaited"] \in ToolCalls
    BY <1>f, <1>2 DEF RunGate, RunInv, RunGoesOn, Tool, ToolCalls
  <2>2. /\ calls' \in Seq(ToolCalls) /\ Len(calls') = Len(calls) + 1
        /\ DOMAIN calls' = 1..Len(calls) + 1
        /\ \A i \in DOMAIN calls : calls'[i] = calls[i]
        /\ calls'[Len(calls) + 1] = [tool |-> Tool, verdict |-> "awaited"]
    BY <1>2, <2>1 DEF RunGate, RunInv, RunTypes
  <2>3. Len(calls) = completed /\ completed < Steps /\ ParametersGiven
    BY <1>2 DEF RunGate, RunInv, RunGoesOn
  <2>4. CallsInOrder'
    BY <1>f, <1>2, <2>2, <2>3 DEF RunGate, RunInv, CallsInOrder, Tool
  <2>5. QED
    BY <1>f, <1>2, <2>2, <2>3, <2>4 DEF RunGate, RunInv, RunTypes, RunGoesOn, ToldByCount,
                                    EpisodeIsLast
<1>3. CASE RunRefused
  BY <1>f, <1>3 DEF RunRefused, RunInv, RunTypes, CallsInOrder, RunGoesOn, ToldByCount,
                    EpisodeIsLast
<1>4. CASE RunEpisode
  BY <1>f, <1>4 DEF RunEpisode, Result, Outcome, RunInv, RunTypes, CallsInOrder, RunGoesOn,
                    ToldByCount, EpisodeIsLast
<1>5. CASE RunRaise
  <2>1. CASE at = "gate"
    BY <1>f, <1>5, <2>1 DEF RunRaise, RunInv, RunTypes, CallsInOrder, RunGoesOn, ToldByCount,
                            EpisodeIsLast
  <2>2. CASE at = "tool"
    <3>1. /\ Answered("raised") /\ at' = "ended"
          /\ told' = [outcome |-> "failure", completed |-> 0, raised |-> TRUE]
          /\ UNCHANGED <<subtask, completed, episode>>
      BY <1>5, <2>2 DEF RunRaise
    <3>2. /\ calls' \in Seq(ToolCalls) /\ Len(calls') = Len(calls)
          /\ DOMAIN calls' = DOMAIN calls
          /\ \A i \in DOMAIN calls : calls'[i].tool = calls[i].tool
          /\ \A i \in DOMAIN calls : i <= completed => calls'[i].verdict = calls[i].verdict
          /\ calls'[Len(calls)].verdict = "raised"
          /\ Len(calls) = completed + 1 /\ Len(calls) \in DOMAIN calls
      BY <2>2, <3>1, AnsweredKeeps
    <3>3. episode = "none" /\ ParametersGiven /\ Len(calls) <= Steps
      BY <2>2 DEF RunInv, RunGoesOn, CallsInOrder
    <3>4. CallsInOrder'
      BY <1>f, <3>1, <3>2, <3>3 DEF RunInv, CallsInOrder
    <3>5. RunTypes' /\ RunGoesOn' /\ EpisodeIsLast'
      BY <1>f, <3>1, <3>2, <3>3 DEF RunInv, RunTypes, RunGoesOn, EpisodeIsLast
    <3>6. ToldByCount'
      BY <1>f, <3>1, <3>2, <3>3 DEF ToldByCount
    <3>7. QED
      BY <3>4, <3>5, <3>6 DEF RunInv
  <2>3. QED
    BY <1>5, <2>1, <2>2 DEF RunRaise
<1>6. CASE RunCancelled
  BY <1>f, <1>6 DEF RunCancelled, RunInv, RunTypes, CallsInOrder, RunGoesOn, ToldByCount,
                    EpisodeIsLast
<1>7. ASSUME NEW v \in {"success", "failed"}, RunAnswer(v) PROVE RunInv'
  <2>1. at = "tool" /\ Answered(v) /\ completed' = Count(v) /\ UNCHANGED <<subtask, episode>>
    BY <1>7 DEF RunAnswer
  <2>2. /\ calls' \in Seq(ToolCalls) /\ Len(calls') = Len(calls)
        /\ DOMAIN calls' = DOMAIN calls
        /\ \A i \in DOMAIN calls : calls'[i].tool = calls[i].tool
        /\ \A i \in DOMAIN calls : i <= completed => calls'[i].verdict = calls[i].verdict
        /\ calls'[Len(calls)].verdict = v
        /\ Len(calls) = completed + 1 /\ Len(calls) \in DOMAIN calls
    BY <2>1, AnsweredKeeps
  <2>3. /\ told = Untold /\ episode = "none" /\ ParametersGiven /\ calls' # <<>>
        /\ Len(calls) <= Steps
    BY <2>1, <2>2, <1>f DEF RunInv, RunGoesOn, CallsInOrder
  <2>4. completed' = IF v = "success" THEN completed + 1 ELSE completed
    BY <1>f, <2>1 DEF Count
  <2>5. CallsInOrder'
    BY <1>f, <2>1, <2>2, <2>3, <2>4 DEF RunInv, CallsInOrder
  <2>6. CASE GoesOn(v)
    BY <1>7, <1>f, <2>1, <2>2, <2>3, <2>4, <2>5, <2>6
       DEF RunAnswer, GoesOn, Count, RunInv, RunTypes, RunGoesOn, ToldByCount, EpisodeIsLast
  <2>7. CASE ~GoesOn(v) /\ subtask.skill = PickSkill
    BY <1>7, <1>f, <2>1, <2>2, <2>3, <2>4, <2>5, <2>7
       DEF RunAnswer, GoesOn, Count, RunInv, RunTypes, RunGoesOn, ToldByCount, EpisodeIsLast
  <2>8. CASE ~GoesOn(v) /\ subtask.skill # PickSkill
    BY <1>7, <1>f, <2>1, <2>2, <2>3, <2>4, <2>5, <2>8
       DEF RunAnswer, GoesOn, Count, Result, Outcome, RunInv, RunTypes, RunGoesOn, ToldByCount,
           EpisodeIsLast
  <2>9. QED
    BY <2>6, <2>7, <2>8
<1>8. CASE UNCHANGED runVars
  <2>1. RunTypes' /\ CallsInOrder'
    BY <1>f, <1>8 DEF runVars, RunInv, RunTypes, CallsInOrder
  <2>2. RunGoesOn' /\ ToldByCount' /\ EpisodeIsLast'
    BY <1>f, <1>8 DEF runVars, RunInv, RunGoesOn, ToldByCount, EpisodeIsLast
  <2>3. QED
    BY <2>1, <2>2 DEF RunInv
<1>9. QED
  BY <1>1, <1>2, <1>3, <1>4, <1>5, <1>6, <1>7, <1>8 DEF RunNext

\* Whatever is asked of a built-in skill and however its tools answer, refuse or raise:
\* it acts on complete parameters alone, step after confirmed step, and what the brain
\* is told of it is how far the robot came.
THEOREM SkillsHaltInPlace == RunSpec => []SkillStepsAreSafe
<1>1. RunSpec => []RunInv
  BY RunInvInit, RunInvStep, PTL DEF RunSpec
<1>2. QED
  BY <1>1, RunIsSafe, PTL

-----------------------------------------------------------------------------
(* One call of a tool, for any fleet, any numbers, any taught motions and  *)
(* any configuration of the envelope.                                      *)

SafetyCommands == [kind : Kinds, values : Seq(Values)]

ToolRequests == UNION {Asked(t) : t \in Tools}

\* What a request is made of, as far as its commands depend on it.
LEMMA RequestParts ==
    ASSUME NEW q \in ToolRequests
    PROVE  /\ q.tool \in Tools /\ q.robot \in RobotIds
           /\ q.tool = RunTaughtMotion => q.motion \in MotionNames
           /\ q.tool \notin {RunTaughtMotion, Home} => q.numbers \in Numbers
           /\ q.kind \in Kinds \/ q.tool = Home
           /\ q.tool # ExecuteAction => q.kind = q.tool.kind
<1>1. PICK t \in Tools : q \in Asked(t)
  BY DEF ToolRequests
<1>2. t.kind \in Kinds \cup {"any", "none"} /\ (t.kind = "none" => t = Home)
      /\ (t.kind = "any" <=> t = ExecuteAction)
  BY DEF Tools, ReactiveGrasp, VisualServoTo, MoveToPose, MoveJoints, RunTaughtMotion,
         LocomoteTo, Home, ExecuteAction, Kinds, RuleKinds
<1>3. (t.checked = "motion" <=> t = RunTaughtMotion) /\ (t.checked = "none" <=> t = Home)
  BY DEF Tools, ReactiveGrasp, VisualServoTo, MoveToPose, MoveJoints, RunTaughtMotion,
         LocomoteTo, Home, ExecuteAction
<1>4. /\ q.tool = t /\ q.robot \in RobotIds
      /\ t.checked = "motion" => q.motion \in MotionNames
      /\ t.checked \notin {"motion", "none"} => q.numbers \in Numbers
      /\ q.kind \in IF t.kind = "any" THEN Kinds ELSE {t.kind}
  BY <1>1 DEF Asked
<1>5. QED
  BY <1>2, <1>3, <1>4

\* Whatever is asked, what the envelope looks at is a list of targets.
LEMMA CommandsAreTyped ==
    ASSUME NEW q \in ToolRequests
    PROVE  Commands(q) \in Seq(SafetyCommands)
<1>1. /\ q.tool \in Tools /\ q.robot \in RobotIds
      /\ q.tool = RunTaughtMotion => q.motion \in MotionNames
      /\ q.tool \notin {RunTaughtMotion, Home} => q.numbers \in Numbers
      /\ q.kind \in Kinds \/ q.tool = Home
      /\ q.tool # ExecuteAction => q.kind = q.tool.kind
  BY RequestParts
<1>2. <<>> \in Seq(SafetyCommands) /\ <<>> \in Seq(Values) /\ Numbers \subseteq Seq(Values)
  BY CallAssumption
<1>3. ASSUME NEW k \in Kinds, NEW v \in Seq(Values)
      PROVE  <<Command(k, v)>> \in Seq(SafetyCommands)
  <2>1. Command(k, v) \in SafetyCommands
    BY DEF Command, SafetyCommands
  <2>2. QED
    BY <2>1
<1>4. RunTaughtMotion # ExecuteAction /\ RunTaughtMotion # Home /\ ExecuteAction # Home
  <2>1. RunTaughtMotion.checked = "motion" /\ ExecuteAction.checked = "values" /\ Home.checked = "none"
    BY DEF RunTaughtMotion, ExecuteAction, Home
  <2>2. QED
    BY <2>1
<1>5. CASE q.tool = RunTaughtMotion
  <2>1. CASE ~Has(q)
    BY <1>2, <1>4, <1>5, <2>1 DEF Commands
  <2>2. CASE Has(q)
    <3> DEFINE points == MotionsOf[Robot(q)][q.motion]
    <3>1. Robot(q) \in RobotIds
      BY <1>1, CallAssumption DEF Robot
    <3>2. points \in Seq(Numbers)
      BY <1>1, <1>5, <3>1, CallAssumption
    <3>3. Commands(q) = [i \in DOMAIN points |-> Command("joint", points[i])]
      BY <1>4, <1>5, <2>2 DEF Commands
    <3>4. \A i \in DOMAIN points : Command("joint", points[i]) \in SafetyCommands
      BY <1>2, <3>2 DEF Command, SafetyCommands, Kinds, RuleKinds
    <3>5. DOMAIN points = 1..Len(points) /\ Len(points) \in Nat
      BY <3>2
    <3> HIDE DEF points
    <3>6. Commands(q) \in [1..Len(points) -> SafetyCommands]
      BY <3>3, <3>4, <3>5
    <3>7. QED
      BY <3>5, <3>6, SeqDef
  <2>3. QED
    BY <2>1, <2>2
<1>6. CASE q.tool = ExecuteAction
  BY <1>1, <1>2, <1>3, <1>4, <1>6 DEF Commands, Kinds, RuleKinds
<1>7. CASE q.tool = Home
  BY <1>2, <1>4, <1>7 DEF Commands
<1>8. CASE q.tool \notin {RunTaughtMotion, ExecuteAction, Home}
  BY <1>1, <1>2, <1>3, <1>8 DEF Commands
<1>9. QED
  BY <1>5, <1>6, <1>7, <1>8

\* A target whose rule is configured has no number outside it, but for the numbers
\* the rule does not look at.
Harmless(cmd) ==
    cmd.kind \in setup.cfg.rules =>
        \A j \in DOMAIN cmd.values : cmd.values[j] = "out" =>
            \/ j > 3 /\ cmd.kind = "cartesian"
            \/ j > 2 /\ cmd.kind = "locomotion"

LEMMA RulesFindBreaches ==
    ASSUME setup \in [fleet : Fleets, cfg : Configs], NEW cmd \in SafetyCommands
    PROVE  /\ FrameworkRule(cmd) # "violated" => Harmless(cmd)
           /\ FrameworkRule(cmd) \notin {"violated", "unchecked"} => cmd.kind \in setup.cfg.rules
<1> DEFINE values == cmd.values
<1>1. values \in Seq(Values) /\ DOMAIN values = 1..Len(values) /\ Len(values) \in Nat
  BY DEF SafetyCommands
<1>2. setup.cfg.rules \subseteq RuleKinds
  BY CallAssumption
<1>3. CASE cmd.kind \notin setup.cfg.rules
  <2>1. Harmless(cmd)
    BY <1>3 DEF Harmless
  <2>2. FrameworkRule(cmd) \in {"violated", "unchecked"}
    BY <1>2, <1>3 DEF FrameworkRule, RuleKinds
  <2>3. QED
    BY <2>1, <2>2
<1>4. CASE cmd.kind \in setup.cfg.rules
  <2> SUFFICES ASSUME FrameworkRule(cmd) # "violated", NEW j \in DOMAIN values, values[j] = "out"
               PROVE  \/ j > 3 /\ cmd.kind = "cartesian"
                      \/ j > 2 /\ cmd.kind = "locomotion"
    BY <1>4 DEF Harmless
  <2>1. CASE cmd.kind = "joint"
    <3>1. JointRule(values) # "violated"
      BY <1>4, <2>1 DEF FrameworkRule
    <3>2. j <= Joints
      BY <1>1, <3>1, CallAssumption DEF JointRule, Rated
    <3>3. QED
      BY <3>1, <3>2 DEF JointRule, Rated
  <2>2. CASE cmd.kind = "delta"
    <3>1. DeltaRule(values) # "violated"
      BY <1>4, <2>2 DEF FrameworkRule
    <3>2. QED
      BY <3>1 DEF DeltaRule, Rated
  <2>3. CASE cmd.kind = "cartesian"
    <3>1. CartesianRule(values) # "violated"
      BY <1>4, <2>3 DEF FrameworkRule
    <3>2. j \notin 1..3
      BY <3>1 DEF CartesianRule, Rated
    <3>3. QED
      BY <1>1, <2>3, <3>2
  <2>4. CASE cmd.kind = "locomotion"
    <3>1. GeofenceRule(values) # "violated"
      BY <1>4, <2>4 DEF FrameworkRule
    <3>2. j \notin 1..2
      BY <3>1 DEF GeofenceRule, Rated
    <3>3. QED
      BY <1>1, <2>4, <3>2
  <2>5. QED
    BY <1>2, <1>4, <2>1, <2>2, <2>3, <2>4 DEF RuleKinds
<1>5. QED
  BY <1>3, <1>4

CallTypes ==
    /\ setup \in [fleet : Fleets, cfg : Configs]
    /\ phase \in {"idle", "asked", "checking", "asking", "cleared"} \cup Ends
    /\ phase # "idle" => request \in ToolRequests
    /\ audit \in Seq({"passed", "violated", "skipped"})
    /\ moved \in {"no", "success", "partial", "failed", "malformed"}

\* The first n commands of the call were looked at, and none was found wrong.
CheckedTo(n) ==
    setup.cfg.enabled =>
        /\ \A i \in 1..n : Harmless(Commands(request)[i])
        /\ Robot(request) \in setup.fleet => approved = 1..n
        /\ Commands(request) # <<>> => Len(audit) = n

\* How far the checks have come, by where the call is.
ChecksInv ==
    /\ phase \in {"checking", "asking"} =>
          next \in 1..Len(Commands(request)) /\ CheckedTo(next - 1)
    /\ phase = "asking" =>
          /\ setup.cfg.enabled /\ Robot(request) \in setup.fleet
          /\ Harmless(Commands(request)[next])
    /\ phase \in {"cleared", "success"} \/ moved # "no" =>
          /\ CheckedTo(Len(Commands(request)))
          /\ Commands(request) = <<>> => Len(audit) = 1

\* What is logged as passed was looked at.
PassedInv ==
    /\ phase \in {"idle", "asked"} => audit = <<>>
    /\ \A i \in DOMAIN audit : audit[i] = "passed" =>
          \/ i \in approved
          \/ Commands(request)[i].kind \in setup.cfg.rules

\* A robot has moved only once the call has ended, and success is its word.
MovedInv ==
    /\ moved # "no" => phase \in {"success", "failed"} /\ Robot(request) \in setup.fleet
    /\ phase = "success" /\ setup.fleet # {} => moved = "success"
    /\ phase \in {"idle", "asked"} => approved = {}

CallInv == CallTypes /\ ChecksInv /\ PassedInv /\ MovedInv

LEMMA CallIsSafe == CallInv => CallsAreSafe
<1> SUFFICES ASSUME CallInv PROVE CallsAreSafe
  OBVIOUS
<1>1. phase # "idle" => /\ DOMAIN Commands(request) = 1..Len(Commands(request))
                        /\ Len(Commands(request)) \in Nat
                        /\ Commands(request) = <<>> <=> Len(Commands(request)) = 0
  BY CommandsAreTyped DEF CallInv, CallTypes
<1>2. TypeOKCall
  BY <1>1 DEF CallInv, CallTypes, ChecksInv, TypeOKCall
<1>3. NoBreachMoves
  BY <1>1 DEF CallInv, ChecksInv, MovedInv, CheckedTo, Harmless, NoBreachMoves
<1>4. WholeCallApproved
  BY <1>1 DEF CallInv, ChecksInv, MovedInv, CheckedTo, WholeCallApproved
<1>5. AuditTells
  <2>1. phase \in {"cleared", "success"} \/ moved # "no" =>
           Len(audit) >= IF Commands(request) = <<>> THEN 1
                         ELSE IF setup.cfg.enabled THEN Len(Commands(request)) ELSE 0
    <3>1. SUFFICES ASSUME phase \in {"cleared", "success"} \/ moved # "no"
                   PROVE  Len(audit) >= IF Commands(request) = <<>> THEN 1
                              ELSE IF setup.cfg.enabled THEN Len(Commands(request)) ELSE 0
      OBVIOUS
    <3>2. /\ Commands(request) = <<>> => Len(audit) = 1
          /\ Commands(request) # <<>> /\ setup.cfg.enabled
                => Len(audit) = Len(Commands(request))
      BY <3>1 DEF CallInv, ChecksInv, CheckedTo
    <3>3. Len(audit) \in Nat /\ phase # "idle"
      BY <3>1 DEF CallInv, CallTypes, MovedInv
    <3>4. QED
      BY <1>1, <3>2, <3>3
  <2>2. QED
    BY <2>1 DEF CallInv, PassedInv, AuditTells
<1>6. SuccessIsReal
  BY DEF CallInv, MovedInv, SuccessIsReal
<1>7. QED
  BY <1>2, <1>3, <1>4, <1>5, <1>6 DEF CallsAreSafe

LEMMA CallInvInit == CallInit => CallInv
<1> SUFFICES ASSUME CallInit PROVE CallInv
  OBVIOUS
<1>1. audit = <<>> /\ <<>> \in Seq({"passed", "violated", "skipped"})
  BY DEF CallInit
<1>2. QED
  BY <1>1 DEF CallInit, CallInv, CallTypes, Ends, ChecksInv, PassedInv, MovedInv

\* The step from one command to the next, or past the last.
LEMMA OnwardKeeps ==
    ASSUME CallInv, phase \in {"checking", "asking"}, Onward,
           UNCHANGED <<setup, request, moved>>,
           audit' \in Seq({"passed", "violated", "skipped"}),
           NEW k, k = next, CheckedTo(k)',
           approved' = approved \/ approved' = approved \cup {next},
           \/ audit' = audit
           \/ \E out \in {"passed", "skipped"} :
                 /\ audit' = Append(audit, out)
                 /\ out = "passed" => \/ Len(audit) + 1 \in approved'
                                     \/ Commands(request)[Len(audit) + 1].kind \in setup.cfg.rules
    PROVE  CallInv'
<1> DEFINE n == Len(Commands(request))
<1>1. /\ next \in 1..n /\ n \in Nat /\ moved = "no" /\ Commands(request) # <<>>
  BY CommandsAreTyped DEF CallInv, CallTypes, ChecksInv, MovedInv
<1>2. /\ phase' \in {"checking", "cleared"} /\ n' = n
      /\ phase' = "checking" => next' = next + 1 /\ next < n
      /\ phase' = "cleared" => next = n
  BY <1>1 DEF Onward
<1> HIDE DEF n
<1>3. CallTypes'
  BY <1>2 DEF CallInv, CallTypes
<1>4. MovedInv'
  BY <1>1, <1>2 DEF CallInv, MovedInv
<1>5. PassedInv'
  BY <1>2, SMTT(30) DEF CallInv, CallTypes, PassedInv
<1>6. ChecksInv'
  <2>1. CASE phase' = "checking"
    <3>1. next' \in 1..n /\ next' - 1 = k
      BY <1>1, <1>2, <2>1
    <3>2. CheckedTo(next - 1)'
      BY <3>1 DEF CheckedTo
    <3>3. QED
      BY <1>1, <1>2, <2>1, <3>1, <3>2 DEF ChecksInv, n
  <2>2. CASE phase' = "cleared"
    <3>1. CheckedTo(n)'
      <4>1. n' = k
        BY <1>2, <2>2
      <4>2. QED
        BY <4>1 DEF CheckedTo
    <3>2. QED
      BY <1>1, <1>2, <2>2, <3>1 DEF ChecksInv, n
  <2>3. QED
    BY <1>2, <2>1, <2>2
<1>7. QED
  BY <1>3, <1>4, <1>5, <1>6 DEF CallInv

LEMMA CallBuildKeeps == CallInv /\ CallBuild => CallInv'
<1> SUFFICES ASSUME CallInv, CallBuild PROVE CallInv'
  OBVIOUS
<1>1. /\ phase = "asked" /\ audit = <<>> /\ approved = {} /\ moved = "no"
      /\ UNCHANGED <<setup, request, approved, moved>>
  BY DEF CallBuild, CallInv, PassedInv, MovedInv
<1>2. /\ Commands(request) \in Seq(SafetyCommands) /\ Commands(request)' = Commands(request)
      /\ Robot(request)' = Robot(request)
  BY <1>1, CommandsAreTyped DEF CallInv, CallTypes
<1>3. CASE Commands(request) = <<>>
  <2>1. phase' = "cleared" /\ audit' = Append(audit, "skipped")
    BY <1>3 DEF CallBuild, NothingToCheck
  <2>2. /\ audit' \in Seq({"passed", "violated", "skipped"}) /\ Len(audit') = 1
        /\ DOMAIN audit' = {1} /\ audit'[1] = "skipped"
    BY <1>1, <2>1 DEF CallInv, CallTypes
  <2>3. Len(Commands(request)) = 0
    BY <1>3
  <2>4. CheckedTo(0)'
    BY <1>1, <1>2, <1>3 DEF CheckedTo
  <2>5. ChecksInv'
    BY <1>1, <1>2, <2>1, <2>2, <2>3, <2>4 DEF ChecksInv
  <2>6. QED
    BY <1>1, <2>1, <2>2, <2>5 DEF CallInv, CallTypes, PassedInv, MovedInv
<1>4. CASE Commands(request) # <<>>
  <2>1. phase' = "checking" /\ next' = 1 /\ UNCHANGED audit
    BY <1>4 DEF CallBuild
  <2>2. Len(Commands(request)) \in Nat \ {0}
    BY <1>2, <1>4
  <2>3. CheckedTo(0)'
    BY <1>1, <1>2, <2>1 DEF CheckedTo
  <2>4. ChecksInv'
    BY <1>1, <1>2, <2>1, <2>2, <2>3 DEF ChecksInv, CheckedTo
  <2>5. QED
    BY <1>1, <2>1, <2>4 DEF CallInv, CallTypes, PassedInv, MovedInv
<1>5. QED
  BY <1>3, <1>4

\* A call that ends without a robot's word.
LEMMA EndKeeps ==
    ASSUME CallInv, phase \notin {"idle", "success"}, phase' \in {"failed", "violation", "raised"},
           UNCHANGED <<setup, request, approved, moved>>, moved = "no",
           \/ audit' = audit
           \/ audit' \in {Append(audit, "violated"), Append(audit, "skipped")}
    PROVE  CallInv'
<1>1. audit' \in Seq({"passed", "violated", "skipped"})
  BY DEF CallInv, CallTypes
<1>2. PassedInv'
  BY SMTT(30) DEF CallInv, CallTypes, PassedInv
<1>3. ChecksInv' /\ MovedInv'
  BY DEF CallInv, ChecksInv, MovedInv
<1>4. QED
  BY <1>1, <1>2, <1>3 DEF CallInv, CallTypes, Ends

LEMMA CallCheckKeeps == CallInv /\ CallCheck => CallInv'
<1> SUFFICES ASSUME CallInv, CallCheck PROVE CallInv'
  OBVIOUS
<1> DEFINE cmd == Commands(request)[next]
           rated == FrameworkRule(cmd)
<1>1. /\ phase = "checking" /\ moved = "no" /\ UNCHANGED <<setup, request, approved, moved>>
      /\ next \in 1..Len(Commands(request)) /\ CheckedTo(next - 1)
      /\ setup \in [fleet : Fleets, cfg : Configs]
      /\ audit \in Seq({"passed", "violated", "skipped"})
  BY DEF CallCheck, CallInv, CallTypes, ChecksInv, MovedInv
<1>2. /\ Commands(request) \in Seq(SafetyCommands) /\ cmd \in SafetyCommands
      /\ Commands(request) # <<>> /\ next \in Nat \ {0}
  <2>1. Commands(request) \in Seq(SafetyCommands)
    BY <1>1, CommandsAreTyped DEF CallInv, CallTypes
  <2>2. QED
    BY <1>1, <2>1
<1>3. /\ rated # "violated" => Harmless(cmd)
      /\ rated \notin {"violated", "unchecked"} => cmd.kind \in setup.cfg.rules
  BY <1>1, <1>2, RulesFindBreaches
<1>4. /\ Commands(request)' = Commands(request) /\ Robot(request)' = Robot(request)
      /\ \A c : Harmless(c)' = Harmless(c)
  BY <1>1 DEF Harmless
<1>5. CASE ~setup.cfg.enabled
  <2>1. Onward /\ UNCHANGED audit
    BY <1>5 DEF CallCheck
  <2>2. \A k : CheckedTo(k)'
    BY <1>1, <1>5 DEF CheckedTo
  <2>3. QED
    BY <1>1, <2>1, <2>2, OnwardKeeps
<1>6. CASE setup.cfg.enabled /\ rated = "violated"
  BY <1>1, <1>6, EndKeeps DEF CallCheck
<1>7. CASE setup.cfg.enabled /\ rated # "violated" /\ Robot(request) \in setup.fleet
  <2>1. phase' = "asking" /\ UNCHANGED <<next, audit>>
    BY <1>7 DEF CallCheck
  <2>2. ChecksInv'
    BY <1>1, <1>3, <1>4, <1>7, <2>1 DEF ChecksInv, CheckedTo
  <2>3. QED
    BY <1>1, <2>1, <2>2 DEF CallInv, CallTypes, PassedInv, MovedInv
<1>8. CASE setup.cfg.enabled /\ rated # "violated" /\ Robot(request) \notin setup.fleet
  <2>1. Onward /\ audit' = Append(audit, UncheckedOutcome(rated))
    BY <1>8 DEF CallCheck
  <2>2. Len(audit) = next - 1
    BY <1>1, <1>2, <1>8 DEF CheckedTo
  <2>3. UncheckedOutcome(rated) \in {"passed", "skipped"}
        /\ (UncheckedOutcome(rated) = "passed" => cmd.kind \in setup.cfg.rules)
    BY <1>3, <1>8 DEF UncheckedOutcome
  <2>4. Len(audit') = next /\ audit' \in Seq({"passed", "violated", "skipped"})
    BY <1>1, <1>2, <2>1, <2>2, <2>3
  <2>5. PICK k : k = next
    OBVIOUS
  <2>6. \A i \in 1..k : Harmless(Commands(request)[i])
    BY <1>1, <1>2, <1>3, <1>8, <2>5 DEF CheckedTo
  <2>7. CheckedTo(k)'
    BY <1>1, <1>4, <1>8, <2>4, <2>5, <2>6 DEF CheckedTo
  <2>8. Len(audit) + 1 = next
    BY <1>1, <1>2, <2>2
  <2>9. QED
    BY <1>1, <2>1, <2>3, <2>4, <2>5, <2>7, <2>8, OnwardKeeps
<1>9. QED
  BY <1>5, <1>6, <1>7, <1>8

LEMMA CallApprovedKeeps == CallInv /\ CallApproved => CallInv'
<1> SUFFICES ASSUME CallInv, CallApproved PROVE CallInv'
  OBVIOUS
<1>1. /\ phase = "asking" /\ moved = "no" /\ Onward /\ UNCHANGED <<setup, request, moved>>
      /\ next \in 1..Len(Commands(request)) /\ CheckedTo(next - 1)
      /\ audit \in Seq({"passed", "violated", "skipped"})
      /\ setup.cfg.enabled /\ Robot(request) \in setup.fleet
      /\ Harmless(Commands(request)[next])
      /\ audit' = Append(audit, "passed") /\ approved' = approved \cup {next}
  BY DEF CallApproved, CallInv, CallTypes, ChecksInv, MovedInv
<1>2. Commands(request) \in Seq(SafetyCommands)
  BY <1>1, CommandsAreTyped DEF CallInv, CallTypes
<1>3. PICK k : k = next
  OBVIOUS
<1>4. /\ k \in Nat \ {0} /\ Commands(request) # <<>> /\ Len(audit) = k - 1 /\ approved = 1..(k - 1)
  BY <1>1, <1>2, <1>3 DEF CheckedTo
<1>5. approved' = 1..k
  BY <1>1, <1>3, <1>4
<1>6. /\ Len(audit') = k /\ audit' \in Seq({"passed", "violated", "skipped"})
      /\ Len(audit) + 1 \in approved'
  BY <1>1, <1>4, <1>5
<1>7. \A i \in 1..k : Harmless(Commands(request)[i])
  BY <1>1, <1>3, <1>4 DEF CheckedTo
<1>8. \A i \in 1..k : Harmless(Commands(request)[i])'
  BY <1>1, <1>7 DEF Harmless
<1>9. CheckedTo(k)'
  BY <1>1, <1>5, <1>6, <1>8 DEF CheckedTo
<1>10. QED
  BY <1>1, <1>3, <1>6, <1>9, OnwardKeeps

LEMMA CallInvStep == CallInv /\ [CallNext]_callVars => CallInv'
<1> SUFFICES ASSUME CallInv, [CallNext]_callVars PROVE CallInv'
  OBVIOUS
<1>1. CASE CallAsk
  BY <1>1 DEF CallAsk, ToolRequests, CallInv, CallTypes, ChecksInv, PassedInv, MovedInv
<1>2. CASE CallReject
  BY <1>2, EndKeeps DEF CallReject, CallInv, MovedInv
<1>3. CASE CallBuild
  BY <1>3, CallBuildKeeps
<1>4. CASE CallCheck
  BY <1>4, CallCheckKeeps
<1>5. CASE CallApproved
  BY <1>5, CallApprovedKeeps
<1>6. CASE CallRefused
  BY <1>6, EndKeeps DEF CallRefused, CallInv, MovedInv
<1>7. CASE CallUnreachable
  BY <1>7, EndKeeps DEF CallUnreachable, CallInv, MovedInv
<1>8. CASE CallOffline
  BY <1>8, EndKeeps DEF CallOffline, CallInv, MovedInv
<1>9. CASE CallSimulate
  BY <1>9 DEF CallSimulate, Simulated, CallInv, CallTypes, Ends, ChecksInv, CheckedTo, Harmless,
              PassedInv, MovedInv
<1>10. CASE CallRun
  BY <1>10 DEF CallRun, CallInv, CallTypes, Ends, ChecksInv, CheckedTo, Harmless,
               PassedInv, MovedInv
<1>11. CASE UNCHANGED callVars
  BY <1>11 DEF callVars, CallInv, CallTypes, ChecksInv, CheckedTo, Harmless, PassedInv, MovedInv
<1>12. QED
  BY <1>1, <1>2, <1>3, <1>4, <1>5, <1>6, <1>7, <1>8, <1>9, <1>10, <1>11 DEF CallNext

\* For every tool and every list of targets: no number outside a configured rule and no
\* target its own check has not passed moves a robot, the audit log says which were
\* looked at, and success is what the robot reported.
THEOREM EveryCallIsSafe == CallSpec => []CallsAreSafe
<1>1. CallSpec => []CallInv
  BY CallInvInit, CallInvStep, PTL DEF CallSpec
<1>2. QED
  BY <1>1, CallIsSafe, PTL

-----------------------------------------------------------------------------
(* What tasks learn of the fleet, for any robots, bodies, tasks, skills    *)
(* and any number of changes.                                              *)

Probes == [at : {"idle", "sent"}]
            \cup [at : {"answered", "done"}, says : Versions \cup VerbSets \cup BOOLEAN]
Starts == [at : Rounds \cup {"new", "planning"}, hidden : SUBSET GateVerbs,
           faults : SUBSET GateRobots]
MotionCalls == [at : {"none", "refused"}]
            \cup [at : {"checked"}, robot : GateRobots, points : Versions]
            \cup [at : {"ran"}, robot : GateRobots, points : Versions, ran : Versions]
Histories == [kept : SUBSET (GateRobots \X GateVerbs), steady : SUBSET GateRobots,
              overtaken : SUBSET GateRobots, faulty : SUBSET GateRobots]

GateTypes ==
    /\ body \in [GateRobots -> Bodies]
    /\ catalog \in [GateRobots -> Versions]
    /\ probe \in [GateTasks -> [GateRobots -> Probes]]
    /\ start \in [GateTasks -> Starts]
    /\ motionCall \in [GateTasks -> MotionCalls]
    /\ history \in [GateTasks -> Histories]

\* What an answer of each round may say.
SaysSet(round) ==
    IF round = "motions" THEN Versions ELSE IF round = "verbs" THEN VerbSets ELSE BOOLEAN

HasAnswer(t, r) == probe[t][r].at \in {"answered", "done"}

\* The probes of a task belong to the round it is in.
ProbesInv(t) == \A r \in GateRobots :
    /\ HasAnswer(t, r) => start[t].at \in Rounds /\ probe[t][r].says \in SaysSet(start[t].at)
    /\ probe[t][r].at = "answered" => start[t].at = "motions"
    /\ probe[t][r].at = "sent" => start[t].at \in Rounds

\* The robots whose motions nobody taught anew and nobody's older refresh can
\* overwrite since the task started.
Steady(t) == IF start[t].at = "new" THEN {} ELSE history[t].steady \ history[t].overtaken

\* What is on its way to the catalog, in it, and in the hands of a call, is what
\* such a robot was taught, or nothing.
MotionsInv(t) == \A r \in Steady(t) :
    /\ \A u \in GateTasks : start[u].at = "motions" /\ probe[u][r].at = "answered"
          => probe[u][r].says \in {0, body[r].motion}
    /\ start[t].at # "motions" \/ probe[t][r].at = "done" => catalog[r] \in {0, body[r].motion}
    /\ motionCall[t].at = "checked" /\ motionCall[t].robot = r
          => motionCall[t].points \in {0, body[r].motion}
    /\ motionCall[t].at = "ran" /\ motionCall[t].robot = r
          => motionCall[t].points \in {0, motionCall[t].ran}

\* A verb that a robot could run all the while is not missing in its answer.
Able(r, v) == ~body[r].up \/ body[r].verbs = GateUnknown \/ v \in body[r].verbs
VerbsInv(t) ==
    /\ start[t].at = "verbs" => \A r \in GateRobots, v \in GateVerbs :
          <<r, v>> \in history[t].kept =>
              /\ Able(r, v)
              /\ probe[t][r].at = "done" => probe[t][r].says = GateUnknown \/ v \in probe[t][r].says
    /\ start[t].at = "faults" => \A r \in GateRobots, v \in start[t].hidden :
          v # Taught => <<r, v>> \notin history[t].kept

\* A robot in fault while the task asks is one the history knows.
FaultsInv(t) ==
    /\ start[t].at = "faults" => \A r \in GateRobots :
          \/ body[r].fault = TRUE
          \/ probe[t][r].at = "done" /\ probe[t][r].says = TRUE
          => r \in history[t].faulty
    /\ start[t].at = "planning" => start[t].faults \subseteq history[t].faulty

TaskInv(t) ==
    /\ ProbesInv(t) /\ MotionsInv(t) /\ VerbsInv(t) /\ FaultsInv(t)
    /\ motionCall[t].at # "none" => start[t].at = "planning"

GateInv == GateTypes /\ \A t \in GateTasks : TaskInv(t)

LEMMA GateIsSafe == GateInv => OfferIsJustified /\ CheckedIsRun
<1> SUFFICES ASSUME GateInv PROVE OfferIsJustified /\ CheckedIsRun
  OBVIOUS
<1>1. TypeOKGate
  <2>1. ASSUME NEW t \in GateTasks PROVE start[t] \in Starts /\ ProbesInv(t)
    BY DEF GateInv, GateTypes, TaskInv
  <2>2. QED
    BY <2>1 DEF GateInv, GateTypes, TypeOKGate, Starts, ProbesInv, HasAnswer, SaysSet, Rounds
<1>2. HiddenJustified
  <2> SUFFICES ASSUME NEW t \in GateTasks, start[t].at = "faults"
               PROVE  LET kept(v) == v # Taught /\ \E r \in GateRobots : <<r, v>> \in history[t].kept
                      IN  /\ \A v \in GateVerbs \ OfferedTools(t) : ~kept(v)
                          /\ \A s \in GateSkills \ OfferedSkills(t) : \E v \in GateNeeds[s] : ~kept(v)
    BY DEF HiddenJustified
  <2>1. \A r \in GateRobots, v \in start[t].hidden : v # Taught => <<r, v>> \notin history[t].kept
    BY DEF GateInv, TaskInv, VerbsInv
  <2>2. QED
    BY <2>1 DEF OfferedTools, OfferedSkills
<1>3. FaultsAreReal
  BY DEF GateInv, TaskInv, FaultsInv, FaultsAreReal
<1>4. CheckedIsRun
  <2> SUFFICES ASSUME NEW t \in GateTasks, motionCall[t].at = "ran", motionCall[t].points # 0,
                      motionCall[t].robot \in history[t].steady \ history[t].overtaken
               PROVE  motionCall[t].ran = motionCall[t].points
    BY DEF CheckedIsRun
  <2>1. start[t].at = "planning" /\ MotionsInv(t)
    BY DEF GateInv, TaskInv
  <2>2. QED
    BY <2>1 DEF MotionsInv, Steady
<1>5. QED
  BY <1>1, <1>2, <1>3, <1>4 DEF OfferIsJustified

LEMMA GateInvInit == GateInit => GateInv
<1> SUFFICES ASSUME GateInit PROVE GateInv
  OBVIOUS
<1>1. GateTypes
  BY GateAssumption DEF GateInit, GateTypes, Probes, Starts, MotionCalls, Histories, Versions,
                        Idle, NoMotionCall
<1>2. ASSUME NEW t \in GateTasks PROVE TaskInv(t)
  BY DEF GateInit, TaskInv, ProbesInv, HasAnswer, MotionsInv, Steady, VerbsInv, FaultsInv, Idle,
         NoMotionCall
<1>3. QED
  BY <1>1, <1>2 DEF GateInv

\* A task that does not move keeps what its invariant says of itself, as long as no
\* body changes and the catalog and the answers on their way stay as they should be.
LEMMA GateOthersKept ==
    ASSUME GateInv, NEW u \in GateTasks,
           start'[u] = start[u], probe'[u] = probe[u], history'[u] = history[u],
           motionCall'[u] = motionCall[u], body' = body,
           \A r \in Steady(u) :
              /\ \A t \in GateTasks : start'[t].at = "motions" /\ probe'[t][r].at = "answered"
                    => probe'[t][r].says \in {0, body[r].motion}
              /\ start[u].at # "motions" \/ probe[u][r].at = "done"
                    => catalog'[r] \in {0, body[r].motion}
    PROVE  TaskInv(u)'
<1>1. TaskInv(u)
  BY DEF GateInv
<1>2. Steady(u)' = Steady(u)
  BY DEF Steady
<1>3. MotionsInv(u)'
  BY <1>1, <1>2 DEF TaskInv, MotionsInv
<1>4. ProbesInv(u)' /\ VerbsInv(u)' /\ FaultsInv(u)'
  BY <1>1 DEF TaskInv, ProbesInv, HasAnswer, VerbsInv, Able, FaultsInv
<1>5. QED
  BY <1>1, <1>3, <1>4 DEF TaskInv

LEMMA GateStartKeeps ==
    ASSUME GateInv, NEW t \in GateTasks, GateStart(t) PROVE GateInv'
<1>1. /\ start[t].at = "new" /\ start' = [start EXCEPT ![t].at = "motions"]
      /\ probe' = [probe EXCEPT ![t] = [r \in GateRobots |-> Sent]]
      /\ UNCHANGED <<body, catalog, motionCall, changes>>
  BY DEF GateStart, Ask
<1> DEFINE over == {r \in GateRobots : \E u \in GateTasks \ {t} : /\ start[u].at = "motions"
                                                                /\ probe[u][r].at # "done"}
<1>2. history' = [history EXCEPT ![t] = [history[t] EXCEPT !.steady = GateRobots, !.overtaken = over]]
  BY DEF GateStart, GateInv, GateTypes
<1>3. /\ start[t] \in Starts /\ history[t] \in Histories
      /\ start \in [GateTasks -> Starts] /\ history \in [GateTasks -> Histories]
      /\ probe \in [GateTasks -> [GateRobots -> Probes]]
  BY DEF GateInv, GateTypes
<1>4. [start[t] EXCEPT !.at = "motions"] \in Starts
  BY <1>3 DEF Starts, Rounds
<1>5. over \subseteq GateRobots
  OBVIOUS
<1> HIDE DEF over
<1>6. [history[t] EXCEPT !.steady = GateRobots, !.overtaken = over] \in Histories
  BY <1>3, <1>5 DEF Histories
<1>7. Sent \in Probes
  BY DEF Sent, Probes
<1>8. GateTypes'
  BY <1>1, <1>2, <1>3, <1>4, <1>6, <1>7 DEF GateInv, GateTypes
<1>9. /\ start'[t].at = "motions" /\ \A r \in GateRobots : probe'[t][r].at = "sent"
      /\ \A u \in GateTasks \ {t} : start'[u] = start[u] /\ probe'[u] = probe[u] /\ history'[u] = history[u]
  BY <1>1, <1>2, <1>3 DEF Starts, Sent
<1>10. Steady(t)' = GateRobots \ over
  BY <1>2, <1>3, <1>9 DEF Steady, Histories
<1>11. ASSUME NEW u \in GateTasks, u # t PROVE TaskInv(u)'
  <2>1. MotionsInv(u) /\ Steady(u) \subseteq GateRobots
    BY <1>3 DEF GateInv, TaskInv, Steady, Histories
  <2>2. QED
    BY <1>1, <1>9, <1>11, <2>1, GateOthersKept DEF MotionsInv
<1>12. motionCall[t].at = "none"
  BY <1>1 DEF GateInv, TaskInv
<1>13. MotionsInv(t)'
  BY <1>1, <1>9, <1>10, <1>12 DEF MotionsInv, over
<1>14. TaskInv(t)'
  BY <1>1, <1>9, <1>12, <1>13 DEF TaskInv, ProbesInv, HasAnswer, VerbsInv, FaultsInv, Rounds
<1>15. QED
  BY <1>8, <1>11, <1>14 DEF GateInv

\* What a concluded probe may say of the robot, for the task and for all the others.
SoundAnswer(t, r, says) ==
    /\ says \in SaysSet(start[t].at)
    /\ start[t].at = "motions" => \A u \in GateTasks : r \in Steady(u) => says \in {0, body[r].motion}
    /\ start[t].at = "verbs" => \A v \in GateVerbs :
          <<r, v>> \in history[t].kept => says = GateUnknown \/ v \in says
    /\ start[t].at = "faults" => (says = TRUE => r \in history[t].faulty)

LEMMA ConcludeKeeps ==
    ASSUME GateInv, NEW t \in GateTasks, NEW r \in GateRobots, NEW says,
           start[t].at \in Rounds, SoundAnswer(t, r, says), Conclude(t, r, says)
    PROVE  GateInv'
<1>1. /\ probe' = [probe EXCEPT ![t][r] = [at |-> "done", says |-> says]]
      /\ catalog' = IF start[t].at = "motions" THEN [catalog EXCEPT ![r] = says] ELSE catalog
      /\ UNCHANGED <<body, start, motionCall, changes, history>>
  BY DEF Conclude
<1>2. [at |-> "done", says |-> says] \in Probes
  BY DEF SoundAnswer, SaysSet, Probes
<1>3. probe \in [GateTasks -> [GateRobots -> Probes]] /\ catalog \in [GateRobots -> Versions]
  BY DEF GateInv, GateTypes
<1>4. GateTypes'
  BY <1>1, <1>2, <1>3 DEF GateInv, GateTypes, SoundAnswer, SaysSet
<1>5. /\ probe'[t][r].at = "done" /\ probe'[t][r].says = says
      /\ \A q \in GateRobots \ {r} : probe'[t][q] = probe[t][q]
      /\ \A u \in GateTasks \ {t} : probe'[u] = probe[u]
  BY <1>1, <1>3
<1>6. \A q \in GateRobots :
         \/ catalog'[q] = catalog[q] /\ (start[t].at = "motions" => q # r)
         \/ q = r /\ start[t].at = "motions" /\ catalog'[q] = says
  BY <1>1, <1>3
<1>7. \A u \in GateTasks : Steady(u) \subseteq GateRobots /\ TaskInv(u)
  BY DEF GateInv, GateTypes, Steady, Histories
<1>8. ASSUME NEW u \in GateTasks, NEW q \in Steady(u)
      PROVE  /\ \A w \in GateTasks : start'[w].at = "motions" /\ probe'[w][q].at = "answered"
                   => probe'[w][q].says \in {0, body[q].motion}
             /\ start[u].at # "motions" \/ probe'[u][q].at = "done"
                   => catalog'[q] \in {0, body[q].motion}
  <2>1. MotionsInv(u) /\ q \in GateRobots
    BY <1>7 DEF TaskInv
  <2>2. \A w \in GateTasks : start'[w].at = "motions" /\ probe'[w][q].at = "answered"
            => probe'[w][q].says \in {0, body[q].motion}
    BY <1>1, <1>5, <2>1 DEF MotionsInv
  <2>3. ASSUME start[u].at # "motions" \/ probe'[u][q].at = "done"
        PROVE  catalog'[q] \in {0, body[q].motion}
    <3>1. CASE q = r /\ start[t].at = "motions"
      BY <1>6, <2>1, <3>1 DEF SoundAnswer
    <3>2. CASE ~(q = r /\ start[t].at = "motions")
      <4>1. catalog'[q] = catalog[q]
        BY <1>6, <2>1, <3>2
      <4>2. start[u].at # "motions" \/ probe[u][q].at = "done"
        BY <1>5, <2>1, <2>3, <3>2
      <4>3. QED
        BY <2>1, <4>1, <4>2 DEF MotionsInv
    <3>3. QED
      BY <3>1, <3>2
  <2>4. QED
    BY <2>2, <2>3
<1>9. ASSUME NEW u \in GateTasks, u # t PROVE TaskInv(u)'
  BY <1>1, <1>5, <1>8, <1>9, GateOthersKept
<1>10. Steady(t)' = Steady(t)
  BY <1>1 DEF Steady
<1>11. MotionsInv(t)'
  BY <1>1, <1>7, <1>8, <1>10 DEF TaskInv, MotionsInv
<1>12. ProbesInv(t)'
  BY <1>1, <1>5, <1>7 DEF TaskInv, ProbesInv, HasAnswer, SoundAnswer
<1>13. VerbsInv(t)'
  BY <1>1, <1>5, <1>7 DEF TaskInv, VerbsInv, Able, SoundAnswer
<1>14. FaultsInv(t)'
  BY <1>1, <1>5, <1>7 DEF TaskInv, FaultsInv, SoundAnswer
<1>15. TaskInv(t)'
  BY <1>1, <1>7, <1>11, <1>12, <1>13, <1>14 DEF TaskInv
<1>16. QED
  BY <1>4, <1>9, <1>15 DEF GateInv

LEMMA GateAnswersKeep ==
    ASSUME GateInv, NEW t \in GateTasks, NEW r \in GateRobots,
           GateHealth(t, r) \/ GateHear(t, r) \/ GateOffline(t, r)
    PROVE  GateInv'
<1> DEFINE round == start[t].at
<1>1. /\ body[r] \in Bodies /\ TaskInv(t) /\ probe \in [GateTasks -> [GateRobots -> Probes]]
      /\ \A u \in GateTasks : MotionsInv(u) /\ Steady(u) \subseteq GateRobots
  BY DEF GateInv, GateTypes, TaskInv, Steady, Histories
<1>2. probe[t][r].at \in {"sent", "answered"} => round \in Rounds
  BY <1>1 DEF TaskInv, ProbesInv, HasAnswer
<1>3. ASSUME GateHealth(t, r) PROVE GateInv'
  <2>1. probe[t][r].at = "sent" /\ body[r].up = TRUE /\ round \in Rounds
    BY <1>1, <1>2, <1>3 DEF GateHealth, Sent, Bodies
  <2>2. CASE round = "motions"
    <3> DEFINE says == Says(body[r], "motions")
    <3>1. says \in {0, body[r].motion} /\ says \in Versions
      BY <1>1, GateAssumption DEF Says, Parsed, Bodies, Versions
    <3>2. /\ probe' = [probe EXCEPT ![t][r] = [at |-> "answered", says |-> says]]
          /\ UNCHANGED <<body, catalog, start, motionCall, changes, history>>
      BY <1>3, <2>2 DEF GateHealth
    <3> HIDE DEF says
    <3>3. [at |-> "answered", says |-> says] \in Probes
      BY <3>1 DEF Probes
    <3>4. GateTypes'
      BY <1>1, <3>2, <3>3 DEF GateInv, GateTypes
    <3>5. /\ probe'[t][r].at = "answered" /\ probe'[t][r].says = says
          /\ \A q \in GateRobots \ {r} : probe'[t][q] = probe[t][q]
          /\ \A u \in GateTasks \ {t} : probe'[u] = probe[u]
      BY <1>1, <3>2
    <3>6. ASSUME NEW u \in GateTasks, NEW q \in Steady(u)
          PROVE  /\ \A w \in GateTasks : start'[w].at = "motions" /\ probe'[w][q].at = "answered"
                       => probe'[w][q].says \in {0, body[q].motion}
                 /\ start[u].at # "motions" \/ probe[u][q].at = "done"
                       => catalog'[q] \in {0, body[q].motion}
      BY <1>1, <3>1, <3>2, <3>5 DEF MotionsInv
    <3>7. ASSUME NEW u \in GateTasks, u # t PROVE TaskInv(u)'
      BY <3>2, <3>5, <3>6, <3>7, GateOthersKept
    <3>8. Steady(t)' = Steady(t)
      BY <3>2 DEF Steady
    <3>9. ASSUME NEW q \in Steady(t), probe'[t][q].at = "done" PROVE probe[t][q].at = "done"
      BY <1>1, <3>5, <3>9
    <3>10. MotionsInv(t)'
      BY <1>1, <3>2, <3>6, <3>8, <3>9 DEF MotionsInv
    <3>11. ProbesInv(t)'
      BY <1>1, <2>1, <2>2, <3>1, <3>2, <3>5 DEF TaskInv, ProbesInv, HasAnswer, SaysSet
    <3>12. TaskInv(t)'
      BY <1>1, <2>2, <3>2, <3>10, <3>11 DEF TaskInv, VerbsInv, FaultsInv
    <3>13. QED
      BY <3>4, <3>7, <3>12 DEF GateInv
  <2>3. CASE round = "verbs"
    <3>1. SoundAnswer(t, r, body[r].verbs)
      BY <1>1, <2>1, <2>3 DEF SoundAnswer, SaysSet, Bodies, TaskInv, VerbsInv, Able
    <3>2. Conclude(t, r, body[r].verbs)
      BY <1>3, <2>3 DEF GateHealth, Says
    <3>3. QED
      BY <2>1, <3>1, <3>2, ConcludeKeeps
  <2>4. CASE round = "faults"
    <3>1. SoundAnswer(t, r, body[r].fault)
      BY <1>1, <2>1, <2>4 DEF SoundAnswer, SaysSet, Bodies, TaskInv, FaultsInv
    <3>2. Conclude(t, r, body[r].fault)
      BY <1>3, <2>4 DEF GateHealth, Says
    <3>3. QED
      BY <2>1, <3>1, <3>2, ConcludeKeeps
  <2>5. QED
    BY <2>1, <2>2, <2>3, <2>4 DEF Rounds
<1>4. ASSUME GateHear(t, r) PROVE GateInv'
  <2>1. /\ probe[t][r].at = "answered" /\ Conclude(t, r, probe[t][r].says)
        /\ start[t].at = "motions"
    BY <1>1, <1>4 DEF GateHear, TaskInv, ProbesInv
  <2>2. SoundAnswer(t, r, probe[t][r].says)
    BY <1>1, <2>1 DEF SoundAnswer, TaskInv, ProbesInv, HasAnswer, MotionsInv
  <2>3. QED
    BY <1>2, <2>1, <2>2, ConcludeKeeps
<1>5. ASSUME GateOffline(t, r) PROVE GateInv'
  <2>1. /\ round \in Rounds /\ Conclude(t, r, Silence(round))
    BY <1>2, <1>5 DEF GateOffline
  <2>2. SoundAnswer(t, r, Silence(round))
    <3>1. CASE round = "motions"
      <4>1. Silence(round) = 0
        BY <3>1 DEF Silence
      <4>2. 0 \in Versions
        BY GateAssumption DEF Versions, VerbSets
      <4>3. QED
        BY <3>1, <4>1, <4>2 DEF SoundAnswer, SaysSet
    <3>2. CASE round = "verbs"
      <4>1. Silence(round) = GateUnknown
        BY <3>2 DEF Silence
      <4>2. GateUnknown \in VerbSets
        BY GateAssumption DEF Versions, VerbSets
      <4>3. QED
        BY <3>2, <4>1, <4>2 DEF SoundAnswer, SaysSet
    <3>3. CASE round = "faults"
      BY <3>3 DEF SoundAnswer, SaysSet, Silence
    <3>4. QED
      BY <2>1, <3>1, <3>2, <3>3 DEF Rounds
  <2>3. QED
    BY <2>1, <2>2, ConcludeKeeps
<1>6. QED
  BY <1>3, <1>4, <1>5

\* The end of a round: every probe is done, and the next round asks anew.
LEMMA GateRoundFacts ==
    ASSUME GateInv, NEW t \in GateTasks, NEW round \in Rounds, Gathered(t, round)
    PROVE  /\ start[t] \in Starts /\ history[t] \in Histories
           /\ start \in [GateTasks -> Starts] /\ history \in [GateTasks -> Histories]
           /\ probe \in [GateTasks -> [GateRobots -> Probes]]
           /\ motionCall[t].at = "none"
           /\ [r \in GateRobots |-> Sent] \in [GateRobots -> Probes]
           /\ [r \in GateRobots |-> Idle] \in [GateRobots -> Probes]
           /\ \A r \in GateRobots : probe[t][r].says \in SaysSet(round)
           /\ \A r \in Steady(t) : catalog[r] \in {0, body[r].motion}
           /\ Steady(t) = history[t].steady \ history[t].overtaken
           /\ Steady(t) \subseteq GateRobots
<1>1. /\ start[t] \in Starts /\ history[t] \in Histories /\ TaskInv(t)
      /\ start \in [GateTasks -> Starts] /\ history \in [GateTasks -> Histories]
      /\ probe \in [GateTasks -> [GateRobots -> Probes]]
  BY DEF GateInv, GateTypes
<1>2. Sent \in Probes /\ Idle \in Probes
  BY DEF Sent, Idle, Probes
<1>3. start[t].at = round /\ round # "new" /\ \A r \in GateRobots : probe[t][r].at = "done"
  BY DEF Gathered, Rounds
<1>4. Steady(t) = history[t].steady \ history[t].overtaken /\ Steady(t) \subseteq GateRobots
  BY <1>1, <1>3 DEF Steady, Histories
<1>5. \A r \in GateRobots : probe[t][r].says \in SaysSet(round)
  BY <1>1, <1>3 DEF TaskInv, ProbesInv, HasAnswer
<1>6. \A r \in Steady(t) : catalog[r] \in {0, body[r].motion}
  BY <1>1, <1>3, <1>4 DEF TaskInv, MotionsInv
<1>7. motionCall[t].at = "none"
  BY <1>1, <1>3 DEF TaskInv, Rounds
<1>8. QED
  BY <1>1, <1>2, <1>4, <1>5, <1>6, <1>7

\* A task that goes on to its next round, or to its loop, and the others.
LEMMA GateRoundKeeps ==
    ASSUME GateInv, NEW t \in GateTasks, NEW round \in Rounds, Gathered(t, round),
           NEW s \in Starts, s.at \in {"verbs", "faults", "planning"},
           NEW h \in Histories,
           h.steady = history[t].steady, h.overtaken = history[t].overtaken,
           NEW p \in {Sent, Idle}, p = Sent => s.at # "planning",
           start' = [start EXCEPT ![t] = s], history' = [history EXCEPT ![t] = h],
           probe' = [probe EXCEPT ![t] = [r \in GateRobots |-> p]],
           UNCHANGED <<body, catalog, motionCall>>,
           VerbsInv(t)', FaultsInv(t)'
    PROVE  GateInv'
<1>1. /\ start[t] \in Starts /\ history[t] \in Histories
      /\ start \in [GateTasks -> Starts] /\ history \in [GateTasks -> Histories]
      /\ probe \in [GateTasks -> [GateRobots -> Probes]]
      /\ motionCall[t].at = "none"
      /\ \A r \in Steady(t) : catalog[r] \in {0, body[r].motion}
      /\ Steady(t) = history[t].steady \ history[t].overtaken
      /\ Steady(t) \subseteq GateRobots
  BY GateRoundFacts DEF Rounds
<1>2. p \in Probes /\ p.at \in {"sent", "idle"} /\ (p.at = "sent" <=> p = Sent)
  BY DEF Sent, Idle, Probes
<1>3. GateTypes'
  BY <1>1, <1>2 DEF GateInv, GateTypes
<1>4. /\ start'[t] = s /\ history'[t] = h /\ \A r \in GateRobots : probe'[t][r] = p
      /\ \A u \in GateTasks \ {t} : start'[u] = start[u] /\ probe'[u] = probe[u] /\ history'[u] = history[u]
  BY <1>1
<1>5. \A u \in GateTasks : MotionsInv(u) /\ Steady(u) \subseteq GateRobots
  BY <1>1 DEF GateInv, TaskInv, Steady, Histories
<1>6. ASSUME NEW u \in GateTasks, u # t PROVE TaskInv(u)'
  BY <1>2, <1>4, <1>5, <1>6, GateOthersKept DEF MotionsInv
<1>7. Steady(t)' = Steady(t)
  BY <1>1, <1>4 DEF Steady
<1>8. MotionsInv(t)'
  BY <1>1, <1>2, <1>4, <1>5, <1>7 DEF MotionsInv
<1>9. ProbesInv(t)'
  BY <1>2, <1>4 DEF ProbesInv, HasAnswer, Rounds
<1>10. TaskInv(t)'
  BY <1>1, <1>8, <1>9 DEF TaskInv
<1>11. QED
  BY <1>3, <1>6, <1>10 DEF GateInv

LEMMA GateReadsKeep ==
    ASSUME GateInv, NEW t \in GateTasks,
           GateMotionsRead(t) \/ GateVerbsRead(t) \/ GateFaultsRead(t)
    PROVE  GateInv'
<1>1. /\ start[t] \in Starts /\ history[t] \in Histories
      /\ start \in [GateTasks -> Starts] /\ history \in [GateTasks -> Histories]
      /\ body \in [GateRobots -> Bodies] /\ probe \in [GateTasks -> [GateRobots -> Probes]]
      /\ TaskInv(t)
  BY DEF GateInv, GateTypes
<1>2. ASSUME GateMotionsRead(t) PROVE GateInv'
  <2> DEFINE ks == {rv \in GateRobots \X GateVerbs :
                      LET b == body[rv[1]] IN ~b.up \/ b.verbs = GateUnknown \/ rv[2] \in b.verbs}
             s == [start[t] EXCEPT !.at = "verbs"]
             h == [history[t] EXCEPT !.kept = ks]
  <2>1. /\ Gathered(t, "motions") /\ UNCHANGED <<body, catalog, motionCall>>
        /\ start' = [start EXCEPT ![t] = s] /\ history' = [history EXCEPT ![t] = h]
        /\ probe' = [probe EXCEPT ![t] = [r \in GateRobots |-> Sent]]
    BY <1>2 DEF GateMotionsRead, Ask
  <2>2. ks \subseteq GateRobots \X GateVerbs
    OBVIOUS
  <2>3. \A r \in GateRobots, v \in GateVerbs : <<r, v>> \in ks => Able(r, v)
    BY DEF Able
  <2> HIDE DEF ks
  <2>4. s \in Starts /\ s.at = "verbs"
    BY <1>1 DEF Starts, Rounds
  <2>5. h \in Histories /\ h.kept = ks /\ h.steady = history[t].steady /\ h.overtaken = history[t].overtaken
    BY <1>1, <2>2 DEF Histories
  <2> HIDE DEF s, h
  <2>6. start'[t] = s /\ history'[t] = h /\ \A r \in GateRobots : probe'[t][r] = Sent
    BY <1>1, <2>1
  <2>7. VerbsInv(t)'
    BY <2>1, <2>3, <2>4, <2>5, <2>6 DEF VerbsInv, Able, Sent
  <2>8. FaultsInv(t)'
    BY <2>4, <2>6 DEF FaultsInv
  <2>9. QED
    BY <2>1, <2>4, <2>5, <2>7, <2>8, GateRoundKeeps DEF Rounds
<1>3. ASSUME GateVerbsRead(t) PROVE GateInv'
  <2> DEFINE empty == \A r \in GateRobots : catalog[r] = 0
             hid == Unavailable(t) \cup (IF empty THEN {Taught} ELSE {})
             fs == {r \in GateRobots : body[r].fault}
             s == [start[t] EXCEPT !.at = "faults", !.hidden = hid]
             h == [history[t] EXCEPT !.faulty = fs]
  <2>1. /\ Gathered(t, "verbs") /\ UNCHANGED <<body, catalog, motionCall>>
        /\ start' = [start EXCEPT ![t] = s] /\ history' = [history EXCEPT ![t] = h]
        /\ probe' = [probe EXCEPT ![t] = [r \in GateRobots |-> Sent]]
    BY <1>3 DEF GateVerbsRead, Ask
  <2>2. hid \subseteq GateVerbs /\ fs \subseteq GateRobots
    BY GateAssumption DEF Unavailable
  <2>3. \A r \in GateRobots, v \in hid : v # Taught => <<r, v>> \notin history[t].kept
    <3> TAKE r \in GateRobots, v \in hid
    <3> HAVE v # Taught
    <3>1. v \in Unavailable(t)
      OBVIOUS
    <3>2. probe[t][r].says # GateUnknown /\ v \in GateVerbs /\ v \notin probe[t][r].says
      BY <3>1 DEF Unavailable
    <3>3. start[t].at = "verbs" /\ probe[t][r].at = "done"
      BY <2>1 DEF Gathered
    <3>4. QED
      BY <1>1, <3>2, <3>3 DEF TaskInv, VerbsInv
  <2>4. \A r \in GateRobots : body[r].fault = TRUE => r \in fs
    OBVIOUS
  <2> HIDE DEF hid, fs
  <2>5. s \in Starts /\ s.at = "faults" /\ s.hidden = hid
    BY <1>1, <2>2 DEF Starts, Rounds
  <2>6. /\ h \in Histories /\ h.kept = history[t].kept /\ h.faulty = fs
        /\ h.steady = history[t].steady /\ h.overtaken = history[t].overtaken
    BY <1>1, <2>2 DEF Histories
  <2> HIDE DEF s, h
  <2>7. start'[t] = s /\ history'[t] = h /\ \A r \in GateRobots : probe'[t][r] = Sent
    BY <1>1, <2>1
  <2>8. VerbsInv(t)'
    BY <2>3, <2>5, <2>6, <2>7 DEF VerbsInv
  <2>9. FaultsInv(t)'
    BY <2>1, <2>4, <2>5, <2>6, <2>7 DEF FaultsInv, Sent
  <2>10. QED
    BY <2>1, <2>5, <2>6, <2>8, <2>9, GateRoundKeeps DEF Rounds
<1>4. ASSUME GateFaultsRead(t) PROVE GateInv'
  <2> DEFINE fs == {r \in GateRobots : probe[t][r].says}
             s == [start[t] EXCEPT !.at = "planning", !.faults = fs]
             h == [history[t] EXCEPT !.kept = {}]
  <2>1. /\ Gathered(t, "faults") /\ UNCHANGED <<body, catalog, motionCall>>
        /\ start' = [start EXCEPT ![t] = s] /\ history' = [history EXCEPT ![t] = h]
        /\ probe' = [probe EXCEPT ![t] = [r \in GateRobots |-> Idle]]
    BY <1>4 DEF GateFaultsRead
  <2>2. fs \subseteq history[t].faulty
    <3>1. \A r \in GateRobots : probe[t][r].says \in BOOLEAN
      BY <2>1, GateRoundFacts DEF SaysSet, Rounds
    <3>2. \A r \in fs : probe[t][r].says = TRUE
      BY <3>1
    <3>3. QED
      BY <1>1, <2>1, <3>2 DEF Gathered, TaskInv, FaultsInv
  <2>3. fs \subseteq GateRobots
    OBVIOUS
  <2> HIDE DEF fs
  <2>4. s \in Starts /\ s.at = "planning" /\ s.faults = fs
    BY <1>1, <2>3 DEF Starts
  <2>5. /\ h \in Histories /\ h.faulty = history[t].faulty
        /\ h.steady = history[t].steady /\ h.overtaken = history[t].overtaken
    BY <1>1 DEF Histories
  <2> HIDE DEF s, h
  <2>6. start'[t] = s /\ history'[t] = h
    BY <1>1, <2>1
  <2>7. VerbsInv(t)'
    BY <2>4, <2>6 DEF VerbsInv
  <2>8. FaultsInv(t)'
    BY <2>2, <2>4, <2>5, <2>6 DEF FaultsInv
  <2>9. Idle # Sent
    BY DEF Idle, Sent
  <2>10. QED
    BY <2>1, <2>4, <2>5, <2>7, <2>8, <2>9, GateRoundKeeps DEF Rounds
<1>5. QED
  BY <1>2, <1>3, <1>4

LEMMA GateMotionKeeps ==
    ASSUME GateInv, NEW t \in GateTasks,
           GateRunMotion(t) \/ \E r \in GateRobots : GateCheckMotion(t, r)
    PROVE  GateInv'
<1>1. /\ motionCall \in [GateTasks -> MotionCalls] /\ TaskInv(t)
      /\ body \in [GateRobots -> Bodies] /\ catalog \in [GateRobots -> Versions]
      /\ \A u \in GateTasks : TaskInv(u) /\ Steady(u) \subseteq GateRobots
  BY DEF GateInv, GateTypes, Steady, Histories
<1>2. ASSUME UNCHANGED <<body, catalog, probe, start, history>>, start[t].at = "planning",
             NEW m \in MotionCalls, motionCall' = [motionCall EXCEPT ![t] = m],
             \A r \in Steady(t) :
                /\ m.at = "checked" /\ m.robot = r => m.points \in {0, body[r].motion}
                /\ m.at = "ran" /\ m.robot = r => m.points \in {0, m.ran}
      PROVE  GateInv'
  <2>1. GateTypes'
    BY <1>1, <1>2 DEF GateInv, GateTypes
  <2>2. motionCall'[t] = m /\ \A u \in GateTasks \ {t} : motionCall'[u] = motionCall[u]
    BY <1>1, <1>2
  <2>3. ASSUME NEW u \in GateTasks, u # t PROVE TaskInv(u)'
    BY <1>1, <1>2, <2>2, <2>3, GateOthersKept DEF TaskInv, MotionsInv
  <2>4. Steady(t)' = Steady(t)
    BY <1>2 DEF Steady
  <2>5. MotionsInv(t)'
    BY <1>1, <1>2, <2>2, <2>4 DEF TaskInv, MotionsInv
  <2>6. TaskInv(t)'
    BY <1>1, <1>2, <2>5 DEF TaskInv, ProbesInv, HasAnswer, VerbsInv, Able, FaultsInv
  <2>7. QED
    BY <2>1, <2>3, <2>6 DEF GateInv
<1>3. ASSUME NEW r \in GateRobots, GateCheckMotion(t, r) PROVE GateInv'
  <2> DEFINE m == [at |-> "checked", robot |-> r, points |-> Points(r)]
  <2>1. /\ UNCHANGED <<body, catalog, probe, start, history>> /\ start[t].at = "planning"
        /\ motionCall' = [motionCall EXCEPT ![t] = m]
    BY <1>3 DEF GateCheckMotion
  <2>2. m \in MotionCalls
    BY <1>1 DEF MotionCalls, Points
  <2>3. r \in Steady(t) => m.points \in {0, body[r].motion}
    BY <1>1, <2>1 DEF TaskInv, MotionsInv, Points
  <2>4. m.at = "checked" /\ m.robot = r
    OBVIOUS
  <2> HIDE DEF m
  <2>5. QED
    BY <1>2, <2>1, <2>2, <2>3, <2>4
<1>4. ASSUME GateRunMotion(t) PROVE GateInv'
  <2> DEFINE c == motionCall[t]
             b == body[c.robot]
             good == b.up /\ ~b.fault /\ b.motion # 0
             m == IF good THEN [at |-> "ran", robot |-> c.robot, points |-> c.points, ran |-> b.motion]
                  ELSE [at |-> "refused"]
  <2>1. /\ UNCHANGED <<body, catalog, probe, start, history>> /\ c.at = "checked"
        /\ motionCall' = [motionCall EXCEPT ![t] = m]
    BY <1>4 DEF GateRunMotion
  <2>2. start[t].at = "planning"
    BY <1>1, <2>1 DEF TaskInv
  <2>3. c.robot \in GateRobots /\ c.points \in Versions
    BY <1>1, <2>1 DEF MotionCalls
  <2>4. b.motion \in Versions
    BY <1>1, <2>3 DEF Bodies
  <2>5. m \in MotionCalls
    BY <2>3, <2>4 DEF MotionCalls
  <2>6. ASSUME NEW r \in Steady(t), m.at = "ran", m.robot = r PROVE m.points \in {0, m.ran}
    <3>1. r = c.robot /\ m.points = c.points /\ m.ran = b.motion
      BY <2>6
    <3>2. QED
      BY <1>1, <2>1, <3>1 DEF TaskInv, MotionsInv
  <2>7. m.at # "checked"
    OBVIOUS
  <2> HIDE DEF m
  <2>8. QED
    BY <1>2, <2>1, <2>2, <2>5, <2>6, <2>7
<1>5. QED
  BY <1>3, <1>4

\* A body changes, and the histories of all tasks with it.
LEMMA GateChangeKeeps ==
    ASSUME GateInv, NEW r \in GateRobots, NEW new \in Bodies, Change(r, new)
    PROVE  GateInv'
<1>1. /\ body' = [body EXCEPT ![r] = new] /\ body \in [GateRobots -> Bodies]
      /\ UNCHANGED <<catalog, probe, start, motionCall>>
  BY DEF Change, GateInv, GateTypes
<1>2. /\ body'[r] = new /\ \A q \in GateRobots \ {r} : body'[q] = body[q]
  BY <1>1
<1>3. \A t \in GateTasks : TaskInv(t) /\ history[t] \in Histories /\ start[t] \in Starts
  BY DEF GateInv, GateTypes
<1> DEFINE keep(t) == IF start[t].at # "verbs" THEN history[t].kept
                      ELSE {rv \in history[t].kept : \/ rv[1] # r \/ ~new.up
                                                    \/ new.verbs = GateUnknown \/ rv[2] \in new.verbs}
           stay(t) == IF new.motion = body[r].motion THEN history[t].steady ELSE history[t].steady \ {r}
           known(t) == IF start[t].at = "faults" /\ new.fault
                       THEN history[t].faulty \cup {r} ELSE history[t].faulty
           h(t) == [kept |-> keep(t), steady |-> stay(t), overtaken |-> history[t].overtaken,
                    faulty |-> known(t)]
<1>4. history' = [t \in GateTasks |-> h(t)]
  BY DEF Change
<1>5. \A t \in GateTasks : h(t) \in Histories
  <2> TAKE t \in GateTasks
  <2>1. keep(t) \subseteq GateRobots \X GateVerbs /\ stay(t) \subseteq GateRobots
        /\ known(t) \subseteq GateRobots /\ history[t].overtaken \subseteq GateRobots
    BY <1>3 DEF Histories
  <2> HIDE DEF keep, stay, known
  <2>2. QED
    BY <2>1 DEF Histories
<1>6. GateTypes'
  BY <1>1, <1>4, <1>5 DEF GateInv, GateTypes
<1>7. ASSUME NEW t \in GateTasks PROVE TaskInv(t)'
  <2>1. /\ history'[t].kept = keep(t) /\ history'[t].steady = stay(t)
        /\ history'[t].overtaken = history[t].overtaken /\ history'[t].faulty = known(t)
    BY <1>4
  <2>2. /\ ProbesInv(t) /\ MotionsInv(t) /\ VerbsInv(t) /\ FaultsInv(t)
        /\ motionCall[t].at # "none" => start[t].at = "planning"
    BY <1>3 DEF TaskInv
  <2>3. MotionsInv(t)'
    <3>1. \A q \in Steady(t)' : q \in Steady(t) /\ q \in GateRobots /\ body'[q].motion = body[q].motion
      BY <1>1, <1>2, <1>3, <2>1 DEF Steady, Histories
    <3>2. QED
      BY <1>1, <2>2, <3>1 DEF MotionsInv
  <2>4. VerbsInv(t)'
    <3>1. ASSUME start[t].at = "verbs", NEW q \in GateRobots, NEW v \in GateVerbs, <<q, v>> \in keep(t)
          PROVE  Able(q, v)' /\ <<q, v>> \in history[t].kept
      BY <1>2, <2>2, <3>1 DEF VerbsInv, Able
    <3>2. start[t].at = "faults" => keep(t) = history[t].kept
      OBVIOUS
    <3> HIDE DEF keep
    <3>3. QED
      BY <1>1, <2>1, <2>2, <3>1, <3>2 DEF VerbsInv
  <2>5. FaultsInv(t)'
    <3>1. history[t].faulty \subseteq known(t)
      OBVIOUS
    <3>2. ASSUME start[t].at = "faults", NEW q \in GateRobots, body'[q].fault = TRUE
          PROVE  q \in known(t)
      BY <1>2, <2>2, <3>2 DEF FaultsInv
    <3> HIDE DEF known
    <3>3. QED
      BY <1>1, <2>1, <2>2, <3>1, <3>2 DEF FaultsInv
  <2>6. ProbesInv(t)'
    BY <1>1, <2>2 DEF ProbesInv, HasAnswer
  <2>7. QED
    BY <1>1, <2>2, <2>3, <2>4, <2>5, <2>6 DEF TaskInv
<1>8. QED
  BY <1>6, <1>7 DEF GateInv

LEMMA GateInvStep == GateInv /\ [GateNext]_gateVars => GateInv'
<1> SUFFICES ASSUME GateInv, [GateNext]_gateVars PROVE GateInv'
  OBVIOUS
<1>1. ASSUME NEW r \in GateRobots, GateSwitch(r) \/ GateTeach(r) \/ GateBridge(r) \/ GateLatch(r)
      PROVE  GateInv'
  <2>1. body[r] \in Bodies
    BY DEF GateInv, GateTypes
  <2>2. CASE GateSwitch(r)
    <3>1. [body[r] EXCEPT !.up = ~@] \in Bodies
      BY <2>1 DEF Bodies
    <3>2. QED
      BY <2>2, <3>1, GateChangeKeeps DEF GateSwitch
  <2>3. ASSUME GateTeach(r) PROVE GateInv'
    <3>1. PICK v \in Versions, ok \in BOOLEAN :
              Change(r, [body[r] EXCEPT !.motion = v, !.readable = ok])
      BY <2>3 DEF GateTeach
    <3>2. [body[r] EXCEPT !.motion = v, !.readable = ok] \in Bodies
      BY <2>1 DEF Bodies
    <3>3. QED
      BY <3>1, <3>2, GateChangeKeeps
  <2>4. ASSUME GateBridge(r) PROVE GateInv'
    <3>1. PICK vs \in SUBSET GateVerbs : Change(r, [body[r] EXCEPT !.verbs = vs])
      BY <2>4 DEF GateBridge
    <3>2. [body[r] EXCEPT !.verbs = vs] \in Bodies
      BY <2>1 DEF Bodies, VerbSets
    <3>3. QED
      BY <3>1, <3>2, GateChangeKeeps
  <2>5. ASSUME GateLatch(r) PROVE GateInv'
    <3>1. /\ [body[r] EXCEPT !.fault = FALSE, !.verbs = GateVerbs] \in Bodies
          /\ [body[r] EXCEPT !.fault = TRUE, !.verbs = {}] \in Bodies
      BY <2>1 DEF Bodies, VerbSets
    <3>2. QED
      BY <2>5, <3>1, GateChangeKeeps DEF GateLatch
  <2>6. QED
    BY <1>1, <2>2, <2>3, <2>4, <2>5
<1>2. CASE UNCHANGED gateVars
  <2>1. \A t \in GateTasks : TaskInv(t)'
    BY <1>2 DEF gateVars, GateInv, TaskInv, ProbesInv, HasAnswer, MotionsInv, Steady, VerbsInv, Able,
                FaultsInv
  <2>2. QED
    BY <1>2, <2>1 DEF gateVars, GateInv, GateTypes
<1>3. QED
  BY <1>1, <1>2, GateStartKeeps, GateAnswersKeep, GateReadsKeep, GateMotionKeeps
     DEF GateNext, GateHarness

\* However robots come, go, latch and lose their bridges between the probes of a task:
\* what the Brain is not offered no robot could do all the while, and a robot it is told
\* to be in fault was in fault.
THEOREM OffersAreJustified == GateSpec => []OfferIsJustified
<1>1. GateSpec => []GateInv
  BY GateInvInit, GateInvStep, PTL DEF GateSpec
<1>2. QED
  BY <1>1, GateIsSafe, PTL

\* The joint values the envelope has checked are those the robot runs, for any number
\* of tasks, unless the motion was taught anew or an older refresh was under way.
THEOREM MotionsRunAsChecked == GateSpec => []CheckedIsRun
<1>1. GateSpec => []GateInv
  BY GateInvInit, GateInvStep, PTL DEF GateSpec
<1>2. QED
  BY <1>1, GateIsSafe, PTL

-----------------------------------------------------------------------------
(* The simulated robot, for any number of requests, objects, scenes and    *)
(* places.                                                                 *)

SimCallStates == {IdleCall}
    \cup [client : {"waiting", "aborting", "gaveUp"}, server : {"queued"}, req : Requests]
    \cup [client : {"waiting", "aborting"}, server : {"served"}, verdict : Outcomes \cup {"error"}]

WorldTypes ==
    /\ engine \in Engines /\ scene \in Scenes /\ ee \in Places
    /\ place \in [Objects -> Places]
    /\ grasped \in {0} \cup {BodyId[s][o] : s \in Scenes, o \in Objects}
    /\ gripper \in BOOLEAN /\ tracked \in BOOLEAN

SimInv == WorldTypes /\ simCall \in [SimCalls -> SimCallStates] /\ HeldTracksTip

LEMMA SimIsTyped == SimInv => TypeOKSim
<1> SUFFICES ASSUME SimInv PROVE TypeOKSim
  OBVIOUS
<1>1. ASSUME NEW c \in SimCalls
      PROVE  /\ simCall[c].client \in {"new", "waiting", "aborting", "gaveUp"}
             /\ simCall[c].server \in {"none", "queued", "served"}
             /\ simCall[c].client = "gaveUp" => simCall[c].server = "queued"
  <2>1. simCall[c] \in SimCallStates
    BY DEF SimInv
  <2>2. QED
    BY <2>1 DEF SimCallStates, IdleCall
<1>2. QED
  BY <1>1 DEF SimInv, WorldTypes, TypeOKSim

\* Where the verbs may leave the tip of the arm, and the objects.
LEMMA FloorIsPlace ==
    /\ \A s \in Spots : Floor(s) \in Places /\ Above(s) \in Places
    /\ [Objects -> {Floor(s) : s \in Spots}] \subseteq [Objects -> Places]
<1>1. \A s \in Spots : Floor(s) \in Places /\ Above(s) \in Places
  BY DEF Floor, Above, Places
<1>2. {Floor(s) : s \in Spots} \subseteq Places
  BY <1>1
<1> HIDE DEF Floor, Places
<1>3. QED
  BY <1>1, <1>2

LEMMA SimInvInit == SimInit => SimInv
<1> SUFFICES ASSUME SimInit PROVE SimInv
  OBVIOUS
<1>1. place \in [Objects -> Places] /\ ee \in Places
  BY FloorIsPlace, SimAssumption DEF SimInit
<1>2. WorldTypes
  <2>1. gripper \in BOOLEAN /\ tracked \in BOOLEAN
    BY DEF SimInit
  <2>2. engine \in Engines /\ scene \in Scenes /\ grasped = 0
    BY SimAssumption DEF SimInit
  <2>3. QED
    BY <1>1, <2>1, <2>2 DEF WorldTypes
<1>3. simCall \in [SimCalls -> SimCallStates]
  BY DEF SimInit, SimCallStates
<1>4. QED
  BY <1>2, <1>3 DEF SimInit, SimInv, HeldTracksTip

\* What an answer leaves of the request.
LEMMA SayKeeps ==
    ASSUME simCall \in [SimCalls -> SimCallStates], NEW c \in SimCalls,
           simCall[c].server = "queued", NEW out \in Outcomes \cup {"error"}, Say(c, out)
    PROVE  /\ simCall' \in [SimCalls -> SimCallStates]
           /\ \A d \in SimCalls \ {c} : simCall'[d] = simCall[d]
           /\ simCall'[c].server = "served" => simCall'[c].verdict = out
<1> DEFINE new == IF simCall[c].client = "gaveUp" THEN IdleCall
                  ELSE [client |-> simCall[c].client, server |-> "served", verdict |-> out]
<1>1. simCall' = [simCall EXCEPT ![c] = new]
  BY DEF Say
<1>2. simCall[c] \in SimCallStates
  OBVIOUS
<1>3. new \in SimCallStates
  BY <1>2 DEF SimCallStates, IdleCall
<1>4. new.server = "served" => new.verdict = out
  BY DEF IdleCall
<1> HIDE DEF new
<1>5. QED
  BY <1>1, <1>3, <1>4

LEMMA ReachIsTyped ==
    ASSUME NEW target \in Places, NEW m \in Reach(target)
    PROVE  m.ee \in Places /\ m.residual \in Outcomes
<1> QED
  BY DEF Reach, Outcomes

\* A grasp, whatever comes of it: the world after it, and what it answers.
LEMMA GraspKeeps ==
    ASSUME SimInv, NEW c \in SimCalls, NEW o \in Objects,
           simCall[c].server = "queued", SimGrasp(c, o)
    PROVE  /\ SimInv'
           /\ \A d \in SimCalls \ {c} : simCall'[d] = simCall[d]
           /\ engine = "mujoco" /\ BodyId[scene][o] # 0 /\ simCall'[c].server = "served"
                /\ simCall'[c].verdict = "failed" => grasped' = 0
<1>1. WorldTypes /\ simCall \in [SimCalls -> SimCallStates]
  BY DEF SimInv
<1>2. CASE engine # "mujoco" \/ BodyId[scene][o] = 0
  <2>1. Say(c, "failed") /\ UNCHANGED world
    BY <1>2 DEF SimGrasp
  <2>2. QED
    BY <1>1, <1>2, <2>1, SayKeeps DEF SimInv, WorldTypes, HeldTracksTip, Held, world, Outcomes
<1>3. CASE ~(engine # "mujoco" \/ BodyId[scene][o] = 0)
  <2> DEFINE stay == {[residual |-> "failed", ee |-> ee]}
             out(near, high) == IF near /\ high THEN "success" ELSE IF near THEN "partial" ELSE "failed"
  <2>1. PICK near \in BOOLEAN, high \in BOOLEAN,
             lift \in IF CanMove THEN Reach(Above(place[o].spot)) ELSE stay :
           /\ ee' = lift.ee /\ gripper' = TRUE
           /\ grasped' = IF near THEN BodyId[scene][o] ELSE SimRelease
           /\ place' = IF near /\ CanMove THEN Put(place, {o}, lift.ee) ELSE place
           /\ tracked' = TRUE /\ Say(c, out(near, high)) /\ UNCHANGED <<engine, scene>>
    <3>1. PICK down \in IF CanMove THEN Reach(Floor(place[o].spot)) ELSE stay,
                near \in BOOLEAN, high \in BOOLEAN :
             \E lift \in IF CanMove THEN Reach(Above(place[o].spot)) ELSE stay :
                /\ ee' = lift.ee /\ gripper' = TRUE
                /\ grasped' = IF near THEN BodyId[scene][o] ELSE SimRelease
                /\ place' = IF near /\ CanMove THEN Put(place, {o}, lift.ee) ELSE place
                /\ tracked' = TRUE /\ Say(c, out(near, high)) /\ UNCHANGED <<engine, scene>>
      BY <1>3, ZenonT(30) DEF SimGrasp
    <3>2. QED
      BY <3>1, SMTT(30)
  <2>2. place[o].spot \in Spots
    BY <1>1 DEF WorldTypes, Places
  <2>3. lift.ee \in Places
    BY <1>1, <2>2, ReachIsTyped, FloorIsPlace DEF WorldTypes
  <2>4. out(near, high) \in Outcomes
    BY DEF Outcomes
  <2>5. /\ simCall' \in [SimCalls -> SimCallStates]
        /\ \A d \in SimCalls \ {c} : simCall'[d] = simCall[d]
        /\ simCall'[c].server = "served" => simCall'[c].verdict = out(near, high)
    <3> HIDE DEF out
    <3> QED
      BY <1>1, <2>1, <2>4, SayKeeps
  <2>6. place' \in [Objects -> Places]
    BY <1>1, <2>1, <2>3 DEF WorldTypes, Put
  <2>7. WorldTypes'
    BY <1>1, <2>1, <2>3, <2>6, SMTT(30) DEF WorldTypes, SimRelease
  <2>8. HeldTracksTip'
    <3> SUFFICES ASSUME grasped' # 0, scene \in HasEe, NEW p \in Objects, BodyId[scene][p] = grasped'
                 PROVE  place'[p] = ee'
      BY <2>1 DEF HeldTracksTip, Held
    <3>1. near /\ BodyId[scene][p] = BodyId[scene][o] /\ CanMove
      BY <1>3, <2>1 DEF SimRelease, CanMove
    <3>2. p = o
      BY <1>1, <1>3, <3>1, SimAssumption DEF WorldTypes
    <3>3. QED
      BY <2>1, <3>1, <3>2 DEF Put
  <2>9. near => out(near, high) # "failed"
    OBVIOUS
  <2> HIDE DEF out
  <2>10. QED
    BY <2>1, <2>5, <2>7, <2>8, <2>9 DEF SimInv, SimRelease
<1>4. QED
  BY <1>2, <1>3

\* The other handlers.
LEMMA MoveKeeps ==
    ASSUME SimInv, NEW c \in SimCalls, NEW target \in Places,
           simCall[c].server = "queued", SimMove(c, target)
    PROVE  SimInv' /\ \A d \in SimCalls \ {c} : simCall'[d] = simCall[d]
<1>1. WorldTypes /\ simCall \in [SimCalls -> SimCallStates] /\ HeldTracksTip
  BY DEF SimInv
<1>2. CASE ~CanMove
  <2>1. Say(c, "failed") /\ UNCHANGED world
    BY <1>2 DEF SimMove
  <2>2. QED
    BY <1>1, <2>1, SayKeeps DEF SimInv, WorldTypes, HeldTracksTip, Held, world, Outcomes
<1>3. CASE CanMove /\ grasped # 0 /\ Held = {}
  <2>1. PICK out \in Outcomes \cup {"error"} : Say(c, out)
    BY <1>3 DEF SimMove
  <2>2. ee' \in Places /\ UNCHANGED <<engine, scene, place, grasped, gripper, tracked>>
    BY <1>3 DEF SimMove
  <2>3. WorldTypes' /\ HeldTracksTip'
    BY <1>1, <1>3, <2>2 DEF WorldTypes, HeldTracksTip, Held
  <2>4. QED
    BY <1>1, <2>1, <2>3, SayKeeps DEF SimInv
<1>4. CASE CanMove /\ ~(grasped # 0 /\ Held = {})
  <2>1. PICK m \in Reach(target) : ee' = m.ee /\ place' = Follow(place, m.ee) /\ Say(c, m.residual)
    BY <1>4 DEF SimMove
  <2>2. m.ee \in Places /\ m.residual \in Outcomes /\ UNCHANGED <<engine, scene, grasped, gripper, tracked>>
    BY <1>4, ReachIsTyped DEF SimMove
  <2>3. place' \in [Objects -> Places] /\ \A o \in Held : place'[o] = ee'
    BY <1>1, <2>1, <2>2 DEF WorldTypes, Follow, Put, Held
  <2>4. WorldTypes' /\ HeldTracksTip'
    BY <1>1, <2>1, <2>2, <2>3 DEF WorldTypes, HeldTracksTip, Held
  <2>5. QED
    BY <1>1, <2>1, <2>2, <2>4, SayKeeps DEF SimInv
<1>5. QED
  BY <1>2, <1>3, <1>4

LEMMA OthersKeep ==
    ASSUME SimInv, NEW c \in SimCalls, simCall[c].server = "queued",
           \/ SimApply(c) \/ SimHand(c, TRUE) \/ SimHand(c, FALSE) \/ SimReset(c)
           \/ \E s \in Scenes : SimLoadScene(c, s)
           \/ \E out \in {"failed", "error"} : Say(c, out) /\ UNCHANGED world
    PROVE  SimInv' /\ \A d \in SimCalls \ {c} : simCall'[d] = simCall[d]
<1>1. WorldTypes /\ simCall \in [SimCalls -> SimCallStates] /\ HeldTracksTip
  BY DEF SimInv
<1>2. PICK out \in Outcomes \cup {"error"} : Say(c, out)
  BY DEF SimApply, SimHand, SimReset, SimLoadScene, Outcomes
<1>3. simCall' \in [SimCalls -> SimCallStates] /\ \A d \in SimCalls \ {c} : simCall'[d] = simCall[d]
  BY <1>1, <1>2, SayKeeps
<1>4. WorldTypes'
  <2>1. CASE SimApply(c)
    <3>1. \A o \in Objects : place[o].spot \in Spots
      BY <1>1 DEF WorldTypes, Places
    <3>2. place' \in [Objects -> Places]
      BY <1>1, <2>1, <3>1, FloorIsPlace DEF SimApply, WorldTypes
    <3>3. QED
      BY <1>1, <2>1, <3>2 DEF SimApply, WorldTypes
  <2>2. CASE SimHand(c, TRUE) \/ SimHand(c, FALSE)
    <3>1. gripper' \in BOOLEAN /\ UNCHANGED <<engine, scene, ee, place, grasped, tracked>>
      BY <2>2 DEF SimHand
    <3>2. QED
      BY <1>1, <3>1 DEF WorldTypes
  <2>3. CASE SimReset(c)
    <3>1. place' \in [Objects -> Places] /\ ee' \in Places
      BY <2>3, FloorIsPlace, SimAssumption DEF SimReset
    <3>2. gripper' \in BOOLEAN /\ tracked' \in BOOLEAN /\ grasped' = 0 /\ UNCHANGED <<engine, scene>>
      BY <2>3 DEF SimReset
    <3>3. QED
      BY <1>1, <3>1, <3>2 DEF WorldTypes
  <2>4. CASE \E s \in Scenes : SimLoadScene(c, s)
    <3>1. place' \in [Objects -> Places] /\ ee' \in Places
      BY <2>4, FloorIsPlace, SimAssumption DEF SimLoadScene
    <3>2. tracked' \in BOOLEAN /\ scene' \in Scenes /\ UNCHANGED <<engine, grasped, gripper>>
      BY <2>4 DEF SimLoadScene
    <3>3. QED
      BY <1>1, <3>1, <3>2 DEF WorldTypes
  <2>5. CASE UNCHANGED world
    BY <1>1, <2>5 DEF world, WorldTypes
  <2>6. QED
    BY <2>1, <2>2, <2>3, <2>4, <2>5
<1>5. HeldTracksTip'
  BY <1>1 DEF HeldTracksTip, Held, SimApply, SimHand, SimReset, SimLoadScene, world
<1>6. QED
  BY <1>3, <1>4, <1>5 DEF SimInv

LEMMA ServeKeeps ==
    ASSUME SimInv, NEW c \in SimCalls, SimServe(c)
    PROVE  /\ SimInv'
           /\ \A d \in SimCalls \ {c} : simCall'[d] = simCall[d]
           /\ GraspFails(c) => grasped' = 0
<1> DEFINE r == simCall[c].req
<1>1. simCall[c].server = "queued" /\ r \in Requests
  <2>1. simCall[c] \in SimCallStates
    BY DEF SimInv
  <2>2. QED
    BY <2>1 DEF SimServe, SimCallStates, IdleCall
<1>2. CASE r.do = "reactive_grasp"
  <2>1. r.object \in Objects
    BY <1>1, <1>2 DEF Requests
  <2>2. SimGrasp(c, r.object)
    BY <1>2 DEF SimServe
  <2>3. QED
    BY <1>1, <2>1, <2>2, GraspKeeps DEF GraspFails
<1>3. CASE r.do # "reactive_grasp"
  <2>1. ~GraspFails(c)
    BY <1>3 DEF GraspFails
  <2>2. CASE r.do = "move_to_pose"
    <3>1. r.to \in Places
      BY <1>1, <2>2 DEF Requests
    <3>2. SimMove(c, r.to)
      BY <2>2 DEF SimServe
    <3>3. QED
      BY <1>1, <2>1, <3>1, <3>2, MoveKeeps
  <2>3. CASE r.do = "scene"
    <3>1. r.scene \in Scenes
      BY <1>1, <2>3 DEF Requests
    <3>2. SimLoadScene(c, r.scene)
      BY <2>3 DEF SimServe
    <3>3. QED
      BY <1>1, <2>1, <3>1, <3>2, OthersKeep
  <2>4. CASE r.do \in {"joint", "hand_close", "hand_open", "reset", "bad_scene", "other_verb"}
    <3>1. \/ SimApply(c) \/ SimHand(c, TRUE) \/ SimHand(c, FALSE) \/ SimReset(c)
          \/ \E out \in {"failed", "error"} : Say(c, out) /\ UNCHANGED world
      BY <2>4 DEF SimServe
    <3>2. QED
      BY <1>1, <2>1, <3>1, OthersKeep
  <2>5. QED
    BY <1>1, <1>3, <2>2, <2>3, <2>4 DEF Requests
<1>4. QED
  BY <1>2, <1>3

\* The client's side changes nothing of the world, and serves nothing.
LEMMA ClientKeeps ==
    ASSUME SimInv, NEW c \in SimCalls,
           SimDrop(c) \/ SimSend(c) \/ SimReturn(c) \/ SimTimeout(c) \/ SimAborted(c)
    PROVE  /\ SimInv'
           /\ \A d \in SimCalls \ {c} : simCall'[d] = simCall[d]
           /\ ~GraspFails(c)
<1>1. simCall[c] \in SimCallStates /\ simCall \in [SimCalls -> SimCallStates] /\ UNCHANGED world
  BY DEF SimInv, SimDrop, SimSend, SimReturn, SimTimeout, SimAborted
<1>2. WorldTypes' /\ HeldTracksTip'
  BY <1>1 DEF SimInv, WorldTypes, HeldTracksTip, Held, world
<1>3. PICK s \in SimCallStates :
          simCall' = [simCall EXCEPT ![c] = s]
          /\ (simCall[c].server = "queued" => s.server # "served")
  <2>1. CASE SimSend(c)
    <3>1. PICK q \in Requests :
              simCall' = [simCall EXCEPT ![c] = [client |-> "waiting", server |-> "queued", req |-> q]]
      BY <2>1 DEF SimSend
    <3>2. [client |-> "waiting", server |-> "queued", req |-> q] \in SimCallStates
      BY DEF SimCallStates
    <3>3. QED
      BY <3>1, <3>2
  <2>2. CASE SimReturn(c) \/ SimDrop(c)
    BY <2>2 DEF SimReturn, SimDrop, SimCallStates, IdleCall
  <2>3. CASE SimTimeout(c)
    <3> DEFINE s == [simCall[c] EXCEPT !.client = IF simCall[c].req.do \in Verbs THEN "aborting" ELSE "gaveUp"]
    <3>1. simCall[c].server = "queued" /\ simCall' = [simCall EXCEPT ![c] = s]
      BY <1>1, <2>3 DEF SimTimeout
    <3>2. s \in SimCallStates /\ s.server = "queued"
      BY <1>1, <3>1 DEF SimCallStates, IdleCall
    <3> HIDE DEF s
    <3>3. QED
      BY <3>1, <3>2
  <2>4. CASE SimAborted(c)
    <3> DEFINE s == IF simCall[c].server = "served" THEN IdleCall ELSE [simCall[c] EXCEPT !.client = "gaveUp"]
    <3>1. simCall[c].client = "aborting" /\ simCall' = [simCall EXCEPT ![c] = s]
      BY <1>1, <2>4 DEF SimAborted
    <3>2. s \in SimCallStates /\ s.server # "served"
      BY <1>1, <3>1 DEF SimCallStates, IdleCall
    <3> HIDE DEF s
    <3>3. QED
      BY <3>1, <3>2
  <2>5. QED
    BY <2>1, <2>2, <2>3, <2>4
<1>4. QED
  BY <1>1, <1>2, <1>3 DEF SimInv, GraspFails

LEMMA SimInvStep ==
    ASSUME SimInv, [SimNext]_simVars
    PROVE  SimInv' /\ \A c \in SimCalls : GraspFails(c) => grasped' = 0
<1>1. CASE UNCHANGED simVars
  BY <1>1 DEF simVars, world, SimInv, WorldTypes, HeldTracksTip, Held, GraspFails
<1>2. ASSUME NEW c \in SimCalls,
             \/ SimServe(c) \/ SimDrop(c) \/ SimSend(c) \/ SimReturn(c) \/ SimTimeout(c)
             \/ SimAborted(c)
      PROVE  SimInv' /\ \A d \in SimCalls : GraspFails(d) => grasped' = 0
  <2>1. /\ SimInv' /\ \A d \in SimCalls \ {c} : simCall'[d] = simCall[d]
        /\ GraspFails(c) => grasped' = 0
    BY <1>2, ServeKeeps, ClientKeeps
  <2>2. \A d \in SimCalls \ {c} : ~GraspFails(d)
    BY <2>1 DEF GraspFails
  <2>3. QED
    BY <2>1, <2>2
<1>3. QED
  BY <1>1, <1>2 DEF SimNext

\* Through any sequence of requests, timeouts and dropped requests: what the simulated
\* robot holds is at the tip of its arm as long as verbs move it, and after a grasp
\* that failed it holds nothing.
THEOREM GraspsAreKept == SimSpec => GraspIsKept
<1>1. SimInv /\ [SimNext]_simVars
        => [/\ TypeOKSim' /\ HeldTracksTip'
            /\ \A c \in SimCalls : GraspFails(c) => grasped' = 0]_simVars /\ SimInv'
  <2>1. SimInv => TypeOKSim
    BY SimIsTyped
  <2>2. ASSUME SimInv' PROVE TypeOKSim' /\ HeldTracksTip'
    BY <2>1, <2>2, PTL DEF SimInv
  <2>3. QED
    BY <2>2, SimInvStep
<1>2. QED
  BY <1>1, SimInvInit, PTL DEF SimSpec, GraspIsKept
=============================================================================
