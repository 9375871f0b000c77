--------------------------- MODULE SkillRegistry ----------------------------
(***************************************************************************)
(* The versions of skills, which of them is active, and the handles with   *)
(* which a swap is reverted.  Handles are values: the caller may keep one, *)
(* and use it late or twice.                                               *)
(***************************************************************************)
EXTENDS Naturals, Sequences, SequencesExt

CONSTANTS
    Skills,      \* skill objects
    Manifest,    \* the manifest of each: name, version, and whether it is valid
    NoVersion,   \* ""
    NoSkill,     \* None
    MaxSwaps     \* bound: calls of register, hotswap and rollback

SkillNames == {Manifest[s].name : s \in Skills}
SkillVersions == {Manifest[s].version : s \in Skills}

ASSUME RegistryAssumption ==
    /\ Manifest \in [Skills -> [name : STRING, version : STRING, valid : BOOLEAN]]
    /\ NoVersion \notin SkillVersions
    /\ NoSkill \notin Skills
    /\ MaxSwaps \in Nat

VARIABLES
    skills,    \* _store: the object registered under each name and version
    active,    \* _active
    handles,   \* the SwapHandles given out, oldest first
    orderly,   \* history: each swap brought a new version, each rollback the
               \* newest swap of its name not rolled back yet
    steps      \* history: calls so far

registryVars == <<skills, active, handles, orderly, steps>>

RegistryInit ==
    /\ skills = [n \in SkillNames |-> [v \in SkillVersions |-> NoSkill]]
    /\ active = [n \in SkillNames |-> NoVersion]
    /\ handles = <<>>
    /\ orderly = TRUE
    /\ steps = 0

\* The object found under a version; no object is registered under "".
At(n, v) == IF v = NoVersion THEN NoSkill ELSE skills[n][v]

\* resolve_brain_call, and get without a version.
Active(n) == At(n, active[n])

\* register: an invalid manifest raises and leaves the registry as it was.
Registered(s) ==
    LET m == Manifest[s] IN
    /\ skills' = IF m.valid THEN [skills EXCEPT ![m.name][m.version] = s] ELSE skills
    /\ active' = IF m.valid THEN [active EXCEPT ![m.name] = m.version] ELSE active

Handle(s, old) == [name |-> Manifest[s].name, old |-> old, new |-> Manifest[s].version,
                   was |-> Active(Manifest[s].name), open |-> TRUE]

\* (Mutant: the old version is read after the new one became active.)
SwapHandleLate(s) == Handle(s, Manifest[s].version)

\* The SwapHandle.  can_rollback is old # "".  (was and open are history.)
SwapHandle(s) == Handle(s, active[Manifest[s].name])

Counted == steps < MaxSwaps /\ steps' = steps + 1

Register(s) ==
    /\ Counted
    /\ Registered(s)
    /\ orderly' = (orderly /\ ~Manifest[s].valid)
    /\ UNCHANGED handles

Hotswap(s) ==
    LET m == Manifest[s] IN
    /\ Counted
    /\ Registered(s)
    /\ handles' = IF m.valid THEN Append(handles, SwapHandle(s)) ELSE handles
    /\ orderly' = (orderly /\ (m.valid => skills[m.name][m.version] = NoSkill))

OpenOf(n) == {i \in DOMAIN handles : handles[i].name = n /\ handles[i].open}

\* rollback: raises, and changes nothing, unless there is a version to revert to.
RolledBack(h) ==
    /\ h.old # NoVersion
    /\ skills[h.name][h.old] # NoSkill
    /\ active' = [active EXCEPT ![h.name] = h.old]

Rollback(i) ==
    /\ Counted
    /\ RolledBack(handles[i])
    /\ handles' = [handles EXCEPT ![i].open = FALSE]
    /\ orderly' = (orderly /\ i \in OpenOf(handles[i].name)
                           /\ \A j \in OpenOf(handles[i].name) : j <= i)
    /\ UNCHANGED skills

RegistryNext ==
    \/ \E s \in Skills : Register(s) \/ Hotswap(s)
    \/ \E i \in DOMAIN handles : Rollback(i)

RegistrySpec == RegistryInit /\ [][RegistryNext]_registryVars

TypeOKRegistry ==
    /\ skills \in [SkillNames -> [SkillVersions -> Skills \cup {NoSkill}]]
    /\ active \in [SkillNames -> SkillVersions \cup {NoVersion}]
    /\ \A i \in DOMAIN handles :
        LET h == handles[i] IN
        /\ h.name \in SkillNames /\ h.new \in SkillVersions
        /\ h.old # NoVersion => h.old \in SkillVersions /\ skills[h.name][h.old] # NoSkill

\* An active version is always one that is registered, under its own name and
\* version, with a valid manifest: get and resolve_brain_call find it, and what
\* they return reports the version it was found under, whatever registrations
\* failed before.
ActiveIsRegistered ==
    \A n \in SkillNames : active[n] # NoVersion =>
        /\ Active(n) # NoSkill
        /\ Manifest[Active(n)] = [name |-> n, version |-> active[n], valid |-> TRUE]

\* Swaps unwind: as long as each swap brings a version not registered before and
\* is rolled back only when no newer one of its skill is left, what runs is the
\* skill of the newest swap left, and the handles lead back, one object after the
\* other, to what ran before the first.  Any other use of the handles loses a
\* version: they name versions, not the state of the registry.
SwapsUnwind ==
    orderly => \A n \in SkillNames : \A i \in OpenOf(n) :
        LET later == {j \in OpenOf(n) : j > i}
            isNext(j) == \A k \in later : j <= k
            newer == IF later = {} THEN Active(n)
                     ELSE handles[CHOOSE j \in later : isNext(j)].was
        IN  /\ newer = At(n, handles[i].new)
            /\ At(n, handles[i].old) = handles[i].was

\* Whatever is registered, swapped and rolled back, and in whatever order, what
\* runs is registered, and swaps that are taken back in order leave no trace.
RegistryKeepsVersions == TypeOKRegistry /\ ActiveIsRegistered /\ SwapsUnwind
=============================================================================
