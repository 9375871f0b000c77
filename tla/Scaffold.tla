------------------------------ MODULE Scaffold ------------------------------
(***************************************************************************)
(* The plan and the self-evaluations a Brain keeps across its turns, and   *)
(* what of them opens the next task of a robot.  The tools are registered  *)
(* once under their names; the stores behind them are one per robot.       *)
(***************************************************************************)
EXTENDS Naturals, Sequences, SequencesExt, OrderedSets

CONSTANTS
    ScRobots,
    ScWrites,       \* the lists of raw steps a Brain may hand to the plan tool
    ScEntries,      \* the raw self-evaluations it may append
    MaxScStores,    \* bound: stores made
    MaxScCalls      \* bound: calls of the two tools

PlanStatuses == {"pending", "in_progress", "completed", "failed", "skipped"}
Verdicts == {"pass", "warn", "fail"}

\* "" is a field that is missing or blank; a status or a verdict may be any text.
ASSUME ScaffoldAssumption ==
    /\ ScWrites \subseteq Seq([id : STRING, description : STRING, status : STRING])
    /\ ScEntries \subseteq [target : STRING, verdict : STRING]
    /\ MaxScStores \in Nat /\ MaxScCalls \in Nat

VARIABLES
    planOf, reflectionOf,       \* scaffold_stores: the stores of each robot, 0 for none
    planTool, reflectionTool,   \* the stores behind the registered tools
    plans, entries,             \* what each store holds, in the order they were made
    merging,                    \* history: the last write, if it was a merge
    calls                       \* history: calls so far

scVars == <<planOf, reflectionOf, planTool, reflectionTool, plans, entries, merging, calls>>

NotMerged == [store |-> 0, old |-> <<>>, new |-> <<>>]

ScaffoldInit ==
    /\ planOf = [r \in ScRobots |-> 0] /\ reflectionOf = [r \in ScRobots |-> 0]
    /\ planTool = 0 /\ reflectionTool = 0
    /\ plans = <<>> /\ entries = <<>>
    /\ merging = NotMerged
    /\ calls = 0

-----------------------------------------------------------------------------
(* inject_cognitive_scaffold *)

NeedsPlan(r) == planOf[r] = 0

\* A tool registered under a name takes the place of the one before.
ScaffoldInject(r, nativeReflection) ==
    /\ Len(plans) < MaxScStores
    /\ IF NeedsPlan(r)
       THEN /\ plans' = Append(plans, <<>>)
            /\ planTool' = Len(plans) + 1
            /\ planOf' = [planOf EXCEPT ![r] = Len(plans) + 1]
       ELSE UNCHANGED <<plans, planTool, planOf>>
    /\ IF ~nativeReflection /\ reflectionOf[r] = 0
       THEN /\ entries' = Append(entries, <<>>)
            /\ reflectionTool' = Len(entries) + 1
            /\ reflectionOf' = [reflectionOf EXCEPT ![r] = Len(entries) + 1]
       ELSE UNCHANGED <<entries, reflectionTool, reflectionOf>>
    /\ UNCHANGED <<merging, calls>>

-----------------------------------------------------------------------------
(* The plan *)

Id(text) == IF text = "" THEN "?" ELSE text

\* _dedupe: the last step of each id, where it stood.
Deduped(steps) ==
    LET isLast(i) == \A j \in DOMAIN steps : j > i => Id(steps[j].id) # Id(steps[i].id)
    IN  Picked(steps, {i \in DOMAIN steps : isLast(i)})

\* _validate_step: what is missing gets its default.
ValidStep(raw) ==
    [id |-> Id(raw.id),
     description |-> IF raw.description = "" THEN "(no description)" ELSE raw.description,
     status |-> IF raw.status \in PlanStatuses THEN raw.status ELSE "pending"]

Ids(steps) == {steps[i].id : i \in DOMAIN steps}

\* (Mutant: the steps written come first.)
MergedFirst(old, new) == new \o Picked(old, {i \in DOMAIN old : old[i].id \notin Ids(new)})

\* A merge updates the steps it names in place and appends the others.  The steps
\* are validated by then, so what was not given is overwritten by its default.
Merged(old, new) ==
    LET update(s) == IF s.id \in Ids(new) THEN CHOOSE n \in ToSet(new) : n.id = s.id ELSE s
    IN  [i \in DOMAIN old |-> update(old[i])]
            \o Picked(new, {i \in DOMAIN new : new[i].id \notin Ids(old)})

Called == calls < MaxScCalls /\ calls' = calls + 1

PlanWrite(raw, merge) ==
    /\ Called
    /\ planTool # 0
    /\ LET new == [i \in DOMAIN Deduped(raw) |-> ValidStep(Deduped(raw)[i])] IN
       /\ plans' = [plans EXCEPT ![planTool] = IF merge THEN Merged(@, new) ELSE new]
       /\ merging' = IF merge THEN [store |-> planTool, old |-> plans[planTool], new |-> new]
                      ELSE NotMerged
    /\ UNCHANGED <<planOf, reflectionOf, planTool, reflectionTool, entries>>

\* format_for_injection: the steps that are neither completed nor skipped.
PlanShown(store) ==
    IF store = 0 THEN <<>>
    ELSE SelectSeq(plans[store], LAMBDA s : s.status \notin {"completed", "skipped"})

-----------------------------------------------------------------------------
(* The self-evaluations *)

\* _validate: whatever is no verdict is a failure.
ValidEntry(raw) == [target |-> Id(raw.target),
                    verdict |-> IF raw.verdict \in Verdicts THEN raw.verdict ELSE "fail"]

Reflect(raw) ==
    /\ Called
    /\ reflectionTool # 0
    /\ entries' = [entries EXCEPT ![reflectionTool] = Append(@, ValidEntry(raw))]
    /\ UNCHANGED <<planOf, reflectionOf, planTool, reflectionTool, plans, merging>>

\* The dict that format_for_injection fills from the log: an entry by its target.
Latest(log, t) ==
    CHOOSE i \in DOMAIN log : log[i].target = t /\ \A j \in DOMAIN log : log[j].target = t => j <= i

ReflectionShown(store) ==
    IF store = 0 THEN {}
    ELSE LET log == entries[store] IN
         {t \in {log[i].target : i \in DOMAIN log} : log[Latest(log, t)].verdict # "pass"}

ScaffoldNext ==
    \/ \E r \in ScRobots, native \in BOOLEAN : ScaffoldInject(r, native)
    \/ \E raw \in ScWrites, merge \in BOOLEAN : PlanWrite(raw, merge)
    \/ \E raw \in ScEntries : Reflect(raw)

ScaffoldSpec == ScaffoldInit /\ [][ScaffoldNext]_scVars

-----------------------------------------------------------------------------
TypeOKScaffold ==
    /\ \A r \in ScRobots : planOf[r] \in 0 .. Len(plans)
                           /\ reflectionOf[r] \in 0 .. Len(entries)
    /\ planTool \in 0 .. Len(plans) /\ reflectionTool \in 0 .. Len(entries)
    /\ \A k \in DOMAIN plans : \A i \in DOMAIN plans[k] : plans[k][i].status \in PlanStatuses
    /\ \A k \in DOMAIN entries : \A i \in DOMAIN entries[k] : entries[k][i].verdict \in Verdicts
    /\ calls \in 0 .. MaxScCalls

\* A step is found by its id, however the Brain repeats or leaves out ids.
PlanIdsUnique ==
    \A k \in DOMAIN plans : \A i, j \in DOMAIN plans[k] :
        plans[k][i].id = plans[k][j].id => i = j

\* A merge drops no step, keeps their order and leaves those it does not name as
\* they were; the others it names come after them.
MergeKeepsTheRest ==
    \A i \in DOMAIN merging.old :
        LET old == merging.old[i]
            now == plans[merging.store][i]
        IN  now.id = old.id /\ (old.id \notin Ids(merging.new) => now = old)

\* A target whose evaluation failed is put before the Brain at the start of the
\* robot's tasks until an evaluation passes it, and not after that.
FailureIsTold ==
    \A r \in ScRobots : reflectionOf[r] # 0 =>
        LET log == entries[reflectionOf[r]] IN \A i \in DOMAIN log :
            (\A j \in i + 1 .. Len(log) : log[j].target # log[i].target)
                => (log[i].target \in ReflectionShown(reflectionOf[r]) <=> log[i].verdict # "pass")

\* Where one robot has a scaffold, what the Brain writes is what its next task is
\* opened with, however often the scaffold is injected.  (With a second robot the
\* tools write to its stores, and the first keeps being shown what it had.)
ScaffoldIsOwn ==
    \A r \in ScRobots :
        (\A q \in ScRobots \ {r} : planOf[q] = 0) /\ planOf[r] # 0
            => /\ PlanShown(planOf[r]) = PlanShown(planTool)
               /\ ReflectionShown(reflectionOf[r]) = ReflectionShown(reflectionTool)

\* However the Brain writes its plan and judges its work, over any number of calls
\* and tasks, it finds it again: steps by their ids, and failures until they pass.
ScaffoldIsKept ==
    TypeOKScaffold /\ PlanIdsUnique /\ MergeKeepsTheRest /\ FailureIsTold /\ ScaffoldIsOwn
=============================================================================
