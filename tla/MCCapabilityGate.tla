-------------------------- MODULE MCCapabilityGate --------------------------
EXTENDS CapabilityGate

\* A robot that advertises verbs vs and has been taught version m of the motion.
Arm(vs, m) == [up |-> TRUE, verbs |-> vs, motion |-> m, readable |-> TRUE, fault |-> FALSE]

\* The second robot is an old server that says nothing, or lacks a verb.
SomeGateFleets ==
    {[r \in GateRobots |-> IF r = 1 THEN Arm(GateVerbs, 1) ELSE second] :
        second \in {Arm(GateUnknown, 0), Arm({Taught}, 0)}}
SomeNeeds == [s \in GateSkills |-> GateVerbs \ {Taught}]
=============================================================================
