------------------------- MODULE MCFleetCoordinator -------------------------
(* Two robots; shelf A can be inspected by the first one only, shelf B by *)
(* both, and the patrol needs a type the fleet lacks.                     *)
EXTENDS FleetCoordinator, TLC

CONSTANTS shelfA, shelfB, patrol, operator, x1, x2, x3

TwoRobots == {1, 2}
AllSubtasks == {shelfA, shelfB, patrol}
ThreeLeases == {x1, x2, x3}

CompatibleOf == [t \in Subtasks |->
    CASE t = shelfA -> Robots \cap {1}
      [] t = shelfB -> Robots
      [] OTHER -> {}]

\* Lease ids are only compared.
LeaseSymmetry == Permutations(LeaseIds)
=============================================================================
