--------------------------- MODULE MCLeaseManager ---------------------------
(* Two robots, two tasks, a handful of leases. *)
EXTENDS LeaseManager

CONSTANTS r1, r2, t1, t2, x1, x2, x3, x4

TwoRobots == {r1, r2}
TwoTasks == {t1, t2}
FourLeases == {x1, x2, x3, x4}
Terms == {0, 1, 2}
=============================================================================
