--------------------------- MODULE RobotOwnership ---------------------------
(***************************************************************************)
(* What leasing promises the fleet: at any time each robot has at most one *)
(* owner, and a robot goes from one owner to another only by becoming free *)
(* in between.                                                             *)
(***************************************************************************)
CONSTANTS Robots, Holders, Nobody

VARIABLE owner

Init == owner = [r \in Robots |-> Nobody]

\* A free robot is taken; its owner may confirm that it still wants it.
Take(r, h) ==
    /\ owner[r] \in {Nobody, h}
    /\ owner' = [owner EXCEPT ![r] = h]

\* Robots become free, several at once when time passes.
Free(rs) == owner' = [r \in Robots |-> IF r \in rs THEN Nobody ELSE owner[r]]

Next ==
    \/ \E r \in Robots, h \in Holders : Take(r, h)
    \/ \E rs \in SUBSET Robots : Free(rs)

Spec == Init /\ [][Next]_owner
=============================================================================
