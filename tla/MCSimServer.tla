---------------------------- MODULE MCSimServer -----------------------------
(* One cube in the first scene, none in the second; the arm reaches two spots. *)
EXTENDS SimServer

SomeBodies == [s \in Scenes |-> [o \in Objects |-> IF s = FirstScene THEN 1 ELSE 0]]
=============================================================================
