---------------------------- MODULE OrderedSets ----------------------------
(* Sets of numbers, walked through from the least on. *)
EXTENDS Naturals, FiniteSets

Increasing(s) == \A i, j \in DOMAIN s : i < j => s[i] < s[j]

InOrder(S) == CHOOSE s \in [1 .. Cardinality(S) -> S] : Increasing(s)

\* The elements of a sequence at the places in "at", as they stood.
Picked(s, at) == [k \in 1 .. Cardinality(at) |-> s[InOrder(at)[k]]]
=============================================================================
