-------------------------- MODULE MCVerbDeadlines --------------------------
(* The defaults of the code in units of five seconds, budgets on both sides *)
(* of every boundary, and every place of a blocking limiter.                *)
EXTENDS VerbDeadlines

SomeBudgets == {-3, 3, 5, 6, 8}

\* The chain of the workspace template, and one minute.
ShippedStack == {[timeout |-> TRUE, limiter |-> "none"]}
OneMinute == {12}
=============================================================================
