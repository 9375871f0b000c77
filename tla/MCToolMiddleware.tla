-------------------------- MODULE MCToolMiddleware --------------------------
(* The chain of the workspace template, the chain of the docstring of         *)
(* config.py, and chains around a blocking limiter, a cache and a resolver.   *)
EXTENDS ToolMiddleware

SomeChains ==
    {<<"timeout", "retry", "circuit_breaker">>,
     <<"timeout", "retry", "circuit_breaker", "rate_limit", "cache">>,
     <<"trace", "timeout", "rate_limit_block", "cancel">>,
     <<"cache", "retry", "timeout">>,
     <<"timeout", "artifact_resolver">>}

\* A breaker and nothing else.
BreakerOnly == {<<"circuit_breaker">>}

TwoKeys == [c \in Calls |-> IF c = 3 THEN "b" ELSE "a"]
TwoRobots == [c \in Calls |-> IF c = 2 THEN "r2" ELSE "r1"]
TwoRefs == [c \in Calls |-> IF c = 1 THEN "x" ELSE "y"]
OnePerSecond == [b \in Buckets |-> 1]
SmallBurst == [b \in Buckets |-> IF b = Global THEN 3 ELSE 2]
=============================================================================
