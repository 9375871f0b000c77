--------------------------- MODULE ToolMiddleware ---------------------------
(***************************************************************************)
(* The middleware chain around one registered tool.  Concurrent calls of   *)
(* that tool share the layers' state: the circuit breaker, the cache, the  *)
(* token buckets, the artifact store.  A call runs down the chain to the   *)
(* backend and its outcome runs up again.  The event loop runs one call    *)
(* until it awaits: the backend, a back-off or a token.                    *)
(***************************************************************************)
EXTENDS Naturals, FiniteSets, Sequences, SequencesExt

CONSTANTS
    Calls,      \* calls of the tool
    Chains,     \* chains of config.yaml, outermost layer first
    Key,        \* the arguments of each call, as the cache tells them apart
    Robots,
    RobotOf,    \* ctx.robot_id of each call
    Global,     \* the token bucket all robots share
    Artifacts,
    Ref,        \* the artifact each call's arguments refer to
    NoCall,     \* the event loop is idle
    Threshold, ResetS,            \* failure_threshold, reset_timeout_s
    MaxRetries, BackoffS, Jitter, \* max_retries, backoff_base_s, random.uniform
    TimeoutS,   \* ctx.timeout_s
    TtlS, MaxSize,                \* ttl_s, max_size of the cache
    Unit,       \* one token, in the units of Rate and Burst
    Rate,       \* what each bucket refills per second
    Burst,      \* what each bucket holds at most
    StoreCap,   \* capacity of the artifact store
    MaxStart,   \* bound: when the last call starts
    MaxTime     \* bound: when the clock stops, late enough for every timer

Buckets == Robots \cup {Global}

Layers == {"trace", "timeout", "retry", "cancel", "circuit_breaker", "cache",
           "rate_limit", "rate_limit_block", "artifact_resolver"}

\* A layer has one state here, so a chain has it at most once.
ASSUME MiddlewareAssumption ==
    /\ \A ch \in Chains :
          ch \in Seq(Layers) /\ \A i, j \in DOMAIN ch : ch[i] = ch[j] => i = j
    /\ {Threshold, Unit, MaxSize} \subseteq Nat \ {0}
    /\ {ResetS, MaxRetries, BackoffS, TimeoutS, TtlS, StoreCap, MaxStart, MaxTime}
         \subseteq Nat
    /\ Jitter \subseteq Nat
    /\ Rate \in [Buckets -> Nat \ {0}]
    /\ Burst \in [Buckets -> Nat]
    /\ RobotOf \in [Calls -> Robots]
    /\ IsFiniteSet(Artifacts)
    /\ Ref \in [Calls -> Artifacts]
    /\ NoCall \notin Calls
    /\ Global \notin Robots

VARIABLES
    tool,      \* the chain it was registered with, and inner.is_idempotent
    clock,
    running,   \* the call the event loop is running
    call,      \* what each call's coroutine holds
    cancelled, \* ctx.is_cancelled
    breaker,   \* CircuitBreakerMiddleware
    cache,     \* CacheMiddleware._cache, least recently used first
    bucket,    \* _global_bucket and _robot_buckets
    store,     \* InMemoryArtifactStore._items, least recently used first
    granted,   \* history: when each bucket gave a token
    uses       \* history: how many puts and gets, and the last of each artifact

shared == <<breaker, cache, bucket, store, granted, uses>>
vars == <<tool, clock, running, call, cancelled, shared>>

Outcomes == {"none", "ok", "error", "unreachable", "timeout", "cancelled",
             "tool_cancelled", "schema"}

\* What a call's coroutine holds: the layer it is in, the outcome on the way up,
\* the locals of the layers.
CallState ==
    [stage : {"idle", "down", "backend", "sleep", "up", "done"},
     at : Nat, out : Outcomes,
     sent : Nat,      \* requests it has put to the backend
     readAt : Nat,    \* when the backend may have read its data: at the request
     tries : Nat,     \* RetryMiddleware.invoke: attempt + 1
     until : Nat,     \* when its sleep ends
     since : Nat,     \* CacheMiddleware.invoke: now
     hit : BOOLEAN,   \* history: it was answered from the cache
     asks : Buckets,  \* the bucket a blocking caller waits for
     expires : Nat,   \* deadline of the timeout layer; 0 outside it
     killed : {"no", "timer", "task"}] \* what cancelled the coroutine

NewCall == [stage |-> "idle", at |-> 0, out |-> "none", sent |-> 0, readAt |-> 0,
            tries |-> 0, until |-> 0, since |-> 0, hit |-> FALSE,
            asks |-> Global, expires |-> 0, killed |-> "no"]

TypeOK ==
    /\ tool \in [chain : Chains, idempotent : BOOLEAN]
    /\ clock \in Nat
    /\ running \in Calls \cup {NoCall}
    /\ call \in [Calls -> CallState]
    /\ cancelled \in [Calls -> BOOLEAN]
    /\ breaker \in [state : {"closed", "open", "half_open"}, count : Nat, openedAt : Nat]
    /\ \A b \in Buckets : bucket[b] \in 0..Burst[b]
    /\ Len(cache) <= MaxSize

Init ==
    /\ tool \in [chain : Chains, idempotent : BOOLEAN]
    /\ clock = 0
    /\ running = NoCall
    /\ call = [c \in Calls |-> NewCall]
    /\ cancelled = [c \in Calls |-> FALSE]
    /\ breaker = [state |-> "closed", count |-> 0, openedAt |-> 0]
    /\ cache = <<>>
    /\ bucket = Burst
    /\ store = <<>>
    /\ granted = [b \in Buckets |-> <<>>]
    /\ uses = [count |-> 0, last |-> [a \in Artifacts |-> 0]]

-----------------------------------------------------------------------------
(* The way of a call. *)

chain == tool.chain
Has(layer) == \E i \in DOMAIN chain : chain[i] = layer
In(c, layer) == call[c].at \in DOMAIN chain /\ chain[call[c].at] = layer
Down(c, layer) == call[c].stage = "down" /\ In(c, layer)
Up(c, layer) == call[c].stage = "up" /\ In(c, layer)

\* What a layer does with its call: hand it to the inner one, answer it, hand the
\* outcome on, sleep.
Inner(r) == [r EXCEPT !.stage = "down", !.at = @ + 1]
Answer(r, out) == [r EXCEPT !.stage = "up", !.at = @ - 1, !.out = out]
Outer(r) == [r EXCEPT !.at = @ - 1]
Sleep(r, n) == [r EXCEPT !.stage = "sleep", !.until = clock + n]

Set(c, r) == call' = [call EXCEPT ![c] = r] /\ UNCHANGED <<tool, clock, cancelled>>
Runs(c, r) == Set(c, r) /\ running' = c
Yields(c, r) == Set(c, r) /\ running' = NoCall

Start(c) ==
    /\ running = NoCall
    /\ call[c].stage = "idle"
    /\ clock <= MaxStart
    /\ Has("artifact_resolver") => uses.last[Ref[c]] > 0
    /\ Runs(c, Inner(call[c]))
    /\ UNCHANGED shared

\* The tool posts its request and awaits the answer.
Send(c) ==
    /\ call[c].stage = "down"
    /\ call[c].at = Len(chain) + 1
    /\ Yields(c, [call[c] EXCEPT !.stage = "backend", !.sent = @ + 1, !.readAt = clock])
    /\ UNCHANGED shared

BackendAnswers(c) ==
    /\ running = NoCall
    /\ call[c].stage = "backend"
    /\ \E out \in {"ok", "error", "unreachable", "timeout"} : Runs(c, Answer(call[c], out))
    /\ UNCHANGED shared

Expired(c) == call[c].expires > 0 /\ clock >= call[c].expires

\* CancelledError in the await the coroutine is at: thrown by asyncio.wait_for's
\* timer, or by whoever cancels the task that runs the call.
Cancel(c, who) ==
    /\ running = NoCall
    /\ call[c].stage \in {"backend", "sleep"}
    /\ who = "timer" => Expired(c)
    /\ Runs(c, [Answer(call[c], "cancelled") EXCEPT !.killed = who])
    /\ UNCHANGED shared

CancelToken(c) ==
    /\ running = NoCall
    /\ ~cancelled[c]
    /\ call[c].stage # "done"
    /\ Has("cancel") \/ Has("retry")
    /\ cancelled' = [cancelled EXCEPT ![c] = TRUE]
    /\ UNCHANGED <<tool, clock, running, call, shared>>

\* A sleeper goes on where it slept: a waiter asks its bucket again, a retry
\* calls the inner tool again.
Wake(c) ==
    /\ running = NoCall
    /\ call[c].stage = "sleep"
    /\ clock >= call[c].until
    /\ LET woken == [call[c] EXCEPT !.stage = "down", !.until = 0]
       IN  Runs(c, IF In(c, "retry") THEN Inner(woken) ELSE woken)
    /\ UNCHANGED shared

\* The outermost layer returns or raises.
Return(c) ==
    /\ call[c].stage = "up"
    /\ call[c].at = 0
    /\ Yields(c, [NewCall EXCEPT !.stage = "done"])
    /\ UNCHANGED shared

-----------------------------------------------------------------------------
(* The layers without shared state. *)

Trace(c) ==
    /\ \/ Down(c, "trace") /\ Runs(c, Inner(call[c]))
       \/ Up(c, "trace") /\ Runs(c, Outer(call[c]))
    /\ UNCHANGED shared

\* (Mutant: the timer is never set.)
NoDeadline == 0

Deadline == clock + TimeoutS

\* The timer's own cancellation becomes a ToolTimeoutError.
Timeout(c) ==
    /\ \/ /\ Down(c, "timeout")
          /\ Runs(c, [Inner(call[c]) EXCEPT !.expires = Deadline])
       \/ /\ Up(c, "timeout")
          /\ Runs(c, [Outer(IF call[c].killed = "timer"
                            THEN [call[c] EXCEPT !.out = "timeout", !.killed = "no"]
                            ELSE call[c]) EXCEPT !.expires = 0])
    /\ UNCHANGED shared

CancelLayer(c) ==
    /\ \/ /\ Down(c, "cancel")
          /\ Runs(c, IF cancelled[c] THEN Answer(call[c], "tool_cancelled") ELSE Inner(call[c]))
       \/ Up(c, "cancel") /\ Runs(c, Outer(call[c]))
    /\ UNCHANGED shared

\* (Mutant: one attempt too many.)
RetryableOnceMore(c) ==
    /\ tool.idempotent
    /\ call[c].out \in {"unreachable", "timeout"}
    /\ call[c].tries <= MaxRetries + 1

\* (Mutant: the retry swallows a cancellation.)
RetryableSwallows(c) ==
    /\ tool.idempotent
    /\ call[c].out \in {"unreachable", "timeout", "cancelled"}
    /\ call[c].tries <= MaxRetries

Retryable(c) ==
    /\ tool.idempotent
    /\ call[c].out \in {"unreachable", "timeout"}
    /\ call[c].tries <= MaxRetries

\* A cancelled context takes the back-off away; it does not stop the retries.
Retry(c) ==
    LET again == [call[c] EXCEPT !.tries = @ + 1, !.out = "none"] IN
    /\ \/ Down(c, "retry") /\ Runs(c, [Inner(call[c]) EXCEPT !.tries = 1])
       \/ Up(c, "retry") /\ ~Retryable(c) /\ Runs(c, [Outer(call[c]) EXCEPT !.tries = 0])
       \/ Up(c, "retry") /\ Retryable(c) /\ cancelled[c] /\ Runs(c, Inner(again))
       \/ /\ Up(c, "retry") /\ Retryable(c) /\ ~cancelled[c]
          /\ \E j \in Jitter : Yields(c, Sleep(again, BackoffS * 2^(call[c].tries - 1) + j))
    /\ UNCHANGED shared

-----------------------------------------------------------------------------
(* The circuit breaker. *)

Cooling == breaker.state = "open" /\ clock - breaker.openedAt < ResetS

\* Every call that comes once the cooldown is over is a probe.
BreakerDown(c) ==
    /\ Down(c, "circuit_breaker")
    /\ Runs(c, IF Cooling THEN Answer(call[c], "unreachable") ELSE Inner(call[c]))
    /\ breaker' = IF breaker.state = "open" /\ ~Cooling
                  THEN [breaker EXCEPT !.state = "half_open"] ELSE breaker
    /\ UNCHANGED <<cache, bucket, store, granted, uses>>

OnFailure(b) ==
    IF b.count + 1 >= Threshold \/ b.state = "half_open"
    THEN [state |-> "open", count |-> b.count + 1, openedAt |-> clock]
    ELSE [b EXCEPT !.count = @ + 1]

\* Whatever the state is when the answer arrives; a result without success counts too.
OnSuccess(b) == [b EXCEPT !.count = 0, !.state = "closed"]

BreakerUp(c) ==
    /\ Up(c, "circuit_breaker")
    /\ Runs(c, Outer(call[c]))
    /\ breaker' = CASE call[c].out \in {"ok", "error"} -> OnSuccess(breaker)
                    [] call[c].out = "unreachable" -> OnFailure(breaker)
                    [] OTHER -> breaker
    /\ UNCHANGED <<cache, bucket, store, granted, uses>>

-----------------------------------------------------------------------------
(* The rate limiter. *)

\* _refill, which the code defers to the next use of the bucket.
Refill(b) == IF bucket[b] + Rate[b] > Burst[b] THEN Burst[b] ELSE bucket[b] + Rate[b]

Take(bs) ==
    /\ bucket' = [b \in Buckets |-> IF b \in bs THEN bucket[b] - Unit ELSE bucket[b]]
    /\ granted' = [b \in Buckets |-> IF b \in bs THEN Append(granted[b], clock) ELSE granted[b]]

\* The global token is spent before the robot's bucket is asked.
RateLimit(c) ==
    LET has == {b \in {Global, RobotOf[c]} : bucket[b] >= Unit}
    IN  /\ \/ Up(c, "rate_limit") /\ Runs(c, Outer(call[c])) /\ UNCHANGED <<bucket, granted>>
           \/ /\ Down(c, "rate_limit")
              /\ Runs(c, IF {Global, RobotOf[c]} \subseteq has
                         THEN Inner(call[c]) ELSE Answer(call[c], "unreachable"))
              /\ Take(IF Global \in has THEN has ELSE {})
        /\ UNCHANGED <<breaker, cache, store, uses>>

\* block=True: each bucket is waited for in turn.  A sleep lasts until the bucket
\* holds a token, if no other waiter takes it first.
RateLimitBlock(c) ==
    LET b == call[c].asks
        wait == (Unit - bucket[b] + Rate[b] - 1) \div Rate[b]
        here == Down(c, "rate_limit_block")
    IN  /\ \/ /\ \/ here /\ bucket[b] < Unit /\ Yields(c, Sleep(call[c], wait))
                 \/ Up(c, "rate_limit_block") /\ Runs(c, Outer(call[c]))
              /\ UNCHANGED <<bucket, granted>>
           \/ /\ here /\ bucket[b] >= Unit
              /\ Take({b})
              /\ Runs(c, IF b = Global THEN [call[c] EXCEPT !.asks = RobotOf[c]]
                         ELSE [Inner(call[c]) EXCEPT !.asks = Global])
        /\ UNCHANGED <<breaker, cache, store, uses>>

-----------------------------------------------------------------------------
(* The cache. *)

\* The keys of the dict differ.
At(k) == {i \in DOMAIN cache : cache[i].key = k}
Without(k) ==
    IF At(k) = {} THEN cache ELSE RemoveAt(cache, CHOOSE i \in At(k) : TRUE)
Fresh(k) == {i \in At(k) : clock - cache[i].at < TtlS}

\* A fresh entry answers and becomes the most recently used; an old one goes.
CacheDown(c) ==
    LET k == Key[c] IN
    /\ Down(c, "cache")
    /\ \/ ~tool.idempotent /\ Runs(c, Inner(call[c])) /\ UNCHANGED cache
       \/ /\ tool.idempotent
          /\ \E i \in Fresh(k) :
               /\ Runs(c, [Answer(call[c], "ok") EXCEPT !.readAt = cache[i].readAt, !.hit = TRUE])
               /\ cache' = Append(Without(k), cache[i])
       \/ /\ tool.idempotent /\ Fresh(k) = {}
          /\ Runs(c, [Inner(call[c]) EXCEPT !.since = clock])
          /\ cache' = Without(k)
    /\ UNCHANGED <<breaker, bucket, store, granted, uses>>

\* (Mutant: an entry is dated when the answer arrives.)
EntryDatedLate(c) == [key |-> Key[c], readAt |-> call[c].readAt, at |-> clock]

Entry(c) == [key |-> Key[c], readAt |-> call[c].readAt, at |-> call[c].since]

\* At its limit the cache gives up its oldest entry, even to overwrite another.
Fill(c) ==
    LET kept == IF Len(cache) >= MaxSize THEN Tail(cache) ELSE cache
    IN  IF \E i \in DOMAIN kept : kept[i].key = Key[c]
        THEN [i \in DOMAIN kept |-> IF kept[i].key = Key[c] THEN Entry(c) ELSE kept[i]]
        ELSE Append(kept, Entry(c))

CacheUp(c) ==
    /\ Up(c, "cache")
    /\ Runs(c, [Outer(call[c]) EXCEPT !.since = 0])
    /\ cache' = IF tool.idempotent /\ call[c].out = "ok" THEN Fill(c) ELSE cache
    /\ UNCHANGED <<breaker, bucket, store, granted, uses>>

\* invalidate(), with arguments and without.
Invalidate ==
    /\ running = NoCall
    /\ cache # <<>>
    /\ cache' \in {<<>>} \cup {Without(Key[c]) : c \in Calls}
    /\ UNCHANGED <<tool, clock, running, call, cancelled, breaker, bucket, store, granted, uses>>

-----------------------------------------------------------------------------
(* The artifact store and the resolver in front of the tools that take a reference. *)

\* move_to_end; put and get both end with it.
Touch(a) ==
    Append(RemoveAt(store, CHOOSE i \in DOMAIN store : store[i] = a), a)

Use(a) == uses' = [count |-> uses.count + 1,
                   last |-> [uses.last EXCEPT ![a] = uses.count + 1]]

\* put: a producing tool stores an artifact under an id of its own.
Put(a) ==
    /\ running = NoCall
    /\ Has("artifact_resolver")
    /\ uses.last[a] = 0
    /\ store' = IF Len(store) >= StoreCap THEN Tail(Append(store, a)) ELSE Append(store, a)
    /\ Use(a)
    /\ UNCHANGED <<tool, clock, running, call, cancelled, breaker, cache, bucket, granted>>

\* get: a reference that outlived its artifact is refused before the backend sees it.
ResolveRef(c) ==
    LET a == Ref[c] IN
    /\ \/ Up(c, "artifact_resolver") /\ Runs(c, Outer(call[c])) /\ UNCHANGED <<store, uses>>
       \/ /\ Down(c, "artifact_resolver") /\ Contains(store, a)
          /\ Runs(c, Inner(call[c]))
          /\ store' = Touch(a)
          /\ Use(a)
       \/ /\ Down(c, "artifact_resolver") /\ ~Contains(store, a)
          /\ Runs(c, Answer(call[c], "schema"))
          /\ UNCHANGED <<store, uses>>
    /\ UNCHANGED <<breaker, cache, bucket, granted>>

-----------------------------------------------------------------------------

Due(c) ==
    \/ call[c].stage \in {"backend", "sleep"} /\ Expired(c)
    \/ call[c].stage = "sleep" /\ clock >= call[c].until

\* Time passes while the loop is idle and no timer is due.
Tick ==
    /\ running = NoCall
    /\ clock < MaxTime
    /\ \A c \in Calls : ~Due(c)
    /\ clock' = clock + 1
    /\ bucket' = [b \in Buckets |-> Refill(b)]
    /\ UNCHANGED <<tool, running, call, cancelled, breaker, cache, store, granted, uses>>

\* What the loop does before it turns to another call.
Step(c) ==
    \/ Trace(c) \/ Timeout(c) \/ CancelLayer(c) \/ Retry(c) \/ BreakerDown(c) \/ BreakerUp(c)
    \/ RateLimit(c) \/ RateLimitBlock(c) \/ CacheDown(c) \/ CacheUp(c) \/ ResolveRef(c)
    \/ Send(c) \/ Return(c)

Next ==
    \/ \E c \in Calls : \/ Start(c) \/ BackendAnswers(c) \/ CancelToken(c) \/ Wake(c) \/ Step(c)
                        \/ Cancel(c, "timer") \/ Cancel(c, "task")
    \/ \E a \in Artifacts : Put(a)
    \/ Invalidate
    \/ Tick

Spec == Init /\ [][Next]_vars

\* The loop runs what is ready, timers fire and time passes; backends owe nothing.
FairSpec ==
    /\ Spec
    /\ WF_vars(Tick)
    /\ \A c \in Calls : WF_vars(Step(c)) /\ WF_vars(Wake(c)) /\ WF_vars(Cancel(c, "timer"))

-----------------------------------------------------------------------------
(* Properties *)

\* In whatever order the calls it let through answer, the circuit does not stay
\* closed once as many failures as the threshold followed the last success.
BreakerTrips == breaker.state = "closed" => breaker.count < Threshold

\* A cached answer was read by the backend less than the ttl ago, even when it
\* took its time to arrive or an invalidation ran meanwhile.
CacheFresh ==
    \A c \in Calls : call[c].hit /\ call[c].stage = "up" => clock - call[c].readAt < TtlS

\* In no stretch of time does a bucket grant more than its burst and what the
\* stretch refills.
RateWindow ==
    \A b \in Buckets : \A i, j \in DOMAIN granted[b] :
        i <= j => (j - i + 1) * Unit <= Burst[b] + Rate[b] * (granted[b][j] - granted[b][i])

\* However the layers are stacked, a call that must not be repeated reaches the
\* backend at most once, and any other at most max_retries times more.
SendsBounded ==
    \A c \in Calls : call[c].sent <= (IF tool.idempotent THEN MaxRetries + 1 ELSE 1)

\* The store holds exactly the artifacts that were produced or resolved last.
StoreKeepsRecent ==
    LET newer(a) == {b \in Artifacts : uses.last[b] > uses.last[a]}
    IN  \A a \in Artifacts : uses.last[a] > 0 =>
            (Contains(store, a) <=> Cardinality(newer(a)) < StoreCap)

\* What concurrent calls share, in whatever order they answer: the circuit opens in
\* time, nothing older than the ttl is served, no bucket gives more than it holds,
\* what was used last stays in the store.
SharedStateSound == TypeOK /\ BreakerTrips /\ CacheFresh /\ RateWindow /\ StoreKeepsRecent

\* The chain has a breaker, and below it no layer that waits or repeats.
BreakerIsLast ==
    \E i \in DOMAIN chain :
        /\ chain[i] = "circuit_breaker"
        /\ \A j \in DOMAIN chain : j > i => chain[j] \notin {"retry", "rate_limit_block"}

\* A coroutine that its timer or its task has cancelled puts nothing more to the
\* backend, though a retry is above it, and while the circuit cools down nobody
\* does.
SendsStop ==
    [][\A c \in Calls : call[c].killed # "no" \/ (BreakerIsLast /\ Cooling)
          => call'[c].sent <= call[c].sent]_vars

\* Under a timeout every call ends, though the backend never answers.
CallsEnd ==
    \A c \in Calls : Has("timeout") /\ call[c].stage = "down" ~> call[c].stage = "done"

(* What the source says of the breaker, checked as it stands. *)

\* circuit_breaker.py:20: an open circuit is left one way only, "(reset_timeout_s
\* elapsed) -> HALF_OPEN": no call that was let through before it opened closes it.
BreakerHeldOpen ==
    [][breaker.state = "open" /\ breaker'.state # "open"
          => breaker'.state = "half_open" /\ ~Cooling]_vars
=============================================================================
