------------------------ MODULE ToolMiddlewareProofs ------------------------
(***************************************************************************)
(* What concurrent calls share stays sound and what a call sends stays     *)
(* bounded, for any number of calls, any chain of the layers, and any      *)
(* thresholds, limits, sizes and time-outs.                                *)
(***************************************************************************)
EXTENDS ToolMiddleware, FiniteSetTheorems, SequenceTheorems, TLAPS

TypeInv ==
    /\ tool \in [chain : Chains, idempotent : BOOLEAN]
    /\ clock \in Nat
    /\ running \in Calls \cup {NoCall}
    /\ call \in [Calls -> CallState]
    /\ cancelled \in [Calls -> BOOLEAN]

-----------------------------------------------------------------------------
(* What holds of each call *)

\* Where a call can be, and that the event loop runs it whenever it is on its way.
Placed(c) ==
    LET r == call[c] IN
        /\ r.stage \in {"idle", "done"} => r = [NewCall EXCEPT !.stage = r.stage]
        /\ r.stage = "down" => r.at \in 1 .. Len(chain) + 1
        /\ r.stage = "backend" => r.at = Len(chain) + 1
        /\ r.stage = "sleep" => In(c, "retry") \/ In(c, "rate_limit_block")
        /\ r.stage = "up" => r.at \in 0 .. Len(chain)
        /\ r.stage \in {"down", "up"} <=> running = c

\* The retry layer has handed the call on and not had it back.
UnderRetry(c) ==
    \E i \in DOMAIN chain :
        /\ chain[i] = "retry"
        /\ i < call[c].at \/ (i = call[c].at /\ call[c].stage \in {"up", "sleep"})

MaxSends == IF tool.idempotent THEN MaxRetries + 1 ELSE 1

\* Below the retry layer a call has sent once per attempt at most, above it not yet
\* or no more than the attempts allow.
SendsInv(c) ==
    LET r == call[c] IN
        /\ r.stage \in {"down", "sleep"} =>
              IF UnderRetry(c) THEN r.tries \in 1 .. MaxSends /\ r.sent < r.tries
                               ELSE r.sent = 0
        /\ r.stage \in {"backend", "up"} =>
              IF UnderRetry(c) THEN r.tries \in 1 .. MaxSends /\ r.sent <= r.tries
                               ELSE r.sent <= MaxSends

UnderCache(c) == \E i \in DOMAIN chain : chain[i] = "cache" /\ i <= call[c].at

\* The backend reads after the cache has looked.
ReadInv(c) ==
    LET r == call[c] IN
        /\ r.since <= clock
        /\ r.stage = "backend" => r.since <= r.readAt
        /\ r.stage = "up" /\ r.out = "ok" /\ UnderCache(c) => r.since <= r.readAt

HitInv(c) ==
    LET r == call[c] IN
        r.hit => r.stage = "up" /\ r.out = "ok" /\ clock - r.readAt < TtlS

KilledInv(c) ==
    LET r == call[c] IN r.killed # "no" => r.stage = "up" /\ r.out = "cancelled"

LastBreaker(i) ==
    /\ chain[i] = "circuit_breaker"
    /\ \A j \in DOMAIN chain : j > i => chain[j] \notin {"retry", "rate_limit_block"}

\* Below such a breaker a call runs through to the backend without a pause.
CoolInv(c) ==
    LET r == call[c] IN
        \A i \in DOMAIN chain : LastBreaker(i) =>
            /\ r.stage = "down" /\ r.at > i => ~Cooling
            /\ r.stage = "sleep" => r.at <= i

CallInv(c) ==
    Placed(c) /\ SendsInv(c) /\ ReadInv(c) /\ HitInv(c) /\ KilledInv(c) /\ CoolInv(c)

-----------------------------------------------------------------------------
(* What holds of the shared state *)

BreakerInv ==
    /\ breaker \in [state : {"closed", "open", "half_open"}, count : Nat, openedAt : Nat]
    /\ BreakerTrips

\* No entry is dated later than its data.
CacheEntry ==
    {e \in [key : {Key[c] : c \in Calls}, readAt : Nat, at : Nat] : e.at <= e.readAt}

CacheInv == cache \in Seq(CacheEntry) /\ Len(cache) <= MaxSize

\* The burst and what d seconds refill cover n tokens and a level.
Fits(n, level, burst, rate, d) == n * Unit + level <= burst + rate * d

\* What a bucket gave since any of its grants, and what it holds now, is covered.
Covered(g, level, burst, rate, now) ==
    \A i \in DOMAIN g :
        /\ g[i] <= now
        /\ Fits(Len(g) - i + 1, level, burst, rate, now - g[i])

InWindow(g, burst, rate) ==
    \A i, j \in DOMAIN g : i <= j => Fits(j - i + 1, 0, burst, rate, g[j] - g[i])

LevelInv(b) == Covered(granted[b], bucket[b], Burst[b], Rate[b], clock)
WindowInv(b) == InWindow(granted[b], Burst[b], Rate[b])

RateInv ==
    /\ bucket \in [Buckets -> Nat]
    /\ granted \in [Buckets -> Seq(Nat)]
    /\ \A b \in Buckets : bucket[b] <= Burst[b] /\ LevelInv(b) /\ WindowInv(b)

\* The store is in the order of last use, and what it lacks was used before all of it.
StoreInv ==
    /\ store \in Seq(Artifacts)
    /\ uses \in [count : Nat, last : [Artifacts -> Nat]]
    /\ Len(store) <= StoreCap
    /\ \A i \in DOMAIN store : uses.last[store[i]] > 0
    /\ \A i, j \in DOMAIN store : i < j => uses.last[store[i]] < uses.last[store[j]]
    /\ \A a \in Artifacts :
          uses.last[a] > 0 /\ (\A i \in DOMAIN store : store[i] # a) =>
              /\ Len(store) = StoreCap
              /\ \A i \in DOMAIN store : uses.last[a] < uses.last[store[i]]
    /\ \A a \in Artifacts : uses.last[a] <= uses.count

CallsInv == TypeInv /\ \A c \in Calls : CallInv(c)

SharedInv == BreakerInv /\ CacheInv /\ RateInv /\ StoreInv

Inv == CallsInv /\ SharedInv

-----------------------------------------------------------------------------
(* Records and chains *)

LEMMA ChainFacts ==
  ASSUME TypeInv
  PROVE  /\ chain \in Seq(Layers)
         /\ Len(chain) \in Nat
         /\ DOMAIN chain = 1 .. Len(chain)
         /\ \A i, j \in DOMAIN chain : chain[i] = chain[j] => i = j
         /\ MaxSends \in Nat \ {0}
<1>1. tool.chain \in Chains
  BY DEF TypeInv
<1>2. MaxSends \in Nat \ {0}
  BY MiddlewareAssumption DEF MaxSends
<1>3. QED
  BY <1>1, <1>2, MiddlewareAssumption, LenProperties DEF chain

LEMMA InnerFields ==
  ASSUME NEW r \in CallState
  PROVE  LET s == Inner(r) IN
         /\ s \in CallState
         /\ s.stage = "down" /\ s.at = r.at + 1
         /\ s.out = r.out /\ s.sent = r.sent /\ s.readAt = r.readAt /\ s.tries = r.tries
         /\ s.until = r.until /\ s.since = r.since /\ s.hit = r.hit /\ s.asks = r.asks
         /\ s.expires = r.expires /\ s.killed = r.killed
<1> DEFINE t == [r EXCEPT !.stage = "down"]
           s == Inner(r)
<1>1. /\ s.stage = "down" /\ s.at = r.at + 1
      /\ s.out = r.out /\ s.sent = r.sent /\ s.readAt = r.readAt /\ s.tries = r.tries
      /\ s.until = r.until /\ s.since = r.since /\ s.hit = r.hit /\ s.asks = r.asks
      /\ s.expires = r.expires /\ s.killed = r.killed
  BY DEF CallState, Inner
<1>2. t \in CallState /\ r.at + 1 \in Nat
  BY DEF CallState
<1>3. s = [t EXCEPT !.at = r.at + 1]
  BY DEF Inner, CallState
<1>4. s \in CallState
  <2> HIDE DEF t, s
  <2> QED BY <1>2, <1>3 DEF CallState
<1>5. QED
  BY <1>1, <1>4

LEMMA AnswerFields ==
  ASSUME NEW r \in CallState, r.at # 0, NEW out \in Outcomes
  PROVE  LET s == Answer(r, out) IN
         /\ s \in CallState
         /\ s.stage = "up" /\ s.at = r.at - 1 /\ s.out = out
         /\ s.sent = r.sent /\ s.readAt = r.readAt /\ s.tries = r.tries
         /\ s.until = r.until /\ s.since = r.since /\ s.hit = r.hit /\ s.asks = r.asks
         /\ s.expires = r.expires /\ s.killed = r.killed
<1> DEFINE t == [r EXCEPT !.stage = "up"]
           u == [t EXCEPT !.at = r.at - 1]
           s == Answer(r, out)
<1>1. /\ s.stage = "up" /\ s.at = r.at - 1 /\ s.out = out
      /\ s.sent = r.sent /\ s.readAt = r.readAt /\ s.tries = r.tries
      /\ s.until = r.until /\ s.since = r.since /\ s.hit = r.hit /\ s.asks = r.asks
      /\ s.expires = r.expires /\ s.killed = r.killed
  BY DEF CallState, Answer
<1>2. t \in CallState /\ r.at - 1 \in Nat
  BY DEF CallState
<1>3. u \in CallState
  <2> HIDE DEF t
  <2> QED BY <1>2 DEF CallState
<1>4. s = [u EXCEPT !.out = out]
  BY DEF Answer, CallState
<1>5. s \in CallState
  <2> HIDE DEF u, s
  <2> QED BY <1>3, <1>4 DEF CallState
<1>6. QED
  BY <1>1, <1>5

LEMMA OuterFields ==
  ASSUME NEW r \in CallState, r.at # 0
  PROVE  LET s == Outer(r) IN
         /\ s \in CallState
         /\ s.stage = r.stage /\ s.at = r.at - 1
         /\ s.out = r.out /\ s.sent = r.sent /\ s.readAt = r.readAt /\ s.tries = r.tries
         /\ s.until = r.until /\ s.since = r.since /\ s.hit = r.hit /\ s.asks = r.asks
         /\ s.expires = r.expires /\ s.killed = r.killed
BY DEF CallState, Outer

LEMMA SleepFields ==
  ASSUME NEW r \in CallState, NEW n \in Nat, clock \in Nat
  PROVE  LET s == Sleep(r, n) IN
         /\ s \in CallState
         /\ s.stage = "sleep" /\ s.at = r.at /\ s.until = clock + n
         /\ s.out = r.out /\ s.sent = r.sent /\ s.readAt = r.readAt /\ s.tries = r.tries
         /\ s.since = r.since /\ s.hit = r.hit /\ s.asks = r.asks
         /\ s.expires = r.expires /\ s.killed = r.killed
<1> DEFINE t == [r EXCEPT !.stage = "sleep"]
           s == Sleep(r, n)
<1>1. /\ s.stage = "sleep" /\ s.at = r.at /\ s.until = clock + n
      /\ s.out = r.out /\ s.sent = r.sent /\ s.readAt = r.readAt /\ s.tries = r.tries
      /\ s.since = r.since /\ s.hit = r.hit /\ s.asks = r.asks
      /\ s.expires = r.expires /\ s.killed = r.killed
  BY DEF CallState, Sleep
<1>2. t \in CallState /\ clock + n \in Nat
  BY DEF CallState
<1>3. s = [t EXCEPT !.until = clock + n]
  BY DEF Sleep, CallState
<1>4. s \in CallState
  <2> HIDE DEF t, s
  <2> QED BY <1>2, <1>3 DEF CallState
<1>5. QED
  BY <1>1, <1>4

LEMMA SetFacts ==
  ASSUME TypeInv, NEW c \in Calls, NEW r \in CallState, Set(c, r)
  PROVE  /\ call' \in [Calls -> CallState]
         /\ call'[c] = r
         /\ \A d \in Calls \ {c} : call'[d] = call[d]
         /\ tool' = tool /\ clock' = clock /\ cancelled' = cancelled
BY DEF TypeInv, Set

\* The others wait: a step of one call changes nothing they rely on.
LEMMA OthersKept ==
  ASSUME TypeInv, NEW c \in Calls, \A d \in Calls : CallInv(d),
         running \in {c, NoCall}, running' \in {c, NoCall},
         UNCHANGED <<tool, clock>>,
         \A d \in Calls \ {c} : call'[d] = call[d]
  PROVE  \A d \in Calls \ {c} : CallInv(d)'
<1> SUFFICES ASSUME NEW d \in Calls \ {c} PROVE CallInv(d)'
  OBVIOUS
<1>1. call'[d] = call[d] /\ chain' = chain /\ d # NoCall /\ CallInv(d)
  BY MiddlewareAssumption DEF chain
<1>2. call[d].stage \notin {"down", "up"}
  BY <1>1 DEF CallInv, Placed
<1>3. Placed(d)'
  BY <1>1, <1>2 DEF CallInv, Placed, In
<1>4. SendsInv(d)' /\ ReadInv(d)' /\ HitInv(d)' /\ KilledInv(d)'
  BY <1>1 DEF CallInv, SendsInv, UnderRetry, MaxSends, ReadInv, UnderCache, HitInv, KilledInv
<1>5. CoolInv(d)'
  BY <1>1, <1>2 DEF CallInv, CoolInv, LastBreaker
<1>6. QED
  BY <1>3, <1>4, <1>5 DEF CallInv

-----------------------------------------------------------------------------
(* The moves of a call along its chain *)

\* What a move leaves alone.
Keeps(r, s) == s.sent = r.sent /\ s.hit = r.hit /\ s.killed = r.killed

\* Down through a layer other than the retry.
LEMMA Descends ==
  ASSUME TypeInv, NEW c \in Calls, CallInv(c), UNCHANGED <<tool, clock>>, running' = c,
         call[c].stage = "down", call[c].at \in DOMAIN chain, chain[call[c].at] # "retry",
         NEW s \in CallState, call'[c] = s, Keeps(call[c], s),
         s.stage = "down", s.at = call[c].at + 1, s.tries = call[c].tries,
         s.since \in {call[c].since, clock},
         IF chain[call[c].at] = "circuit_breaker" THEN ~Cooling' ELSE breaker' = breaker
  PROVE  CallInv(c)'
<1> DEFINE r == call[c]
<1>0. /\ r \in CallState /\ r.at \in Nat /\ clock \in Nat
      /\ chain' = chain /\ MaxSends' = MaxSends
      /\ DOMAIN chain = 1 .. Len(chain) /\ Len(chain) \in Nat /\ MaxSends \in Nat \ {0}
  BY ChainFacts DEF TypeInv, CallState, chain, MaxSends
<1>1. Placed(c)'
  BY <1>0 DEF Placed
<1>2. SendsInv(c)'
  <2>1. UnderRetry(c)' <=> UnderRetry(c)
    BY <1>0 DEF UnderRetry
  <2>2. QED
    BY <1>0, <2>1 DEF SendsInv, CallInv, Keeps
<1>3. ReadInv(c)'
  BY <1>0, SMTT(30) DEF ReadInv, CallInv, CallState
<1>4. HitInv(c)' /\ KilledInv(c)'
  BY DEF HitInv, KilledInv, CallInv, Keeps
<1>5. CoolInv(c)'
  <2> SUFFICES ASSUME NEW i \in DOMAIN chain, LastBreaker(i), s.at > i
               PROVE  ~Cooling'
    BY <1>0 DEF CoolInv, LastBreaker
  <2>1. CASE chain[r.at] = "circuit_breaker"
    BY <2>1
  <2>2. CASE chain[r.at] # "circuit_breaker"
    <3>1. r.at # i
      BY <2>2 DEF LastBreaker
    <3>2. r.at > i
      BY <1>0, <3>1
    <3>3. ~Cooling
      BY <3>2 DEF CallInv, CoolInv
    <3>4. QED
      BY <2>2, <3>3 DEF Cooling
  <2>3. QED
    BY <2>1, <2>2
<1>6. QED
  BY <1>1, <1>2, <1>3, <1>4, <1>5 DEF CallInv

\* Down through the retry layer: the first attempt.
LEMMA DescendsRetry ==
  ASSUME TypeInv, NEW c \in Calls, CallInv(c), UNCHANGED <<tool, clock, breaker>>, running' = c,
         call[c].stage = "down", call[c].at \in DOMAIN chain, chain[call[c].at] = "retry",
         NEW s \in CallState, call'[c] = s, Keeps(call[c], s),
         s.stage = "down", s.at = call[c].at + 1, s.tries = 1, s.since = call[c].since
  PROVE  CallInv(c)'
<1> DEFINE r == call[c]
<1>0. /\ r \in CallState /\ r.at \in Nat /\ clock \in Nat
      /\ chain' = chain /\ MaxSends' = MaxSends
      /\ DOMAIN chain = 1 .. Len(chain) /\ Len(chain) \in Nat /\ MaxSends \in Nat \ {0}
  BY ChainFacts DEF TypeInv, CallState, chain, MaxSends
<1>1. Placed(c)'
  BY <1>0 DEF Placed
<1>2. SendsInv(c)'
  <2>1. ~UnderRetry(c)
    BY <1>0, ChainFacts DEF UnderRetry
  <2>2. QED
    BY <1>0, <2>1 DEF SendsInv, CallInv, Keeps
<1>3. ReadInv(c)'
  BY <1>0 DEF ReadInv, CallInv, CallState
<1>4. HitInv(c)' /\ KilledInv(c)'
  BY DEF HitInv, KilledInv, CallInv, Keeps
<1>5. CoolInv(c)'
  <2> SUFFICES ASSUME NEW i \in DOMAIN chain, LastBreaker(i), s.at > i
               PROVE  ~Cooling
    BY <1>0 DEF CoolInv, LastBreaker, Cooling
  <2>1. r.at > i
    <3>1. r.at # i
      BY DEF LastBreaker
    <3>2. i \in Nat /\ s.at = r.at + 1 /\ r.at \in Nat
      BY <1>0
    <3>3. QED
      BY <3>1, <3>2
  <2>2. QED
    BY <2>1 DEF CallInv, CoolInv
<1>6. QED
  BY <1>1, <1>2, <1>3, <1>4, <1>5 DEF CallInv

\* A layer other than the retry answers the call itself, the cache with a hit.
LEMMA Answers ==
  ASSUME TypeInv, NEW c \in Calls, CallInv(c), UNCHANGED <<tool, clock>>, running' = c,
         call[c].stage = "down", call[c].at \in DOMAIN chain, chain[call[c].at] # "retry",
         NEW s \in CallState, call'[c] = s,
         s.stage = "up", s.at = call[c].at - 1,
         s.sent = call[c].sent, s.tries = call[c].tries, s.since = call[c].since,
         s.killed = call[c].killed,
         s.hit => s.out = "ok" /\ clock - s.readAt < TtlS,
         s.out = "ok" => chain[call[c].at] = "cache"
  PROVE  CallInv(c)'
<1> DEFINE r == call[c]
<1>0. /\ r \in CallState /\ r.at \in Nat /\ clock \in Nat
      /\ chain' = chain /\ MaxSends' = MaxSends
      /\ DOMAIN chain = 1 .. Len(chain) /\ Len(chain) \in Nat /\ MaxSends \in Nat \ {0}
  BY ChainFacts DEF TypeInv, CallState, chain, MaxSends
<1>1. Placed(c)'
  BY <1>0 DEF Placed
<1>2. SendsInv(c)'
  <2>1. UnderRetry(c)' <=> UnderRetry(c)
    BY <1>0 DEF UnderRetry
  <2>2. QED
    BY <1>0, <2>1, SMTT(30) DEF SendsInv, CallInv, CallState
<1>3. ReadInv(c)'
  BY <1>0, ChainFacts, SMTT(30) DEF ReadInv, CallInv, UnderCache, CallState
<1>4. HitInv(c)' /\ KilledInv(c)'
  BY DEF HitInv, KilledInv, CallInv
<1>5. CoolInv(c)'
  BY <1>0 DEF CoolInv
<1>6. QED
  BY <1>1, <1>2, <1>3, <1>4, <1>5 DEF CallInv

LEMMA Sends ==
  ASSUME TypeInv, NEW c \in Calls, CallInv(c), UNCHANGED <<tool, clock>>, running' = NoCall,
         call[c].stage = "down", call[c].at = Len(chain) + 1,
         NEW s \in CallState, call'[c] = s,
         s.stage = "backend", s.at = call[c].at, s.sent = call[c].sent + 1,
         s.readAt = clock, s.tries = call[c].tries, s.since = call[c].since,
         s.hit = call[c].hit, s.killed = call[c].killed
  PROVE  CallInv(c)'
<1> DEFINE r == call[c]
<1>0. /\ r \in CallState /\ r.at \in Nat /\ clock \in Nat
      /\ chain' = chain /\ MaxSends' = MaxSends
      /\ DOMAIN chain = 1 .. Len(chain) /\ Len(chain) \in Nat /\ MaxSends \in Nat \ {0}
  BY ChainFacts DEF TypeInv, CallState, chain, MaxSends
<1>1. Placed(c)'
  BY <1>0, MiddlewareAssumption DEF Placed
<1>2. SendsInv(c)'
  <2>1. UnderRetry(c)' <=> UnderRetry(c)
    BY <1>0 DEF UnderRetry
  <2>2. QED
    BY <1>0, <2>1, SMTT(30) DEF SendsInv, CallInv, CallState
<1>3. ReadInv(c)'
  BY <1>0 DEF ReadInv, CallInv, CallState
<1>4. HitInv(c)' /\ KilledInv(c)'
  BY DEF HitInv, KilledInv, CallInv
<1>5. CoolInv(c)'
  BY <1>0 DEF CoolInv
<1>6. QED
  BY <1>1, <1>2, <1>3, <1>4, <1>5 DEF CallInv

LEMMA BackendReplies ==
  ASSUME TypeInv, NEW c \in Calls, CallInv(c), UNCHANGED <<tool, clock>>, running' = c,
         call[c].stage = "backend",
         NEW s \in CallState, call'[c] = s, Keeps(call[c], s),
         s.stage = "up", s.at = call[c].at - 1, s.tries = call[c].tries,
         s.readAt = call[c].readAt, s.since = call[c].since
  PROVE  CallInv(c)'
<1> DEFINE r == call[c]
<1>0. /\ r \in CallState /\ r.at \in Nat /\ clock \in Nat
      /\ chain' = chain /\ MaxSends' = MaxSends
      /\ DOMAIN chain = 1 .. Len(chain) /\ Len(chain) \in Nat /\ MaxSends \in Nat \ {0}
      /\ r.at = Len(chain) + 1
  BY ChainFacts DEF TypeInv, CallState, chain, MaxSends, CallInv, Placed
<1>1. Placed(c)'
  BY <1>0 DEF Placed
<1>2. SendsInv(c)'
  <2>1. UnderRetry(c)' <=> UnderRetry(c)
    BY <1>0 DEF UnderRetry
  <2>2. QED
    BY <1>0, <2>1 DEF SendsInv, CallInv, CallState, Keeps
<1>3. ReadInv(c)'
  BY <1>0 DEF ReadInv, CallInv, CallState
<1>4. HitInv(c)' /\ KilledInv(c)'
  BY DEF HitInv, KilledInv, CallInv, Keeps
<1>5. CoolInv(c)'
  BY <1>0 DEF CoolInv
<1>6. QED
  BY <1>1, <1>2, <1>3, <1>4, <1>5 DEF CallInv

\* A cancellation leaves the layer the coroutine sleeps in, or the backend.
LEMMA Cancels ==
  ASSUME TypeInv, NEW c \in Calls, CallInv(c), UNCHANGED <<tool, clock>>, running' = c,
         call[c].stage \in {"backend", "sleep"},
         NEW s \in CallState, call'[c] = s,
         s.stage = "up", s.at = call[c].at - 1, s.out = "cancelled",
         s.sent = call[c].sent, s.tries = call[c].tries, s.since = call[c].since,
         s.hit = call[c].hit
  PROVE  CallInv(c)'
<1> DEFINE r == call[c]
<1>0. /\ r \in CallState /\ r.at \in Nat /\ clock \in Nat
      /\ chain' = chain /\ MaxSends' = MaxSends
      /\ DOMAIN chain = 1 .. Len(chain) /\ Len(chain) \in Nat /\ MaxSends \in Nat \ {0}
  BY ChainFacts DEF TypeInv, CallState, chain, MaxSends
<1>a. /\ r.at \in 1 .. Len(chain) + 1
      /\ r.at \in DOMAIN chain \/ r.stage = "backend"
  BY <1>0 DEF CallInv, Placed, In
<1>1. Placed(c)'
  BY <1>0, <1>a DEF Placed
<1>2. SendsInv(c)'
  <2>1. UnderRetry(c)' => UnderRetry(c)
    BY <1>0, <1>a DEF UnderRetry
  <2>2. r.sent \in Nat /\ r.tries \in Nat
    BY <1>0 DEF CallState
  <2>3. UnderRetry(c) => r.tries \in 1 .. MaxSends /\ r.sent <= r.tries
    BY <2>2 DEF SendsInv, CallInv
  <2>4. r.sent <= MaxSends
    BY <1>0, <2>2, <2>3 DEF SendsInv, CallInv
  <2>5. QED
    BY <1>0, <2>1, <2>3, <2>4 DEF SendsInv
<1>3. ReadInv(c)'
  BY <1>0 DEF ReadInv, CallInv, CallState
<1>4. HitInv(c)' /\ KilledInv(c)'
  BY <1>0 DEF HitInv, KilledInv, CallInv
<1>5. CoolInv(c)'
  BY <1>0 DEF CoolInv
<1>6. QED
  BY <1>1, <1>2, <1>3, <1>4, <1>5 DEF CallInv

\* A waiter for a token goes to sleep.
LEMMA Waits ==
  ASSUME TypeInv, NEW c \in Calls, CallInv(c), UNCHANGED <<tool, clock>>, running' = NoCall,
         Down(c, "rate_limit_block"),
         NEW s \in CallState, call'[c] = s, Keeps(call[c], s),
         s.stage = "sleep", s.at = call[c].at, s.tries = call[c].tries, s.since = call[c].since
  PROVE  CallInv(c)'
<1> DEFINE r == call[c]
<1>0. /\ r \in CallState /\ r.at \in Nat /\ clock \in Nat
      /\ chain' = chain /\ MaxSends' = MaxSends
      /\ DOMAIN chain = 1 .. Len(chain) /\ Len(chain) \in Nat /\ MaxSends \in Nat \ {0}
  BY ChainFacts DEF TypeInv, CallState, chain, MaxSends
<1>a. r.stage = "down" /\ r.at \in DOMAIN chain /\ chain[r.at] = "rate_limit_block"
  BY DEF Down, In
<1>1. Placed(c)'
  BY <1>0, <1>a, MiddlewareAssumption DEF Placed, In
<1>2. SendsInv(c)'
  <2>1. UnderRetry(c)' <=> UnderRetry(c)
    BY <1>0, <1>a DEF UnderRetry
  <2>2. QED
    BY <1>0, <1>a, <2>1 DEF SendsInv, CallInv, Keeps
<1>3. ReadInv(c)'
  BY <1>0 DEF ReadInv, CallInv, CallState
<1>4. HitInv(c)' /\ KilledInv(c)'
  BY <1>a DEF HitInv, KilledInv, CallInv, Keeps
<1>5. CoolInv(c)'
  <2> SUFFICES ASSUME NEW i \in DOMAIN chain, LastBreaker(i) PROVE s.at <= i
    BY <1>0 DEF CoolInv, LastBreaker
  <2>1. ~(r.at > i)
    BY <1>a DEF LastBreaker
  <2>2. QED
    BY <1>0, <2>1
<1>6. QED
  BY <1>1, <1>2, <1>3, <1>4, <1>5 DEF CallInv

\* A waiter that got the global token asks for the robot's.
LEMMA Asks ==
  ASSUME TypeInv, NEW c \in Calls, CallInv(c), UNCHANGED <<tool, clock, breaker>>, running' = c,
         call[c].stage = "down",
         NEW s \in CallState, call'[c] = s, Keeps(call[c], s),
         s.stage = "down", s.at = call[c].at, s.tries = call[c].tries, s.since = call[c].since
  PROVE  CallInv(c)'
<1> DEFINE r == call[c]
<1>0. /\ r \in CallState /\ r.at \in Nat /\ clock \in Nat
      /\ chain' = chain /\ MaxSends' = MaxSends
      /\ DOMAIN chain = 1 .. Len(chain) /\ Len(chain) \in Nat /\ MaxSends \in Nat \ {0}
  BY ChainFacts DEF TypeInv, CallState, chain, MaxSends
<1>1. Placed(c)'
  BY <1>0 DEF Placed, CallInv
<1>2. SendsInv(c)'
  <2>1. UnderRetry(c)' <=> UnderRetry(c)
    BY <1>0 DEF UnderRetry
  <2>2. QED
    BY <1>0, <2>1 DEF SendsInv, CallInv, Keeps
<1>3. ReadInv(c)'
  BY <1>0 DEF ReadInv, CallInv, CallState
<1>4. HitInv(c)' /\ KilledInv(c)'
  BY DEF HitInv, KilledInv, CallInv, Keeps
<1>5. CoolInv(c)'
  BY <1>0 DEF CoolInv, CallInv, LastBreaker, Cooling
<1>6. QED
  BY <1>1, <1>2, <1>3, <1>4, <1>5 DEF CallInv

\* One attempt more, at once or after a pause.
LEMMA Retries ==
  ASSUME TypeInv, NEW c \in Calls, CallInv(c), UNCHANGED <<tool, clock, breaker>>,
         Up(c, "retry"), Retryable(c),
         NEW s \in CallState, call'[c] = s, Keeps(call[c], s),
         s.tries = call[c].tries + 1, s.since = call[c].since, s.out = "none",
         \/ s.stage = "down" /\ s.at = call[c].at + 1 /\ running' = c
         \/ s.stage = "sleep" /\ s.at = call[c].at /\ running' = NoCall
  PROVE  CallInv(c)'
<1> DEFINE r == call[c]
<1>0. /\ r \in CallState /\ r.at \in Nat /\ clock \in Nat
      /\ chain' = chain /\ MaxSends' = MaxSends
      /\ DOMAIN chain = 1 .. Len(chain) /\ Len(chain) \in Nat /\ MaxSends \in Nat \ {0}
  BY ChainFacts DEF TypeInv, CallState, chain, MaxSends
<1>a. /\ r.stage = "up" /\ r.at \in DOMAIN chain /\ chain[r.at] = "retry"
      /\ r.out \in {"unreachable", "timeout"} /\ tool.idempotent /\ r.tries <= MaxRetries
  BY DEF Up, In, Retryable
<1>1. Placed(c)'
  <2>1. c # NoCall
    BY MiddlewareAssumption
  <2>2. CASE s.stage = "down" /\ s.at = r.at + 1 /\ running' = c
    BY <1>0, <1>a, <2>2 DEF Placed
  <2>3. CASE s.stage = "sleep" /\ s.at = r.at /\ running' = NoCall
    <3>1. In(c, "retry")'
      BY <1>0, <1>a, <2>3 DEF In
    <3>2. QED
      BY <2>1, <2>3, <3>1 DEF Placed
  <2>4. QED
    BY <2>2, <2>3
<1>2. SendsInv(c)'
  <2>1. UnderRetry(c)
    BY <1>0, <1>a DEF UnderRetry
  <2>2. r.tries \in 1 .. MaxSends /\ r.sent <= r.tries /\ r.sent \in Nat
    BY <1>0, <1>a, <2>1 DEF SendsInv, CallInv, CallState
  <2>3. UnderRetry(c)'
    BY <1>0, <1>a DEF UnderRetry
  <2>4. s.tries \in 1 .. MaxSends /\ s.sent < s.tries
    <3>1. MaxSends = MaxRetries + 1 /\ MaxRetries \in Nat /\ r.tries \in Nat
      BY <1>0, <1>a, MiddlewareAssumption DEF MaxSends, CallState
    <3>2. s.tries = r.tries + 1 /\ s.sent = r.sent
      BY DEF Keeps
    <3>3. QED
      BY <1>a, <2>2, <3>1, <3>2
  <2>5. QED
    BY <1>0, <2>3, <2>4 DEF SendsInv
<1>3. ReadInv(c)'
  BY <1>0 DEF ReadInv, CallInv, CallState
<1>4. HitInv(c)' /\ KilledInv(c)'
  BY <1>a DEF HitInv, KilledInv, CallInv, Keeps
<1>5. CoolInv(c)'
  <2> SUFFICES ASSUME NEW i \in DOMAIN chain, LastBreaker(i) PROVE s.at <= i
    BY <1>0 DEF CoolInv, LastBreaker
  <2>1. r.at # i /\ ~(r.at > i)
    BY <1>a DEF LastBreaker
  <2>2. QED
    BY <1>0, <2>1
<1>6. QED
  BY <1>1, <1>2, <1>3, <1>4, <1>5 DEF CallInv

\* A sleeper goes on: the retry with the next attempt, a waiter where it was.
LEMMA Wakes ==
  ASSUME TypeInv, NEW c \in Calls, CallInv(c), UNCHANGED <<tool, clock, breaker>>, running' = c,
         call[c].stage = "sleep",
         NEW s \in CallState, call'[c] = s, Keeps(call[c], s),
         s.stage = "down", s.at = IF In(c, "retry") THEN call[c].at + 1 ELSE call[c].at,
         s.tries = call[c].tries, s.since = call[c].since
  PROVE  CallInv(c)'
<1> DEFINE r == call[c]
<1>0. /\ r \in CallState /\ r.at \in Nat /\ clock \in Nat
      /\ chain' = chain /\ MaxSends' = MaxSends
      /\ DOMAIN chain = 1 .. Len(chain) /\ Len(chain) \in Nat /\ MaxSends \in Nat \ {0}
  BY ChainFacts DEF TypeInv, CallState, chain, MaxSends
<1>a. /\ r.at \in DOMAIN chain
      /\ IF In(c, "retry") THEN chain[r.at] = "retry" ELSE chain[r.at] = "rate_limit_block"
  BY DEF CallInv, Placed, In
<1>1. Placed(c)'
  BY <1>0, <1>a DEF Placed
<1>2. SendsInv(c)'
  <2>1. UnderRetry(c)' <=> UnderRetry(c)
    BY <1>0, <1>a DEF UnderRetry
  <2>2. QED
    BY <1>0, <2>1 DEF SendsInv, CallInv, Keeps
<1>3. ReadInv(c)'
  BY <1>0 DEF ReadInv, CallInv, CallState
<1>4. HitInv(c)' /\ KilledInv(c)'
  BY DEF HitInv, KilledInv, CallInv, Keeps
<1>5. CoolInv(c)'
  <2> SUFFICES ASSUME NEW i \in DOMAIN chain, LastBreaker(i) PROVE s.at <= i
    BY <1>0 DEF CoolInv, LastBreaker
  <2>1. r.at <= i
    BY DEF CallInv, CoolInv
  <2>2. r.at # i
    BY <1>a DEF LastBreaker
  <2>3. QED
    BY <1>0, <2>1, <2>2
<1>6. QED
  BY <1>1, <1>2, <1>3, <1>4, <1>5 DEF CallInv

\* Up through a layer other than the retry; the timeout layer may rename the outcome.
LEMMA Ascends ==
  ASSUME TypeInv, NEW c \in Calls, CallInv(c), UNCHANGED <<tool, clock>>, running' = c,
         call[c].stage = "up", call[c].at \in DOMAIN chain, chain[call[c].at] # "retry",
         NEW s \in CallState, call'[c] = s,
         s.stage = "up", s.at = call[c].at - 1,
         s.sent = call[c].sent, s.hit = call[c].hit, s.tries = call[c].tries,
         s.readAt = call[c].readAt, s.since \in {0, call[c].since},
         \/ s.killed = call[c].killed /\ s.out = call[c].out
         \/ call[c].killed # "no" /\ s.killed = "no" /\ s.out = "timeout"
  PROVE  CallInv(c)'
<1> DEFINE r == call[c]
<1>0. /\ r \in CallState /\ r.at \in Nat /\ clock \in Nat
      /\ chain' = chain /\ MaxSends' = MaxSends
      /\ DOMAIN chain = 1 .. Len(chain) /\ Len(chain) \in Nat /\ MaxSends \in Nat \ {0}
  BY ChainFacts DEF TypeInv, CallState, chain, MaxSends
<1>1. Placed(c)'
  BY <1>0 DEF Placed
<1>2. SendsInv(c)'
  <2>1. UnderRetry(c)' <=> UnderRetry(c)
    BY <1>0 DEF UnderRetry
  <2>2. QED
    BY <1>0, <2>1 DEF SendsInv, CallInv
<1>3. ReadInv(c)'
  <2>1. UnderCache(c)' => UnderCache(c)
    BY <1>0 DEF UnderCache
  <2>2. QED
    BY <1>0, <2>1, SMTT(30) DEF ReadInv, CallInv, CallState
<1>4. HitInv(c)' /\ KilledInv(c)'
  BY DEF HitInv, KilledInv, CallInv
<1>5. CoolInv(c)'
  BY <1>0 DEF CoolInv
<1>6. QED
  BY <1>1, <1>2, <1>3, <1>4, <1>5 DEF CallInv

\* The retry layer hands the outcome on.
LEMMA AscendsRetry ==
  ASSUME TypeInv, NEW c \in Calls, CallInv(c), UNCHANGED <<tool, clock>>, running' = c,
         Up(c, "retry"),
         NEW s \in CallState, call'[c] = s, Keeps(call[c], s),
         s.stage = "up", s.at = call[c].at - 1, s.out = call[c].out,
         s.readAt = call[c].readAt, s.since = call[c].since
  PROVE  CallInv(c)'
<1> DEFINE r == call[c]
<1>0. /\ r \in CallState /\ r.at \in Nat /\ clock \in Nat
      /\ chain' = chain /\ MaxSends' = MaxSends
      /\ DOMAIN chain = 1 .. Len(chain) /\ Len(chain) \in Nat /\ MaxSends \in Nat \ {0}
  BY ChainFacts DEF TypeInv, CallState, chain, MaxSends
<1>a. r.stage = "up" /\ r.at \in DOMAIN chain /\ chain[r.at] = "retry"
  BY DEF Up, In
<1>1. Placed(c)'
  BY <1>0, <1>a DEF Placed
<1>2. SendsInv(c)'
  <2>1. UnderRetry(c)
    BY <1>0, <1>a DEF UnderRetry
  <2>2. r.sent <= MaxSends
    BY <1>0, <1>a, <2>1, SMTT(30) DEF SendsInv, CallInv, CallState
  <2>3. ~UnderRetry(c)'
    BY <1>0, <1>a, ChainFacts DEF UnderRetry
  <2>4. QED
    BY <1>0, <2>2, <2>3 DEF SendsInv, Keeps
<1>3. ReadInv(c)'
  <2>1. UnderCache(c)' => UnderCache(c)
    BY <1>0 DEF UnderCache
  <2>2. QED
    BY <1>0, <1>a, <2>1 DEF ReadInv, CallInv, CallState
<1>4. HitInv(c)' /\ KilledInv(c)'
  BY <1>a DEF HitInv, KilledInv, CallInv, Keeps
<1>5. CoolInv(c)'
  BY <1>0 DEF CoolInv
<1>6. QED
  BY <1>1, <1>2, <1>3, <1>4, <1>5 DEF CallInv

\* Into the outermost layer, and out of it.
LEMMA Enters ==
  ASSUME TypeInv, NEW c \in Calls, CallInv(c), UNCHANGED <<tool, clock>>,
         \/ call[c].stage = "idle" /\ call'[c] = Inner(call[c]) /\ running' = c
         \/ call'[c] = [NewCall EXCEPT !.stage = "done"] /\ running' = NoCall
  PROVE  CallInv(c)'
<1> DEFINE r == call[c]
           s == call'[c]
<1>0. /\ r \in CallState /\ r.at \in Nat /\ clock \in Nat
      /\ chain' = chain /\ MaxSends' = MaxSends
      /\ DOMAIN chain = 1 .. Len(chain) /\ Len(chain) \in Nat /\ MaxSends \in Nat \ {0}
  BY ChainFacts DEF TypeInv, CallState, chain, MaxSends
<1>a. /\ s.sent = 0 /\ s.hit = FALSE /\ s.killed = "no" /\ s.since = 0
      /\ \/ s.stage = "down" /\ s.at = 1 /\ running' = c
         \/ s.stage = "done" /\ s = [NewCall EXCEPT !.stage = s.stage] /\ running' = NoCall
  <2>1. CASE call[c].stage = "idle" /\ call'[c] = Inner(call[c]) /\ running' = c
    <3>1. r = [NewCall EXCEPT !.stage = "idle"]
      BY <2>1 DEF CallInv, Placed
    <3>2. r.at = 0 /\ r.sent = 0 /\ r.hit = FALSE /\ r.killed = "no" /\ r.since = 0
      BY <3>1 DEF NewCall
    <3>3. QED
      BY <1>0, <2>1, <3>2, InnerFields
  <2>2. CASE call'[c] = [NewCall EXCEPT !.stage = "done"] /\ running' = NoCall
    BY <2>2 DEF NewCall
  <2>3. QED
    BY <2>1, <2>2
<1> HIDE DEF s
<1>b. call'[c] = s
  BY DEF s
<1>1. Placed(c)'
  BY <1>0, <1>a, <1>b, MiddlewareAssumption, SMTT(30) DEF Placed
<1>2. SendsInv(c)'
  <2>1. s.stage = "down" => ~UnderRetry(c)'
    BY <1>0, <1>a, <1>b DEF UnderRetry
  <2>2. QED
    BY <1>a, <1>b, <2>1 DEF SendsInv
<1>3. ReadInv(c)'
  BY <1>0, <1>a, <1>b DEF ReadInv
<1>4. HitInv(c)' /\ KilledInv(c)'
  BY <1>a, <1>b DEF HitInv, KilledInv
<1>5. CoolInv(c)'
  BY <1>0, <1>a, <1>b DEF CoolInv
<1>6. QED
  BY <1>1, <1>2, <1>3, <1>4, <1>5 DEF CallInv

-----------------------------------------------------------------------------
(* The steps that touch no shared state *)

\* 2^n counts the subsets of a set of n elements.
LEMMA PowersAreNat ==
  ASSUME NEW n \in Nat
  PROVE  2^n \in Nat
<1>1. IsFiniteSet(1 .. n) /\ Cardinality(1 .. n) = n
  BY FS_Interval
<1>2. IsFiniteSet(SUBSET (1 .. n)) /\ Cardinality(SUBSET (1 .. n)) = 2^n
  BY <1>1, FS_SUBSET
<1>3. QED
  BY <1>2, FS_CardinalityType

\* A step that moves one call keeps what holds of the calls if the call keeps it.
LEMMA Moved ==
  ASSUME CallsInv, NEW c \in Calls, NEW r \in CallState, Set(c, r),
         running \in {c, NoCall}, running' \in {c, NoCall}, CallInv(c)'
  PROVE  CallsInv'
<1>1. TypeInv /\ TypeInv'
  BY SetFacts DEF CallsInv, TypeInv
<1>2. \A d \in Calls \ {c} : CallInv(d)'
  BY <1>1, SetFacts, OthersKept DEF CallsInv
<1>3. QED
  BY <1>1, <1>2 DEF CallsInv

\* What every handler of a call on its way starts from.
LEMMA OnItsWay ==
  ASSUME CallsInv, NEW c \in Calls, call[c].stage \in {"down", "up"}
  PROVE  /\ TypeInv /\ CallInv(c) /\ call[c] \in CallState
         /\ running = c
         /\ call[c].at \in DOMAIN chain => call[c].at # 0
         /\ call[c].stage = "down" => call[c].at # 0
<1>1. /\ TypeInv /\ CallInv(c) /\ call[c] \in CallState
      /\ DOMAIN chain = 1 .. Len(chain) /\ Len(chain) \in Nat
  BY ChainFacts DEF CallsInv, TypeInv
<1>2. QED
  BY <1>1 DEF CallInv, Placed

LEMMA StartMoves ==
  ASSUME CallsInv, NEW c \in Calls, Start(c)
  PROVE  CallsInv'
<1>1. TypeInv /\ CallInv(c) /\ call[c] \in CallState
  BY DEF CallsInv, TypeInv
<1>2. Inner(call[c]) \in CallState
  BY <1>1, InnerFields
<1>3. Set(c, Inner(call[c])) /\ running = NoCall /\ running' = c /\ call[c].stage = "idle"
  BY DEF Start, Runs
<1>4. CallInv(c)'
  BY <1>1, <1>2, <1>3, SetFacts, Enters
<1>5. QED
  BY <1>2, <1>3, <1>4, Moved

LEMMA ReturnMoves ==
  ASSUME CallsInv, NEW c \in Calls, Return(c)
  PROVE  CallsInv'
<1> DEFINE s == [NewCall EXCEPT !.stage = "done"]
<1>1. TypeInv /\ CallInv(c) /\ running = c
  BY OnItsWay DEF Return
<1>2. s \in CallState
  BY DEF NewCall, CallState, Outcomes, Buckets
<1>3. Set(c, s) /\ running' = NoCall
  BY DEF Return, Yields
<1>4. CallInv(c)'
  BY <1>1, <1>2, <1>3, SetFacts, Enters
<1>5. QED
  BY <1>1, <1>2, <1>3, <1>4, Moved

LEMMA SendMoves ==
  ASSUME CallsInv, NEW c \in Calls, Send(c)
  PROVE  CallsInv'
<1>1. /\ TypeInv /\ CallInv(c) /\ call[c] \in CallState /\ running = c
      /\ call[c].stage = "down" /\ call[c].at = Len(chain) + 1 /\ clock \in Nat
  BY OnItsWay DEF Send, TypeInv
<1> DEFINE t == [call[c] EXCEPT !.stage = "backend"]
           u == [t EXCEPT !.sent = call[c].sent + 1]
           s == [call[c] EXCEPT !.stage = "backend", !.sent = @ + 1, !.readAt = clock]
<1>2. t \in CallState /\ call[c].sent + 1 \in Nat
  <2>1. call[c] \in CallState
    BY <1>1
  <2>2. QED
    BY <2>1 DEF CallState
<1>3. u \in CallState
  <2> HIDE DEF t
  <2> QED BY <1>2 DEF CallState
<1>4. s = [u EXCEPT !.readAt = clock]
  BY <1>1 DEF CallState
<1>5. s \in CallState
  <2> HIDE DEF u, s
  <2> QED BY <1>1, <1>3, <1>4 DEF CallState
<1>6. /\ s.stage = "backend" /\ s.at = call[c].at /\ s.sent = call[c].sent + 1
      /\ s.readAt = clock /\ s.tries = call[c].tries /\ s.since = call[c].since
      /\ s.hit = call[c].hit /\ s.killed = call[c].killed
  BY <1>1 DEF CallState
<1>7. Set(c, s) /\ running' = NoCall
  BY DEF Send, Yields
<1>8. CallInv(c)'
  <2> HIDE DEF s
  <2> QED BY <1>1, <1>5, <1>6, <1>7, SetFacts, Sends
<1>9. QED
  <2> HIDE DEF s
  <2> QED BY <1>1, <1>5, <1>7, <1>8, Moved

LEMMA BackendMoves ==
  ASSUME CallsInv, NEW c \in Calls, BackendAnswers(c)
  PROVE  CallsInv'
<1>1. PICK out \in {"ok", "error", "unreachable", "timeout"} : Runs(c, Answer(call[c], out))
  BY DEF BackendAnswers
<1>2. /\ TypeInv /\ CallInv(c) /\ call[c] \in CallState
      /\ running = NoCall /\ call[c].stage = "backend" /\ out \in Outcomes
  BY DEF BackendAnswers, CallsInv, TypeInv, Outcomes
<1>3. call[c].at # 0
  BY <1>2, ChainFacts DEF CallInv, Placed
<1> DEFINE s == Answer(call[c], out)
<1>4. Set(c, s) /\ running' = c
  BY <1>1 DEF Runs
<1> HIDE DEF s
<1>5. /\ s \in CallState /\ s.stage = "up" /\ s.at = call[c].at - 1 /\ s.tries = call[c].tries
      /\ s.readAt = call[c].readAt /\ s.since = call[c].since /\ Keeps(call[c], s)
  BY <1>2, <1>3, AnswerFields DEF s, Keeps
<1>6. CallInv(c)'
  BY <1>2, <1>4, <1>5, SetFacts, BackendReplies
<1>7. QED
  BY <1>2, <1>4, <1>5, <1>6, Moved

LEMMA CancelMoves ==
  ASSUME CallsInv, NEW c \in Calls, NEW who \in {"timer", "task"}, Cancel(c, who)
  PROVE  CallsInv'
<1>2. /\ TypeInv /\ CallInv(c) /\ call[c] \in CallState
      /\ running = NoCall /\ call[c].stage \in {"backend", "sleep"}
  BY DEF Cancel, CallsInv, TypeInv
<1>3. call[c].at # 0
  BY <1>2, ChainFacts DEF CallInv, Placed, In
<1> DEFINE t == Answer(call[c], "cancelled")
           s == [t EXCEPT !.killed = who]
<1>4. Set(c, s) /\ running' = c
  BY DEF Runs, Cancel
<1>5. /\ t \in CallState /\ t.stage = "up" /\ t.at = call[c].at - 1 /\ t.tries = call[c].tries
      /\ t.since = call[c].since /\ t.sent = call[c].sent /\ t.hit = call[c].hit
      /\ t.out = "cancelled"
  BY <1>2, <1>3, AnswerFields DEF Outcomes
<1>6. /\ s \in CallState /\ s.stage = "up" /\ s.at = call[c].at - 1 /\ s.tries = call[c].tries
      /\ s.since = call[c].since /\ s.sent = call[c].sent /\ s.hit = call[c].hit
      /\ s.out = "cancelled"
  <2> HIDE DEF t
  <2> QED BY <1>5 DEF CallState
<1> HIDE DEF s
<1>7. CallInv(c)'
  BY <1>2, <1>4, <1>6, SetFacts, Cancels
<1>8. QED
  BY <1>2, <1>4, <1>6, <1>7, Moved

LEMMA WakeMoves ==
  ASSUME CallsInv, NEW c \in Calls, Wake(c)
  PROVE  CallsInv'
<1>1. /\ TypeInv /\ CallInv(c) /\ call[c] \in CallState
      /\ running = NoCall /\ call[c].stage = "sleep" /\ UNCHANGED breaker
  BY DEF Wake, CallsInv, TypeInv, shared
<1> DEFINE t == [call[c] EXCEPT !.stage = "down"]
           w == [call[c] EXCEPT !.stage = "down", !.until = 0]
           s == IF In(c, "retry") THEN Inner(w) ELSE w
<1>2. t \in CallState /\ w = [t EXCEPT !.until = 0]
  BY <1>1 DEF CallState
<1>3. w \in CallState
  <2> HIDE DEF t, w
  <2> QED BY <1>2 DEF CallState
<1>4. /\ w.stage = "down" /\ w.at = call[c].at /\ w.tries = call[c].tries
      /\ w.since = call[c].since /\ Keeps(call[c], w)
  BY <1>1 DEF CallState, Keeps
<1>5. Set(c, s) /\ running' = c
  BY DEF Runs, Wake
<1> HIDE DEF w
<1>6. /\ s \in CallState /\ s.stage = "down"
      /\ s.at = IF In(c, "retry") THEN call[c].at + 1 ELSE call[c].at
      /\ s.tries = call[c].tries /\ s.since = call[c].since /\ Keeps(call[c], s)
  BY <1>3, <1>4, InnerFields DEF Keeps
<1> HIDE DEF s
<1>7. CallInv(c)'
  BY <1>1, <1>5, <1>6, SetFacts, Wakes
<1>8. QED
  BY <1>1, <1>5, <1>6, <1>7, Moved

\* A layer that hands its call on as it is, in either direction.
LEMMA PassesDown ==
  ASSUME CallsInv, NEW c \in Calls, call[c].stage = "down", call[c].at \in DOMAIN chain,
         chain[call[c].at] # "retry", Runs(c, Inner(call[c])),
         IF chain[call[c].at] = "circuit_breaker" THEN ~Cooling' ELSE breaker' = breaker
  PROVE  CallsInv'
<1>1. TypeInv /\ CallInv(c) /\ call[c] \in CallState /\ running = c
  BY OnItsWay
<1> DEFINE s == Inner(call[c])
<1>2. Set(c, s) /\ running' = c
  BY DEF Runs
<1> HIDE DEF s
<1>3. /\ s \in CallState /\ s.stage = "down" /\ s.at = call[c].at + 1
      /\ s.tries = call[c].tries /\ s.since = call[c].since /\ Keeps(call[c], s)
  BY <1>1, InnerFields DEF s, Keeps
<1>4. CallInv(c)'
  BY <1>1, <1>2, <1>3, SetFacts, Descends
<1>5. QED
  BY <1>1, <1>2, <1>3, <1>4, Moved

LEMMA PassesUp ==
  ASSUME CallsInv, NEW c \in Calls, call[c].stage = "up", call[c].at \in DOMAIN chain,
         chain[call[c].at] # "retry", Runs(c, Outer(call[c]))
  PROVE  CallsInv'
<1>1. TypeInv /\ CallInv(c) /\ call[c] \in CallState /\ running = c /\ call[c].at # 0
  BY OnItsWay
<1> DEFINE s == Outer(call[c])
<1>2. Set(c, s) /\ running' = c
  BY DEF Runs
<1> HIDE DEF s
<1>3. /\ s \in CallState /\ s.stage = "up" /\ s.at = call[c].at - 1
      /\ s.sent = call[c].sent /\ s.hit = call[c].hit /\ s.tries = call[c].tries
      /\ s.readAt = call[c].readAt /\ s.since = call[c].since
      /\ s.killed = call[c].killed /\ s.out = call[c].out
  BY <1>1, OuterFields DEF s
<1>4. CallInv(c)'
  BY <1>1, <1>2, <1>3, SetFacts, Ascends
<1>5. QED
  BY <1>1, <1>2, <1>3, <1>4, Moved

\* A layer that refuses its call.
LEMMA Refuses ==
  ASSUME CallsInv, NEW c \in Calls, call[c].stage = "down", call[c].at \in DOMAIN chain,
         chain[call[c].at] # "retry", NEW out \in Outcomes \ {"ok"},
         Runs(c, Answer(call[c], out))
  PROVE  CallsInv'
<1>1. TypeInv /\ CallInv(c) /\ call[c] \in CallState /\ running = c /\ call[c].at # 0
  BY OnItsWay
<1> DEFINE s == Answer(call[c], out)
<1>2. Set(c, s) /\ running' = c
  BY DEF Runs
<1> HIDE DEF s
<1>3. /\ s \in CallState /\ s.stage = "up" /\ s.at = call[c].at - 1
      /\ s.sent = call[c].sent /\ s.hit = call[c].hit /\ s.tries = call[c].tries
      /\ s.since = call[c].since /\ s.killed = call[c].killed /\ s.out # "ok"
  BY <1>1, AnswerFields DEF s
<1>4. ~call[c].hit
  BY DEF CallsInv, CallInv, HitInv
<1>5. CallInv(c)'
  BY <1>1, <1>2, <1>3, <1>4, SetFacts, Answers
<1>6. QED
  BY <1>1, <1>2, <1>3, <1>5, Moved

LEMMA TraceMoves ==
  ASSUME CallsInv, NEW c \in Calls, Trace(c)
  PROVE  CallsInv'
BY PassesDown, PassesUp DEF Trace, Down, Up, In, shared

LEMMA CancelLayerMoves ==
  ASSUME CallsInv, NEW c \in Calls, CancelLayer(c)
  PROVE  CallsInv'
<1>1. CASE Down(c, "cancel") /\ Runs(c, IF cancelled[c] THEN Answer(call[c], "tool_cancelled")
                                                     ELSE Inner(call[c]))
  <2>1. "tool_cancelled" \in Outcomes \ {"ok"} /\ breaker' = breaker
    BY DEF Outcomes, CancelLayer, shared
  <2>2. QED
    BY <1>1, <2>1, PassesDown, Refuses DEF Down, In
<1>2. CASE Up(c, "cancel") /\ Runs(c, Outer(call[c]))
  BY <1>2, PassesUp DEF Up, In
<1>3. QED
  BY <1>1, <1>2 DEF CancelLayer

LEMMA TimeoutMoves ==
  ASSUME CallsInv, NEW c \in Calls, Timeout(c)
  PROVE  CallsInv'
<1>0. breaker' = breaker /\ call[c].stage \in {"down", "up"}
  BY DEF Timeout, shared, Down, Up
<1>1. /\ TypeInv /\ CallInv(c) /\ call[c] \in CallState /\ running = c /\ clock \in Nat
      /\ call[c].at \in DOMAIN chain => call[c].at # 0
  BY <1>0, OnItsWay DEF TypeInv
<1>2. CASE Down(c, "timeout") /\ Runs(c, [Inner(call[c]) EXCEPT !.expires = Deadline])
  <2> DEFINE t == Inner(call[c])
             s == [t EXCEPT !.expires = Deadline]
  <2>1. Set(c, s) /\ running' = c
    BY <1>2 DEF Runs
  <2>2. /\ t \in CallState /\ t.stage = "down" /\ t.at = call[c].at + 1
        /\ t.tries = call[c].tries /\ t.since = call[c].since /\ Keeps(call[c], t)
    BY <1>1, InnerFields DEF Keeps
  <2>3. Deadline \in Nat
    BY <1>1, MiddlewareAssumption DEF Deadline
  <2>4. /\ s \in CallState /\ s.stage = "down" /\ s.at = call[c].at + 1
        /\ s.tries = call[c].tries /\ s.since = call[c].since /\ Keeps(call[c], s)
    <3> HIDE DEF t
    <3> QED BY <2>2, <2>3 DEF CallState, Keeps
  <2> HIDE DEF s
  <2>5. CallInv(c)'
    BY <1>0, <1>1, <1>2, <2>1, <2>4, SetFacts, Descends DEF Down, In
  <2>6. QED
    BY <1>1, <2>1, <2>4, <2>5, Moved
<1>3. CASE /\ Up(c, "timeout")
           /\ Runs(c, [Outer(IF call[c].killed = "timer"
                             THEN [call[c] EXCEPT !.out = "timeout", !.killed = "no"]
                             ELSE call[c]) EXCEPT !.expires = 0])
  <2> DEFINE o == [call[c] EXCEPT !.out = "timeout"]
             k == [call[c] EXCEPT !.out = "timeout", !.killed = "no"]
             r == IF call[c].killed = "timer" THEN k ELSE call[c]
             t == Outer(r)
             s == [t EXCEPT !.expires = 0]
  <2>1. Set(c, s) /\ running' = c
    BY <1>3 DEF Runs
  <2>2. o \in CallState /\ k = [o EXCEPT !.killed = "no"]
    BY <1>1 DEF CallState, Outcomes
  <2>3. k \in CallState
    <3> HIDE DEF o, k
    <3> QED BY <2>2 DEF CallState
  <2>4. /\ k.stage = call[c].stage /\ k.at = call[c].at /\ k.sent = call[c].sent
        /\ k.hit = call[c].hit /\ k.tries = call[c].tries /\ k.readAt = call[c].readAt
        /\ k.since = call[c].since /\ k.out = "timeout" /\ k.killed = "no"
    BY <1>1 DEF CallState
  <2> HIDE DEF k
  <2>5. /\ r \in CallState /\ r.at # 0
        /\ r.stage = call[c].stage /\ r.at = call[c].at /\ r.sent = call[c].sent
        /\ r.hit = call[c].hit /\ r.tries = call[c].tries /\ r.readAt = call[c].readAt
        /\ r.since = call[c].since
        /\ \/ r.killed = call[c].killed /\ r.out = call[c].out
           \/ call[c].killed # "no" /\ r.killed = "no" /\ r.out = "timeout"
    BY <1>1, <1>3, <2>3, <2>4 DEF Up, In
  <2> HIDE DEF r
  <2>6. /\ t \in CallState
        /\ t.stage = "up" /\ t.at = call[c].at - 1 /\ t.sent = call[c].sent
        /\ t.hit = call[c].hit /\ t.tries = call[c].tries /\ t.readAt = call[c].readAt
        /\ t.since = call[c].since
        /\ \/ t.killed = call[c].killed /\ t.out = call[c].out
           \/ call[c].killed # "no" /\ t.killed = "no" /\ t.out = "timeout"
    BY <1>3, <2>5, OuterFields DEF Up
  <2> HIDE DEF t
  <2>7. /\ s \in CallState
        /\ s.stage = "up" /\ s.at = call[c].at - 1 /\ s.sent = call[c].sent
        /\ s.hit = call[c].hit /\ s.tries = call[c].tries /\ s.readAt = call[c].readAt
        /\ s.since = call[c].since
        /\ \/ s.killed = call[c].killed /\ s.out = call[c].out
           \/ call[c].killed # "no" /\ s.killed = "no" /\ s.out = "timeout"
    BY <2>6 DEF CallState
  <2> HIDE DEF s
  <2>8. CallInv(c)'
    BY <1>1, <1>3, <2>1, <2>7, SetFacts, Ascends DEF Up, In
  <2>9. QED
    BY <1>1, <2>1, <2>7, <2>8, Moved
<1>4. QED
  BY <1>2, <1>3 DEF Timeout

LEMMA RetryMoves ==
  ASSUME CallsInv, NEW c \in Calls, Retry(c)
  PROVE  CallsInv'
<1>0. breaker' = breaker /\ call[c].stage \in {"down", "up"} /\ call[c].at \in DOMAIN chain
      /\ chain[call[c].at] = "retry"
  BY DEF Retry, shared, Down, Up, In
<1>1. /\ TypeInv /\ CallInv(c) /\ call[c] \in CallState /\ running = c /\ clock \in Nat
      /\ call[c].at # 0
  BY <1>0, OnItsWay DEF TypeInv
<1> DEFINE o == [call[c] EXCEPT !.out = "none"]
           again == [call[c] EXCEPT !.tries = @ + 1, !.out = "none"]
<1>2. o \in CallState /\ again = [o EXCEPT !.tries = call[c].tries + 1]
      /\ call[c].tries + 1 \in Nat
  <2>1. call[c] \in CallState /\ "none" \in Outcomes
    BY <1>1 DEF Outcomes
  <2>2. o \in CallState
    BY <2>1 DEF CallState
  <2>3. call[c].tries \in Nat /\ DOMAIN call[c] = DOMAIN o
    BY <2>1 DEF CallState
  <2>4. again = [o EXCEPT !.tries = call[c].tries + 1]
    BY <2>1 DEF CallState
  <2>5. QED
    BY <2>2, <2>3, <2>4
<1>3. again \in CallState
  <2> HIDE DEF o, again
  <2> QED BY <1>2 DEF CallState
<1>4. /\ again.at = call[c].at /\ again.since = call[c].since /\ Keeps(call[c], again)
      /\ again.tries = call[c].tries + 1 /\ again.out = "none"
  BY <1>1 DEF CallState, Keeps
<1>5. \/ Down(c, "retry") /\ Runs(c, [Inner(call[c]) EXCEPT !.tries = 1])
      \/ Up(c, "retry") /\ ~Retryable(c) /\ Runs(c, [Outer(call[c]) EXCEPT !.tries = 0])
      \/ Up(c, "retry") /\ Retryable(c) /\ Runs(c, Inner(again))
      \/ /\ Up(c, "retry") /\ Retryable(c)
         /\ \E j \in Jitter : Yields(c, Sleep(again, BackoffS * 2^(call[c].tries - 1) + j))
  BY DEF Retry
<1> HIDE DEF again
<1>6. CASE Down(c, "retry") /\ Runs(c, [Inner(call[c]) EXCEPT !.tries = 1])
  <2> DEFINE t == Inner(call[c])
             s == [t EXCEPT !.tries = 1]
  <2>1. Set(c, s) /\ running' = c /\ call[c].stage = "down"
    BY <1>6 DEF Runs, Down
  <2>2. /\ t \in CallState /\ t.stage = "down" /\ t.at = call[c].at + 1
        /\ t.since = call[c].since /\ Keeps(call[c], t)
    BY <1>1, InnerFields DEF Keeps
  <2>3. /\ s \in CallState /\ s.stage = "down" /\ s.at = call[c].at + 1 /\ s.tries = 1
        /\ s.since = call[c].since /\ Keeps(call[c], s)
    <3> HIDE DEF t
    <3> QED BY <2>2 DEF CallState, Keeps
  <2> HIDE DEF s
  <2>4. CallInv(c)'
    BY <1>0, <1>1, <2>1, <2>3, SetFacts, DescendsRetry
  <2>5. QED
    BY <1>1, <2>1, <2>3, <2>4, Moved
<1>7. CASE Up(c, "retry") /\ ~Retryable(c) /\ Runs(c, [Outer(call[c]) EXCEPT !.tries = 0])
  <2> DEFINE t == Outer(call[c])
             s == [t EXCEPT !.tries = 0]
  <2>1. Set(c, s) /\ running' = c /\ call[c].stage = "up"
    BY <1>7 DEF Runs, Up
  <2>2. /\ t \in CallState /\ t.stage = "up" /\ t.at = call[c].at - 1
        /\ t.since = call[c].since /\ t.out = call[c].out /\ t.readAt = call[c].readAt
        /\ Keeps(call[c], t)
    BY <1>1, <2>1, OuterFields DEF Keeps
  <2>3. /\ s \in CallState /\ s.stage = "up" /\ s.at = call[c].at - 1
        /\ s.since = call[c].since /\ s.out = call[c].out /\ s.readAt = call[c].readAt
        /\ Keeps(call[c], s)
    <3> HIDE DEF t
    <3> QED BY <2>2 DEF CallState, Keeps
  <2> HIDE DEF s
  <2>4. CallInv(c)'
    BY <1>1, <1>7, <2>1, <2>3, SetFacts, AscendsRetry
  <2>5. QED
    BY <1>1, <2>1, <2>3, <2>4, Moved
<1>8. CASE Up(c, "retry") /\ Retryable(c) /\ Runs(c, Inner(again))
  <2> DEFINE s == Inner(again)
  <2>1. Set(c, s) /\ running' = c
    BY <1>8 DEF Runs
  <2> HIDE DEF s
  <2>2. /\ s \in CallState /\ s.stage = "down" /\ s.at = call[c].at + 1 /\ s.out = "none"
        /\ s.tries = call[c].tries + 1 /\ s.since = call[c].since /\ Keeps(call[c], s)
    BY <1>3, <1>4, InnerFields DEF s, Keeps
  <2>3. CallInv(c)'
    BY <1>0, <1>1, <1>8, <2>1, <2>2, SetFacts, Retries
  <2>4. QED
    BY <1>1, <2>1, <2>2, <2>3, Moved
<1>9. CASE /\ Up(c, "retry") /\ Retryable(c)
           /\ \E j \in Jitter : Yields(c, Sleep(again, BackoffS * 2^(call[c].tries - 1) + j))
  <2>1. PICK j \in Jitter : Yields(c, Sleep(again, BackoffS * 2^(call[c].tries - 1) + j))
    BY <1>9
  <2>2. call[c].tries - 1 \in Nat
    <3>1. call[c].stage = "up" /\ UnderRetry(c)
      BY <1>0, <1>9 DEF Up, In, UnderRetry
    <3>2. call[c].tries \in 1 .. MaxSends
      BY <1>1, <3>1 DEF CallInv, SendsInv
    <3>3. QED
      BY <1>1, <3>2, ChainFacts
  <2> DEFINE p == 2^(call[c].tries - 1)
             n == BackoffS * p + j
             s == Sleep(again, n)
  <2>3. n \in Nat
    <3>1. p \in Nat
      BY <2>2, PowersAreNat
    <3>2. BackoffS \in Nat /\ j \in Nat
      BY <2>1, MiddlewareAssumption
    <3> HIDE DEF p
    <3>3. QED
      BY <3>1, <3>2
  <2>4. Set(c, s) /\ running' = NoCall
    BY <2>1 DEF Yields
  <2> HIDE DEF n
  <2>5. /\ s \in CallState /\ s.stage = "sleep" /\ s.at = call[c].at /\ s.out = "none"
        /\ s.tries = call[c].tries + 1 /\ s.since = call[c].since /\ Keeps(call[c], s)
    BY <1>1, <1>3, <1>4, <2>3, SleepFields DEF Keeps
  <2> HIDE DEF s
  <2>6. CallInv(c)'
    BY <1>0, <1>1, <1>9, <2>4, <2>5, SetFacts, Retries
  <2>7. QED
    BY <1>1, <2>4, <2>5, <2>6, Moved
<1>10. QED
  BY <1>5, <1>6, <1>7, <1>8, <1>9

-----------------------------------------------------------------------------
(* The shared state that a step leaves alone *)

LEMMA BreakerKept ==
  ASSUME BreakerInv, UNCHANGED breaker
  PROVE  BreakerInv'
BY DEF BreakerInv, BreakerTrips

LEMMA CacheKept ==
  ASSUME CacheInv, UNCHANGED cache
  PROVE  CacheInv'
BY DEF CacheInv

LEMMA RateKept ==
  ASSUME RateInv, UNCHANGED <<clock, bucket, granted>>
  PROVE  RateInv'
BY DEF RateInv, LevelInv, WindowInv

LEMMA StoreKept ==
  ASSUME StoreInv, UNCHANGED <<store, uses>>
  PROVE  StoreInv'
BY DEF StoreInv

-----------------------------------------------------------------------------
(* The circuit breaker *)

LEMMA BreakerDownKeeps ==
  ASSUME CallsInv, SharedInv, NEW c \in Calls, BreakerDown(c)
  PROVE  CallsInv' /\ BreakerInv'
<1>1. /\ call[c].stage = "down" /\ call[c].at \in DOMAIN chain
      /\ chain[call[c].at] = "circuit_breaker"
      /\ Runs(c, IF Cooling THEN Answer(call[c], "unreachable") ELSE Inner(call[c]))
      /\ clock' = clock
  BY DEF BreakerDown, Down, In, Runs, Set
<1>2. CallsInv'
  <2>1. CASE Cooling
    BY <1>1, <2>1, Refuses DEF Outcomes
  <2>2. CASE ~Cooling
    <3>1. ~Cooling'
      <4>1. CASE breaker.state = "open"
        <5>1. breaker' = [breaker EXCEPT !.state = "half_open"]
          BY <2>2, <4>1 DEF BreakerDown
        <5>2. breaker'.state = "half_open"
          BY <5>1 DEF SharedInv, BreakerInv
        <5>3. QED
          BY <5>2 DEF Cooling
      <4>2. CASE breaker.state # "open"
        BY <4>2 DEF BreakerDown, Cooling
      <4>3. QED
        BY <4>1, <4>2
    <3>2. QED
      BY <1>1, <2>2, <3>1, PassesDown
  <2>3. QED
    BY <2>1, <2>2
<1>3. BreakerInv'
  <2>1. CASE breaker.state = "open" /\ ~Cooling
    <3>1. breaker' = [breaker EXCEPT !.state = "half_open"]
      BY <2>1 DEF BreakerDown
    <3>2. QED
      BY <2>1, <3>1 DEF SharedInv, BreakerInv, BreakerTrips
  <2>2. CASE ~(breaker.state = "open" /\ ~Cooling)
    BY <2>2, BreakerKept DEF BreakerDown, SharedInv
  <2>3. QED
    BY <2>1, <2>2
<1>4. QED
  BY <1>2, <1>3

LEMMA BreakerUpKeeps ==
  ASSUME CallsInv, SharedInv, NEW c \in Calls, BreakerUp(c)
  PROVE  CallsInv' /\ BreakerInv'
<1>1. CallsInv'
  BY PassesUp DEF BreakerUp, Up, In
<1>2. /\ breaker \in [state : {"closed", "open", "half_open"}, count : Nat, openedAt : Nat]
      /\ breaker.state = "closed" => breaker.count < Threshold
      /\ clock \in Nat /\ Threshold \in Nat \ {0}
  BY MiddlewareAssumption DEF SharedInv, BreakerInv, BreakerTrips, CallsInv, TypeInv
<1>3. CASE breaker' = OnSuccess(breaker)
  <2> DEFINE t == [breaker EXCEPT !.count = 0]
  <2>1. /\ t \in [state : {"closed", "open", "half_open"}, count : Nat, openedAt : Nat]
        /\ t.count = 0
    BY <1>2
  <2>2. breaker' = [t EXCEPT !.state = "closed"]
    BY <1>2, <1>3 DEF OnSuccess
  <2> HIDE DEF t
  <2>3. QED
    BY <1>1, <1>2, <2>1, <2>2 DEF BreakerInv, BreakerTrips
<1>4. CASE breaker' = OnFailure(breaker)
  BY <1>1, <1>2, <1>4 DEF OnFailure, BreakerInv, BreakerTrips
<1>5. CASE breaker' = breaker
  BY <1>1, <1>5, BreakerKept DEF SharedInv
<1>6. QED
  BY <1>3, <1>4, <1>5 DEF BreakerUp

-----------------------------------------------------------------------------
(* The rate limiter *)

LEMMA OneMore ==
  ASSUME NEW n \in Int, NEW u \in Int
  PROVE  (n + 1) * u = n * u + u
OBVIOUS

LEMMA Quotient ==
  ASSUME NEW n \in Nat, NEW d \in Nat \ {0}
  PROVE  n \div d \in Nat
OBVIOUS

\* A token given moves from the level to the grants; a second adds what it refills.
LEMMA FitsStep ==
  ASSUME NEW n \in Int, NEW level \in Nat, NEW burst \in Nat, NEW rate \in Nat, NEW d \in Int,
         Fits(n, level, burst, rate, d)
  PROVE  /\ Unit <= level => /\ Fits(n + 1, level - Unit, burst, rate, d)
                             /\ Fits(n + 1, 0, burst, rate, d)
         /\ \A more \in Nat : more <= level + rate => Fits(n, more, burst, rate, d + 1)
<1>1. Unit \in Nat
  BY MiddlewareAssumption
<1> DEFINE w == n * Unit
           x == rate * d
<1>2. w \in Int /\ x \in Int
  BY <1>1
<1>3. w + level <= burst + x
  BY DEF Fits
<1>4. (n + 1) * Unit = w + Unit
  BY <1>1, OneMore
<1>5. rate * (d + 1) = x + rate
  BY OneMore
<1> HIDE DEF w, x
<1>6. Unit <= level => (w + Unit) + (level - Unit) <= burst + x /\ (w + Unit) + 0 <= burst + x
  BY <1>1, <1>2, <1>3
<1>7. \A more \in Nat : more <= level + rate => w + more <= burst + (x + rate)
  BY <1>2, <1>3
<1>8. QED
  BY <1>4, <1>5, <1>6, <1>7 DEF Fits, w, x

LEMMA FitsNow ==
  ASSUME NEW level \in Nat, NEW burst \in Nat, NEW rate \in Nat, Unit <= level, level <= burst
  PROVE  Fits(1, level - Unit, burst, rate, 0) /\ Fits(1, 0, burst, rate, 0)
<1>1. Unit \in Nat /\ 1 * Unit = Unit /\ rate * 0 = 0
  BY MiddlewareAssumption
<1>2. QED
  BY <1>1 DEF Fits

LEMMA GrantIsCovered ==
  ASSUME NEW g \in Seq(Nat), NEW level \in Nat, NEW burst \in Nat, NEW rate \in Nat,
         NEW now \in Nat, Unit <= level, level <= burst,
         Covered(g, level, burst, rate, now), InWindow(g, burst, rate)
  PROVE  /\ Covered(Append(g, now), level - Unit, burst, rate, now)
         /\ InWindow(Append(g, now), burst, rate)
<1> DEFINE h == Append(g, now)
           n == Len(g)
<1>1. /\ n \in Nat /\ DOMAIN g = 1 .. n /\ \A i \in 1 .. n : g[i] \in Nat
  BY LenProperties, ElementOfSeq
<1>2. /\ h \in Seq(Nat) /\ Len(h) = n + 1
      /\ \A i \in 1 .. n : h[i] = g[i]
      /\ h[n + 1] = now
  BY AppendProperties
<1>3. DOMAIN h = 1 .. n + 1
  BY <1>2, LenProperties
<1> HIDE DEF h
<1>4. ASSUME NEW i \in 1 .. n
      PROVE  /\ h[i] <= now
             /\ Fits(n + 1 - i + 1, level - Unit, burst, rate, now - h[i])
             /\ Fits(n + 1 - i + 1, 0, burst, rate, now - h[i])
  <2>1. h[i] = g[i] /\ g[i] <= now /\ Fits(n - i + 1, level, burst, rate, now - g[i])
    BY <1>1, <1>2, <1>4 DEF Covered
  <2>2. n - i + 1 \in Int /\ n + 1 - i + 1 = (n - i + 1) + 1 /\ now - g[i] \in Int
    BY <1>1, <1>4
  <2>3. /\ Fits((n - i + 1) + 1, level - Unit, burst, rate, now - g[i])
        /\ Fits((n - i + 1) + 1, 0, burst, rate, now - g[i])
    BY <2>1, <2>2, FitsStep
  <2>4. QED
    BY <2>1, <2>2, <2>3
<1>5. /\ h[n + 1] <= now
      /\ Fits(n + 1 - (n + 1) + 1, level - Unit, burst, rate, now - h[n + 1])
      /\ Fits((n + 1) - (n + 1) + 1, 0, burst, rate, h[n + 1] - h[n + 1])
  <2>1. n + 1 - (n + 1) + 1 = 1 /\ now - h[n + 1] = 0 /\ h[n + 1] - h[n + 1] = 0
    BY <1>1, <1>2
  <2>2. QED
    BY <1>2, <2>1, FitsNow
<1>6. Covered(h, level - Unit, burst, rate, now)
  <2> SUFFICES ASSUME NEW i \in DOMAIN h
               PROVE  /\ h[i] <= now
                      /\ Fits(Len(h) - i + 1, level - Unit, burst, rate, now - h[i])
    BY DEF Covered
  <2>1. CASE i \in 1 .. n
    BY <1>2, <1>4, <2>1, SMTT(30)
  <2>2. CASE i = n + 1
    BY <1>2, <1>5, <2>2
  <2>3. QED
    BY <1>1, <1>3, <2>1, <2>2
<1>7. InWindow(h, burst, rate)
  <2> SUFFICES ASSUME NEW i \in 1 .. n + 1, NEW j \in 1 .. n + 1, i <= j
               PROVE  Fits(j - i + 1, 0, burst, rate, h[j] - h[i])
    BY <1>3 DEF InWindow
  <2>1. CASE j \in 1 .. n
    <3>1. i \in 1 .. n
      BY <1>1, <2>1
    <3>2. h[i] = g[i] /\ h[j] = g[j]
      BY <1>2, <2>1, <3>1
    <3>3. QED
      BY <1>1, <2>1, <3>1, <3>2 DEF InWindow
  <2>2. CASE j = n + 1 /\ i \in 1 .. n
    BY <1>2, <1>4, <2>2
  <2>3. CASE j = n + 1 /\ i = n + 1
    BY <1>5, <2>3
  <2>4. QED
    BY <1>1, <2>1, <2>2, <2>3
<1>8. QED
  BY <1>6, <1>7 DEF h

LEMMA TimeCovers ==
  ASSUME NEW g \in Seq(Nat), NEW level \in Nat, NEW more \in Nat, NEW burst \in Nat,
         NEW rate \in Nat, NEW now \in Nat, more <= level + rate,
         Covered(g, level, burst, rate, now)
  PROVE  Covered(g, more, burst, rate, now + 1)
<1>1. Len(g) \in Nat /\ DOMAIN g = 1 .. Len(g) /\ \A i \in 1 .. Len(g) : g[i] \in Nat
  BY LenProperties, ElementOfSeq
<1>2. ASSUME NEW i \in DOMAIN g
      PROVE  g[i] <= now + 1 /\ Fits(Len(g) - i + 1, more, burst, rate, now + 1 - g[i])
  <2>1. g[i] <= now /\ Fits(Len(g) - i + 1, level, burst, rate, now - g[i])
    BY DEF Covered
  <2>2. /\ Len(g) - i + 1 \in Int /\ now - g[i] \in Int /\ g[i] \in Nat
        /\ now + 1 - g[i] = (now - g[i]) + 1
    BY <1>1, SMTT(30)
  <2>3. Fits(Len(g) - i + 1, more, burst, rate, (now - g[i]) + 1)
    BY <2>1, <2>2, FitsStep
  <2>4. QED
    BY <2>1, <2>2, <2>3
<1>3. QED
  BY <1>2, SMTT(30) DEF Covered

LEMMA BucketFacts ==
  ASSUME RateInv, NEW b \in Buckets
  PROVE  /\ bucket[b] \in Nat /\ Burst[b] \in Nat /\ Rate[b] \in Nat \ {0}
         /\ Unit \in Nat \ {0}
         /\ bucket[b] <= Burst[b] /\ granted[b] \in Seq(Nat)
         /\ LevelInv(b) /\ WindowInv(b)
<1>1. bucket[b] \in Nat /\ granted[b] \in Seq(Nat)
  BY DEF RateInv
<1>2. Burst[b] \in Nat /\ Rate[b] \in Nat \ {0} /\ Unit \in Nat \ {0}
  BY MiddlewareAssumption
<1>3. QED
  BY <1>1, <1>2 DEF RateInv

\* A bucket gives a token only if it holds one.
LEMMA TakeKeeps ==
  ASSUME RateInv, clock \in Nat, clock' = clock, NEW bs \in SUBSET Buckets,
         \A b \in bs : bucket[b] >= Unit, Take(bs)
  PROVE  RateInv'
<1>1. \A b \in bs : bucket'[b] = bucket[b] - Unit /\ granted'[b] = Append(granted[b], clock)
  BY DEF Take
<1>2. \A b \in Buckets \ bs : bucket'[b] = bucket[b] /\ granted'[b] = granted[b]
  BY DEF Take
<1>3. \A b \in bs : Append(granted[b], clock) \in Seq(Nat)
  BY BucketFacts, AppendProperties
<1>4. bucket' \in [Buckets -> Nat]
  <2>1. \A b \in Buckets : bucket[b] \in Nat /\ Unit \in Nat
    BY BucketFacts
  <2>2. \A b \in Buckets : (IF b \in bs THEN bucket[b] - Unit ELSE bucket[b]) \in Nat
    BY <2>1
  <2>3. QED
    BY <2>2 DEF Take
<1>5. granted' \in [Buckets -> Seq(Nat)]
  <2>1. \A b \in Buckets :
           (IF b \in bs THEN Append(granted[b], clock) ELSE granted[b]) \in Seq(Nat)
    BY <1>3, BucketFacts
  <2>2. QED
    BY <2>1 DEF Take
<1>6. ASSUME NEW b \in bs
      PROVE  bucket'[b] <= Burst[b] /\ LevelInv(b)' /\ WindowInv(b)'
  <2>1. /\ bucket[b] \in Nat /\ Burst[b] \in Nat /\ Rate[b] \in Nat /\ Unit \in Nat
        /\ bucket[b] <= Burst[b] /\ Unit <= bucket[b] /\ granted[b] \in Seq(Nat)
        /\ Covered(granted[b], bucket[b], Burst[b], Rate[b], clock)
        /\ InWindow(granted[b], Burst[b], Rate[b])
    BY BucketFacts DEF LevelInv, WindowInv
  <2>2. /\ Covered(Append(granted[b], clock), bucket[b] - Unit, Burst[b], Rate[b], clock)
        /\ InWindow(Append(granted[b], clock), Burst[b], Rate[b])
    BY <2>1, GrantIsCovered
  <2>3. LevelInv(b)' /\ WindowInv(b)'
    BY <1>1, <2>2 DEF LevelInv, WindowInv
  <2>4. QED
    BY <1>1, <2>1, <2>3
<1>7. ASSUME NEW b \in Buckets \ bs
      PROVE  bucket'[b] <= Burst[b] /\ LevelInv(b)' /\ WindowInv(b)'
  <2>1. bucket[b] <= Burst[b] /\ LevelInv(b) /\ WindowInv(b)
    BY BucketFacts
  <2>2. QED
    BY <1>2, <2>1 DEF LevelInv, WindowInv
<1>8. QED
  BY <1>4, <1>5, <1>6, <1>7 DEF RateInv

\* The clock moves on by one and every bucket by what it refills.
LEMMA TickRates ==
  ASSUME RateInv, clock \in Nat, Tick
  PROVE  RateInv'
<1>1. /\ clock' = clock + 1 /\ granted' = granted
      /\ bucket' = [b \in Buckets |-> Refill(b)]
  BY DEF Tick
<1>2. \A b \in Buckets : /\ Refill(b) \in Nat /\ Refill(b) <= Burst[b]
                         /\ Refill(b) <= bucket[b] + Rate[b]
  BY BucketFacts DEF Refill
<1>3. bucket' \in [Buckets -> Nat] /\ granted' \in [Buckets -> Seq(Nat)]
  BY <1>1, <1>2 DEF RateInv
<1>4. ASSUME NEW b \in Buckets
      PROVE  bucket'[b] <= Burst[b] /\ LevelInv(b)' /\ WindowInv(b)'
  <2>1. /\ bucket[b] \in Nat /\ Burst[b] \in Nat /\ Rate[b] \in Nat /\ granted[b] \in Seq(Nat)
        /\ Covered(granted[b], bucket[b], Burst[b], Rate[b], clock)
        /\ WindowInv(b)
    BY BucketFacts DEF LevelInv
  <2>2. Covered(granted[b], Refill(b), Burst[b], Rate[b], clock + 1)
    BY <1>2, <2>1, TimeCovers
  <2>3. LevelInv(b)' /\ WindowInv(b)'
    BY <1>1, <2>1, <2>2 DEF LevelInv, WindowInv
  <2>4. QED
    BY <1>1, <1>2, <2>3
<1>5. QED
  BY <1>3, <1>4 DEF RateInv


LEMMA RateLimitKeeps ==
  ASSUME CallsInv, RateInv, NEW c \in Calls, RateLimit(c)
  PROVE  CallsInv' /\ RateInv'
<1> DEFINE has == {b \in {Global, RobotOf[c]} : bucket[b] >= Unit}
<1>0. clock \in Nat /\ has \in SUBSET Buckets
  BY MiddlewareAssumption DEF CallsInv, TypeInv, Buckets
<1>1. CASE Up(c, "rate_limit") /\ Runs(c, Outer(call[c])) /\ UNCHANGED <<bucket, granted>>
  BY <1>1, PassesUp, RateKept DEF Up, In, Runs, Set
<1>2. CASE /\ Down(c, "rate_limit")
           /\ Runs(c, IF {Global, RobotOf[c]} \subseteq has
                      THEN Inner(call[c]) ELSE Answer(call[c], "unreachable"))
           /\ Take(IF Global \in has THEN has ELSE {})
  <2>1. CallsInv'
    <3>1. "unreachable" \in Outcomes \ {"ok"} /\ breaker' = breaker
      BY DEF Outcomes, RateLimit
    <3>2. QED
      BY <1>2, <3>1, PassesDown, Refuses DEF Down, In
  <2>2. PICK bs \in SUBSET Buckets : Take(bs) /\ \A b \in bs : bucket[b] >= Unit
    BY <1>0, <1>2
  <2>3. clock' = clock
    BY <1>2 DEF Runs, Set
  <2>4. RateInv'
    BY <1>0, <2>2, <2>3, TakeKeeps
  <2>5. QED
    BY <2>1, <2>4
<1>3. QED
  BY <1>1, <1>2 DEF RateLimit

LEMMA RateLimitBlockKeeps ==
  ASSUME CallsInv, RateInv, NEW c \in Calls, RateLimitBlock(c)
  PROVE  CallsInv' /\ RateInv'
<1> DEFINE b == call[c].asks
           wait == (Unit - bucket[b] + Rate[b] - 1) \div Rate[b]
<1>0. breaker' = breaker /\ call[c].stage \in {"down", "up"} /\ call[c].at \in DOMAIN chain
      /\ chain[call[c].at] = "rate_limit_block" /\ In(c, "rate_limit_block")
  BY DEF RateLimitBlock, Down, Up, In
<1>1. /\ TypeInv /\ CallInv(c) /\ call[c] \in CallState /\ running = c /\ clock \in Nat
      /\ b \in Buckets /\ call[c].at # 0
  BY <1>0, OnItsWay DEF TypeInv, CallState
<1>2. \/ /\ call[c].stage = "down" /\ bucket[b] < Unit /\ Yields(c, Sleep(call[c], wait))
         /\ UNCHANGED <<bucket, granted>>
      \/ /\ call[c].stage = "up" /\ Runs(c, Outer(call[c])) /\ UNCHANGED <<bucket, granted>>
      \/ /\ call[c].stage = "down" /\ bucket[b] >= Unit /\ Take({b})
         /\ Runs(c, IF b = Global THEN [call[c] EXCEPT !.asks = RobotOf[c]]
                    ELSE [Inner(call[c]) EXCEPT !.asks = Global])
  BY DEF RateLimitBlock, Down, Up
<1>3. CASE /\ call[c].stage = "down" /\ bucket[b] < Unit /\ Yields(c, Sleep(call[c], wait))
           /\ UNCHANGED <<bucket, granted>>
  <2>1. wait \in Nat
    <3>1. bucket[b] \in Nat /\ Unit \in Nat /\ Rate[b] \in Nat \ {0}
      BY <1>1, BucketFacts
    <3>2. Unit - bucket[b] + Rate[b] - 1 \in Nat
      BY <1>3, <3>1
    <3>3. QED
      BY <3>1, <3>2, Quotient
  <2> DEFINE s == Sleep(call[c], wait)
  <2>2. Set(c, s) /\ running' = NoCall
    BY <1>3 DEF Yields
  <2> HIDE DEF wait
  <2>3. /\ s \in CallState /\ s.stage = "sleep" /\ s.at = call[c].at
        /\ s.tries = call[c].tries /\ s.since = call[c].since /\ Keeps(call[c], s)
    BY <1>1, <2>1, SleepFields DEF Keeps
  <2> HIDE DEF s
  <2>4. CallInv(c)'
    BY <1>0, <1>1, <1>3, <2>2, <2>3, SetFacts, Waits DEF Down
  <2>5. CallsInv'
    BY <1>1, <2>2, <2>3, <2>4, Moved
  <2>6. QED
    BY <1>3, <2>2, <2>5, RateKept DEF Set
<1>4. CASE /\ call[c].stage = "up" /\ Runs(c, Outer(call[c])) /\ UNCHANGED <<bucket, granted>>
  BY <1>0, <1>4, PassesUp, RateKept DEF Runs, Set
<1>5. CASE /\ call[c].stage = "down" /\ bucket[b] >= Unit /\ Take({b})
           /\ Runs(c, IF b = Global THEN [call[c] EXCEPT !.asks = RobotOf[c]]
                      ELSE [Inner(call[c]) EXCEPT !.asks = Global])
  <2>1. RateInv'
    <3>1. clock' = clock
      BY <1>5 DEF Runs, Set
    <3>2. {b} \in SUBSET Buckets /\ \A x \in {b} : bucket[x] >= Unit
      BY <1>1, <1>5
    <3>3. QED
      BY <1>1, <1>5, <3>1, <3>2, TakeKeeps
  <2>2. CASE b = Global
    <3> DEFINE s == [call[c] EXCEPT !.asks = RobotOf[c]]
    <3>1. Set(c, s) /\ running' = c
      BY <1>5, <2>2 DEF Runs
    <3>2. RobotOf[c] \in Buckets
      BY MiddlewareAssumption DEF Buckets
    <3>3. /\ s \in CallState /\ s.stage = "down" /\ s.at = call[c].at
          /\ s.tries = call[c].tries /\ s.since = call[c].since /\ Keeps(call[c], s)
      BY <1>1, <1>5, <3>2 DEF CallState, Keeps
    <3> HIDE DEF s
    <3>4. CallInv(c)'
      BY <1>0, <1>1, <1>5, <3>1, <3>3, SetFacts, Asks
    <3>5. QED
      BY <1>1, <2>1, <3>1, <3>3, <3>4, Moved
  <2>3. CASE b # Global
    <3> DEFINE t == Inner(call[c])
               s == [t EXCEPT !.asks = Global]
    <3>1. Set(c, s) /\ running' = c
      BY <1>5, <2>3 DEF Runs
    <3>2. /\ t \in CallState /\ t.stage = "down" /\ t.at = call[c].at + 1
          /\ t.tries = call[c].tries /\ t.since = call[c].since /\ Keeps(call[c], t)
      BY <1>1, InnerFields DEF Keeps
    <3>3. /\ s \in CallState /\ s.stage = "down" /\ s.at = call[c].at + 1
          /\ s.tries = call[c].tries /\ s.since = call[c].since /\ Keeps(call[c], s)
      <4> HIDE DEF t
      <4> QED BY <3>2 DEF CallState, Keeps, Buckets
    <3> HIDE DEF s
    <3>4. CallInv(c)'
      BY <1>0, <1>1, <1>5, <3>1, <3>3, SetFacts, Descends
    <3>5. QED
      BY <1>1, <2>1, <3>1, <3>3, <3>4, Moved
  <2>4. QED
    BY <2>2, <2>3
<1>6. QED
  BY <1>2, <1>3, <1>4, <1>5

-----------------------------------------------------------------------------
(* The cache *)

LEMMA RemoveAtFacts ==
  ASSUME NEW S, NEW s \in Seq(S), NEW i \in 1 .. Len(s)
  PROVE  /\ RemoveAt(s, i) \in Seq(S)
         /\ Len(RemoveAt(s, i)) = Len(s) - 1
         /\ \A j \in 1 .. Len(s) - 1 :
               RemoveAt(s, i)[j] = IF j < i THEN s[j] ELSE s[j + 1]
<1> DEFINE a == SubSeq(s, 1, i - 1)
           b == SubSeq(s, i + 1, Len(s))
<1>1. Len(s) \in Nat /\ i \in Int /\ i - 1 \in Int /\ i + 1 \in Int
  BY LenProperties
<1>2. \A j \in 1 .. Len(s) : s[j] \in S
  BY ElementOfSeq
<1>3. a \in Seq(S) /\ Len(a) = i - 1 /\ \A j \in 1 .. i - 1 : a[j] = s[j]
  <2>1. \A j \in 1 .. i - 1 : s[j] \in S
    BY <1>1, <1>2
  <2>2. /\ a \in Seq(S) /\ Len(a) = IF 1 <= i - 1 THEN (i - 1) - 1 + 1 ELSE 0
        /\ \A j \in 1 .. (i - 1) - 1 + 1 : a[j] = s[1 + j - 1]
    BY <1>1, <2>1, SubSeqProperties
  <2> HIDE DEF a
  <2>3. \A j \in 1 .. i - 1 : 1 + j - 1 = j
    OBVIOUS
  <2>4. QED
    BY <1>1, <2>2, <2>3
<1>4. b \in Seq(S) /\ Len(b) = Len(s) - i /\ \A j \in 1 .. Len(s) - i : b[j] = s[i + j]
  <2>1. \A j \in i + 1 .. Len(s) : s[j] \in S
    BY <1>1, <1>2
  <2>2. /\ b \in Seq(S) /\ Len(b) = IF i + 1 <= Len(s) THEN Len(s) - (i + 1) + 1 ELSE 0
        /\ \A j \in 1 .. Len(s) - (i + 1) + 1 : b[j] = s[(i + 1) + j - 1]
    BY <1>1, <2>1, SubSeqProperties
  <2> HIDE DEF b
  <2>3. \A j \in 1 .. Len(s) - i : (i + 1) + j - 1 = i + j
    OBVIOUS
  <2>4. QED
    BY <1>1, <2>2, <2>3
<1>5. RemoveAt(s, i) = a \o b
  BY DEF RemoveAt
<1> HIDE DEF a, b
<1>6. /\ a \o b \in Seq(S) /\ Len(a \o b) = Len(s) - 1
      /\ \A j \in 1 .. Len(s) - 1 : (a \o b)[j] = IF j <= i - 1 THEN a[j] ELSE b[j - (i - 1)]
  <2>1. /\ a \o b \in Seq(S) /\ Len(a \o b) = Len(a) + Len(b)
        /\ \A j \in 1 .. Len(a) + Len(b) :
              (a \o b)[j] = IF j <= Len(a) THEN a[j] ELSE b[j - Len(a)]
    BY <1>3, <1>4, ConcatProperties
  <2>2. Len(a) = i - 1 /\ Len(a) + Len(b) = Len(s) - 1
    BY <1>1, <1>3, <1>4
  <2>3. QED
    BY <2>1, <2>2
<1>7. ASSUME NEW j \in 1 .. Len(s) - 1
      PROVE  (a \o b)[j] = IF j < i THEN s[j] ELSE s[j + 1]
  <2>1. CASE j < i
    BY <1>1, <1>3, <1>6, <2>1
  <2>2. CASE ~(j < i)
    <3>1. j - (i - 1) \in 1 .. Len(s) - i /\ i + (j - (i - 1)) = j + 1
      BY <1>1, <2>2
    <3>2. b[j - (i - 1)] = s[j + 1]
      BY <1>4, <3>1
    <3>3. QED
      BY <1>1, <1>6, <2>2, <3>2
  <2>3. QED
    BY <2>1, <2>2
<1>8. QED
  BY <1>5, <1>6, <1>7

LEMMA WithoutFacts ==
  ASSUME CacheInv, NEW k
  PROVE  /\ Without(k) \in Seq(CacheEntry)
         /\ Len(Without(k)) \in Nat
         /\ Len(Without(k)) <= MaxSize
         /\ At(k) # {} => Len(Without(k)) <= MaxSize - 1
<1>1. /\ cache \in Seq(CacheEntry) /\ Len(cache) \in Nat /\ Len(cache) <= MaxSize
      /\ DOMAIN cache = 1 .. Len(cache) /\ MaxSize \in Nat
  BY LenProperties, MiddlewareAssumption DEF CacheInv
<1>2. CASE At(k) = {}
  BY <1>1, <1>2 DEF Without
<1>3. CASE At(k) # {}
  <2>1. PICK i \in At(k) : Without(k) = RemoveAt(cache, i)
    BY <1>3 DEF Without
  <2>2. i \in 1 .. Len(cache)
    BY <1>1 DEF At
  <2>3. RemoveAt(cache, i) \in Seq(CacheEntry) /\ Len(RemoveAt(cache, i)) = Len(cache) - 1
    BY <1>1, <2>2, RemoveAtFacts
  <2>4. QED
    BY <1>1, <1>3, <2>1, <2>2, <2>3
<1>4. QED
  BY <1>2, <1>3

LEMMA InvalidateKeeps ==
  ASSUME CacheInv, Invalidate
  PROVE  CacheInv'
<1>1. CASE cache' = <<>>
  <2>1. <<>> \in Seq(CacheEntry) /\ Len(<<>>) = 0
    BY EmptySeq
  <2>2. QED
    BY <1>1, <2>1, MiddlewareAssumption DEF CacheInv, CacheEntry
<1>2. CASE \E c \in Calls : cache' = Without(Key[c])
  <2>1. PICK k : cache' = Without(k)
    BY <1>2
  <2>2. QED
    BY <2>1, WithoutFacts DEF CacheInv, CacheEntry
<1>3. QED
  BY <1>1, <1>2 DEF Invalidate

LEMMA CacheDownKeeps ==
  ASSUME CallsInv, CacheInv, NEW c \in Calls, CacheDown(c)
  PROVE  CallsInv' /\ CacheInv'
<1> DEFINE k == Key[c]
<1>0. breaker' = breaker /\ call[c].stage = "down" /\ call[c].at \in DOMAIN chain
      /\ chain[call[c].at] = "cache"
  BY DEF CacheDown, Down, In
<1>1. /\ TypeInv /\ CallInv(c) /\ call[c] \in CallState /\ running = c /\ clock \in Nat
      /\ call[c].at # 0
  BY <1>0, OnItsWay DEF TypeInv
<1>2. CASE Runs(c, Inner(call[c])) /\ UNCHANGED cache
  BY <1>0, <1>2, PassesDown, CacheKept
<1>3. CASE \E i \in Fresh(k) :
              /\ Runs(c, [Answer(call[c], "ok") EXCEPT !.readAt = cache[i].readAt, !.hit = TRUE])
              /\ cache' = Append(Without(k), cache[i])
  <2>1. PICK i \in Fresh(k) :
              /\ Runs(c, [Answer(call[c], "ok") EXCEPT !.readAt = cache[i].readAt, !.hit = TRUE])
              /\ cache' = Append(Without(k), cache[i])
    BY <1>3
  <2> DEFINE e == cache[i]
             t == Answer(call[c], "ok")
             u == [t EXCEPT !.readAt = e.readAt]
             s == [t EXCEPT !.readAt = e.readAt, !.hit = TRUE]
  <2>2. i \in At(k) /\ clock - e.at < TtlS
    BY DEF Fresh
  <2>3. e \in CacheEntry
    <3>1. i \in 1 .. Len(cache)
      BY <2>2, LenProperties DEF At, CacheInv
    <3>2. QED
      BY <3>1, ElementOfSeq DEF CacheInv
  <2>4. e.readAt \in Nat /\ clock - e.readAt < TtlS
    <3>1. e.readAt \in Nat /\ e.at \in Nat /\ e.at <= e.readAt /\ TtlS \in Nat
      BY <2>3, MiddlewareAssumption DEF CacheEntry
    <3>2. QED
      BY <1>1, <2>2, <3>1
  <2>5. CacheInv'
    <3>1. /\ Without(k) \in Seq(CacheEntry) /\ Len(Without(k)) \in Nat
          /\ Len(Without(k)) <= MaxSize - 1
      BY <2>2, WithoutFacts
    <3>2. /\ Append(Without(k), e) \in Seq(CacheEntry)
          /\ Len(Append(Without(k), e)) = Len(Without(k)) + 1
      BY <2>3, <3>1, AppendProperties
    <3>3. cache' \in Seq(CacheEntry) /\ Len(cache') <= MaxSize
      BY <2>1, <3>1, <3>2, MiddlewareAssumption
    <3>4. QED
      BY <3>3 DEF CacheInv, CacheEntry
  <2>6. Set(c, s) /\ running' = c
    BY <2>1 DEF Runs
  <2>7. /\ t \in CallState /\ t.stage = "up" /\ t.at = call[c].at - 1 /\ t.out = "ok"
        /\ t.sent = call[c].sent /\ t.tries = call[c].tries /\ t.since = call[c].since
        /\ t.killed = call[c].killed
    BY <1>1, AnswerFields DEF Outcomes
  <2> HIDE DEF t, e
  <2>8. u \in CallState /\ s = [u EXCEPT !.hit = TRUE]
    BY <2>4, <2>7 DEF CallState
  <2>9. s \in CallState
    <3> HIDE DEF u, s
    <3> QED BY <2>8 DEF CallState
  <2>10. /\ s.stage = "up" /\ s.at = call[c].at - 1 /\ s.out = "ok"
         /\ s.sent = call[c].sent /\ s.tries = call[c].tries /\ s.since = call[c].since
         /\ s.killed = call[c].killed /\ clock - s.readAt < TtlS
    BY <2>4, <2>7 DEF CallState
  <2> HIDE DEF s
  <2>11. CallInv(c)'
    BY <1>0, <1>1, <2>6, <2>9, <2>10, SetFacts, Answers
  <2>12. CallsInv'
    BY <1>1, <2>6, <2>9, <2>11, Moved
  <2>13. QED
    BY <2>5, <2>12
<1>4. CASE Runs(c, [Inner(call[c]) EXCEPT !.since = clock]) /\ cache' = Without(k)
  <2> DEFINE t == Inner(call[c])
             s == [t EXCEPT !.since = clock]
  <2>1. Set(c, s) /\ running' = c
    BY <1>4 DEF Runs
  <2>2. /\ t \in CallState /\ t.stage = "down" /\ t.at = call[c].at + 1
        /\ t.tries = call[c].tries /\ Keeps(call[c], t)
    BY <1>1, InnerFields DEF Keeps
  <2>3. /\ s \in CallState /\ s.stage = "down" /\ s.at = call[c].at + 1
        /\ s.tries = call[c].tries /\ s.since = clock /\ Keeps(call[c], s)
    <3> HIDE DEF t
    <3> QED BY <1>1, <2>2 DEF CallState, Keeps
  <2> HIDE DEF s
  <2>4. CallInv(c)'
    BY <1>0, <1>1, <2>1, <2>3, SetFacts, Descends
  <2>5. CallsInv'
    BY <1>1, <2>1, <2>3, <2>4, Moved
  <2>6. CacheInv'
    BY <1>4, WithoutFacts DEF CacheInv, CacheEntry
  <2>7. QED
    BY <2>5, <2>6
<1>5. QED
  BY <1>2, <1>3, <1>4 DEF CacheDown

\* Whatever the cache gives up or overwrites, it stays within its size.
LEMMA FillFacts ==
  ASSUME CacheInv, NEW c \in Calls, Entry(c) \in CacheEntry
  PROVE  Fill(c) \in Seq(CacheEntry) /\ Len(Fill(c)) <= MaxSize
<1> DEFINE kept == IF Len(cache) >= MaxSize THEN Tail(cache) ELSE cache
           over == [i \in DOMAIN kept |-> IF kept[i].key = Key[c] THEN Entry(c) ELSE kept[i]]
<1>1. /\ cache \in Seq(CacheEntry) /\ Len(cache) \in Nat /\ Len(cache) <= MaxSize
      /\ MaxSize \in Nat \ {0}
  BY LenProperties, MiddlewareAssumption DEF CacheInv
<1>2. kept \in Seq(CacheEntry) /\ Len(kept) + 1 <= MaxSize /\ Len(kept) \in Nat
  <2>1. CASE Len(cache) >= MaxSize
    <3>1. cache # <<>>
      BY <1>1, <2>1, EmptySeq
    <3>2. Tail(cache) \in Seq(CacheEntry) /\ Len(Tail(cache)) = Len(cache) - 1
      BY <1>1, <3>1, HeadTailProperties
    <3>3. QED
      BY <1>1, <2>1, <3>2
  <2>2. CASE ~(Len(cache) >= MaxSize)
    BY <1>1, <2>2
  <2>3. QED
    BY <2>1, <2>2
<1>3. Fill(c) = over \/ Fill(c) = Append(kept, Entry(c))
  BY DEF Fill
<1> HIDE DEF kept
<1>4. over \in Seq(CacheEntry) /\ Len(over) = Len(kept)
  <2>1. DOMAIN kept = 1 .. Len(kept) /\ \A i \in 1 .. Len(kept) : kept[i] \in CacheEntry
    BY <1>2, LenProperties, ElementOfSeq
  <2>2. over \in [1 .. Len(kept) -> CacheEntry]
    BY <2>1
  <2> HIDE DEF over
  <2>3. over \in Seq(CacheEntry)
    BY <1>2, <2>2, SeqDef
  <2>4. Len(over) \in Nat /\ 1 .. Len(over) = 1 .. Len(kept)
    BY <2>2, <2>3, LenProperties
  <2>5. QED
    BY <1>2, <2>3, <2>4
<1>5. Append(kept, Entry(c)) \in Seq(CacheEntry) /\ Len(Append(kept, Entry(c))) = Len(kept) + 1
  BY <1>2, AppendProperties
<1>6. Len(over) <= MaxSize /\ Len(Append(kept, Entry(c))) <= MaxSize
  BY <1>1, <1>2, <1>4, <1>5
<1> HIDE DEF over
<1>7. QED
  BY <1>3, <1>4, <1>5, <1>6

LEMMA CacheUpKeeps ==
  ASSUME CallsInv, CacheInv, NEW c \in Calls, CacheUp(c)
  PROVE  CallsInv' /\ CacheInv'
<1>0. breaker' = breaker /\ call[c].stage = "up" /\ call[c].at \in DOMAIN chain
      /\ chain[call[c].at] = "cache" /\ Runs(c, [Outer(call[c]) EXCEPT !.since = 0])
  BY DEF CacheUp, Up, In
<1>1. /\ TypeInv /\ CallInv(c) /\ call[c] \in CallState /\ running = c /\ clock \in Nat
      /\ call[c].at # 0
  BY <1>0, OnItsWay DEF TypeInv
<1>2. CallsInv'
  <2> DEFINE t == Outer(call[c])
             s == [t EXCEPT !.since = 0]
  <2>1. Set(c, s) /\ running' = c
    BY <1>0 DEF Runs
  <2>2. /\ t \in CallState /\ t.stage = "up" /\ t.at = call[c].at - 1
        /\ t.sent = call[c].sent /\ t.hit = call[c].hit /\ t.tries = call[c].tries
        /\ t.readAt = call[c].readAt /\ t.killed = call[c].killed /\ t.out = call[c].out
    BY <1>0, <1>1, OuterFields
  <2>3. /\ s \in CallState /\ s.stage = "up" /\ s.at = call[c].at - 1
        /\ s.sent = call[c].sent /\ s.hit = call[c].hit /\ s.tries = call[c].tries
        /\ s.readAt = call[c].readAt /\ s.since = 0
        /\ s.killed = call[c].killed /\ s.out = call[c].out
    <3> HIDE DEF t
    <3> QED BY <2>2 DEF CallState
  <2> HIDE DEF s
  <2>4. CallInv(c)'
    BY <1>0, <1>1, <2>1, <2>3, SetFacts, Ascends
  <2>5. QED
    BY <1>1, <2>1, <2>3, <2>4, Moved
<1>3. CacheInv'
  <2>1. CASE cache' = Fill(c) /\ call[c].out = "ok"
    <3>1. UnderCache(c)
      BY <1>0, <1>1, ChainFacts DEF UnderCache
    <3>2. call[c].since <= call[c].readAt
      BY <1>0, <1>1, <2>1, <3>1 DEF CallInv, ReadInv
    <3>3. Entry(c) \in CacheEntry
      BY <1>1, <3>2 DEF Entry, CacheEntry, CallState
    <3>4. QED
      BY <2>1, <3>3, FillFacts DEF CacheInv, CacheEntry
  <2>2. CASE cache' = cache
    BY <2>2, CacheKept
  <2>3. QED
    BY <2>1, <2>2 DEF CacheUp
<1>4. QED
  BY <1>2, <1>3

-----------------------------------------------------------------------------
(* The artifact store *)

LEMMA StoreFacts ==
  ASSUME StoreInv
  PROVE  /\ Len(store) \in Nat /\ DOMAIN store = 1 .. Len(store) /\ StoreCap \in Nat
         /\ \A i \in 1 .. Len(store) : store[i] \in Artifacts
         /\ uses.count \in Nat
         /\ \A a \in Artifacts : uses.last[a] \in Nat
BY LenProperties, ElementOfSeq, MiddlewareAssumption DEF StoreInv

\* The artifact used goes to the end; the others keep their order, and those that
\* left were used before those that stayed.
LEMMA NewestLast ==
  ASSUME StoreInv, NEW a \in Artifacts, Use(a),
         NEW new \in Seq(Artifacts), store' = new,
         NEW m \in Nat, Len(new) = m, m <= StoreCap, m = 0 => StoreCap = 0,
         m > 0 => new[m] = a,
         NEW p \in [1 .. m - 1 -> 1 .. Len(store)],
         \A i \in 1 .. m - 1 : new[i] = store[p[i]] /\ new[i] # a,
         \A i, j \in 1 .. m - 1 : i < j => p[i] < p[j],
         \A x \in Artifacts \ {a} :
            uses.last[x] > 0 /\ (\A i \in 1 .. m : new[i] # x) =>
                m = StoreCap /\ \A i \in 1 .. m - 1 : uses.last[x] < uses.last[new[i]]
  PROVE  StoreInv'
<1> DEFINE last == uses.last
           n == uses.count
<1>1. /\ uses \in [count : Nat, last : [Artifacts -> Nat]]
      /\ n \in Nat /\ last \in [Artifacts -> Nat]
      /\ Len(store) \in Nat /\ DOMAIN store = 1 .. Len(store)
      /\ \A i \in 1 .. Len(store) : store[i] \in Artifacts
  BY StoreFacts DEF StoreInv
<1>2. /\ uses' = [count |-> n + 1, last |-> [last EXCEPT ![a] = n + 1]]
      /\ uses'.count = n + 1 /\ uses'.last[a] = n + 1
      /\ \A x \in Artifacts \ {a} : uses'.last[x] = last[x]
  BY <1>1 DEF Use
<1>3. uses' \in [count : Nat, last : [Artifacts -> Nat]]
  BY <1>1, <1>2
<1>4. DOMAIN new = 1 .. m
  BY LenProperties
<1>5. /\ \A x \in Artifacts : last[x] <= n
      /\ \A i \in 1 .. Len(store) : last[store[i]] > 0
      /\ \A i, j \in 1 .. Len(store) : i < j => last[store[i]] < last[store[j]]
  BY <1>1 DEF StoreInv
<1> HIDE DEF last, n
<1>6. \A i \in 1 .. m - 1 :
         /\ new[i] \in Artifacts \ {a} /\ p[i] \in 1 .. Len(store)
         /\ uses'.last[new[i]] = last[store[p[i]]]
         /\ last[store[p[i]]] \in Nat /\ last[store[p[i]]] <= n /\ last[store[p[i]]] > 0
  <2> TAKE i \in 1 .. m - 1
  <2>1. p[i] \in 1 .. Len(store) /\ new[i] = store[p[i]] /\ new[i] # a
    OBVIOUS
  <2>2. store[p[i]] \in Artifacts /\ last[store[p[i]]] > 0
    BY <1>1, <1>5, <2>1
  <2>3. last[store[p[i]]] \in Nat /\ last[store[p[i]]] <= n
    BY <1>1, <1>5, <2>2
  <2>4. uses'.last[new[i]] = last[store[p[i]]]
    BY <1>2, <2>1, <2>2
  <2>5. QED
    BY <2>1, <2>2, <2>3, <2>4
<1>7. \A i \in 1 .. m : uses'.last[new[i]] > 0
  <2> TAKE i \in 1 .. m
  <2>1. CASE i = m
    BY <1>1, <1>2, <2>1
  <2>2. CASE i \in 1 .. m - 1
    BY <1>6, <2>2
  <2>3. QED
    BY <2>1, <2>2
<1>8. \A i, j \in 1 .. m : i < j => uses'.last[new[i]] < uses'.last[new[j]]
  <2> SUFFICES ASSUME NEW i \in 1 .. m, NEW j \in 1 .. m, i < j
               PROVE  uses'.last[new[i]] < uses'.last[new[j]]
    OBVIOUS
  <2>0. i \in 1 .. m - 1
    OBVIOUS
  <2>1. CASE j = m
    BY <1>1, <1>2, <1>6, <2>0, <2>1
  <2>2. CASE j \in 1 .. m - 1
    <3>1. p[i] < p[j] /\ p[i] \in 1 .. Len(store) /\ p[j] \in 1 .. Len(store)
      BY <2>0, <2>2
    <3>2. QED
      BY <1>5, <1>6, <2>0, <2>2, <3>1, SMTT(30)
  <2>3. QED
    BY <2>1, <2>2
<1>9. ASSUME NEW x \in Artifacts, uses'.last[x] > 0, \A i \in 1 .. m : new[i] # x
      PROVE  m = StoreCap /\ \A i \in 1 .. m : uses'.last[x] < uses'.last[new[i]]
  <2>1. CASE x = a
    BY <1>9, <2>1
  <2>2. CASE x # a
    <3>1. uses'.last[x] = last[x] /\ last[x] \in Nat /\ last[x] <= n
      BY <1>1, <1>2, <1>5, <2>2
    <3>2. m = StoreCap /\ \A i \in 1 .. m - 1 : last[x] < last[new[i]]
      BY <1>9, <2>2, <3>1 DEF last
    <3>3. ASSUME NEW i \in 1 .. m PROVE uses'.last[x] < uses'.last[new[i]]
      <4>1. CASE i = m
        BY <1>1, <1>2, <3>1, <4>1
      <4>2. CASE i \in 1 .. m - 1
        BY <1>2, <1>6, <3>1, <3>2, <4>2
      <4>3. QED
        BY <4>1, <4>2
    <3>4. QED
      BY <3>2, <3>3
  <2>3. QED
    BY <2>1, <2>2
<1>10. \A x \in Artifacts : uses'.last[x] <= uses'.count
  <2> TAKE x \in Artifacts
  <2>1. last[x] \in Nat /\ last[x] <= n
    BY <1>1, <1>5
  <2>2. QED
    BY <1>1, <1>2, <2>1
<1>11. QED
  BY <1>3, <1>4, <1>7, <1>8, <1>9, <1>10, ZenonT(30) DEF StoreInv

\* What StoreInv says, in the pieces the steps below use one at a time.
LEMMA StoreOrder ==
  ASSUME StoreInv
  PROVE  /\ store \in Seq(Artifacts) /\ Len(store) <= StoreCap
         /\ \A i \in 1 .. Len(store) : uses.last[store[i]] > 0
         /\ \A i, j \in 1 .. Len(store) : i < j => uses.last[store[i]] < uses.last[store[j]]
         /\ \A x \in Artifacts :
               uses.last[x] > 0 /\ (\A i \in 1 .. Len(store) : store[i] # x) =>
                  /\ Len(store) = StoreCap
                  /\ \A i \in 1 .. Len(store) : uses.last[x] < uses.last[store[i]]
BY LenProperties DEF StoreInv

LEMMA PutKeeps ==
  ASSUME StoreInv, NEW a \in Artifacts, Put(a)
  PROVE  StoreInv'
<1> DEFINE n == Len(store)
           app == Append(store, a)
<1>1. n \in Nat /\ StoreCap \in Nat /\ n <= StoreCap
  BY StoreFacts, StoreOrder
<1>2. Use(a) /\ uses.last[a] = 0
  BY DEF Put
<1>3. store' = IF n >= StoreCap THEN Tail(app) ELSE app
  BY DEF Put
<1>4. \A i \in 1 .. n : store[i] # a
  <2>1. \A i \in 1 .. n : uses.last[store[i]] > 0
    BY StoreOrder
  <2>2. QED
    BY <1>2, <2>1
<1>5. /\ app \in Seq(Artifacts) /\ Len(app) = n + 1 /\ app # <<>>
      /\ \A i \in 1 .. n : app[i] = store[i]
      /\ app[n + 1] = a
  BY StoreOrder, AppendProperties
<1>6. \A x \in Artifacts :
         uses.last[x] > 0 /\ (\A i \in 1 .. n : store[i] # x) =>
            n = StoreCap /\ \A i \in 1 .. n : uses.last[x] < uses.last[store[i]]
  BY StoreOrder
<1> HIDE DEF app
<1>7. CASE n < StoreCap
  <2> DEFINE m == n + 1
             p == [i \in 1 .. m - 1 |-> i]
  <2>1. store' = app /\ m \in Nat /\ m <= StoreCap /\ m # 0 /\ m - 1 = n
    BY <1>1, <1>3, <1>7
  <2>2. p \in [1 .. m - 1 -> 1 .. n] /\ \A i \in 1 .. m - 1 : p[i] = i
    BY <2>1
  <2> HIDE DEF p
  <2>3. \A i \in 1 .. m - 1 : app[i] = store[p[i]] /\ app[i] # a
    BY <1>4, <1>5, <2>1, <2>2
  <2>4. \A i, j \in 1 .. m - 1 : i < j => p[i] < p[j]
    BY <2>2
  <2>5. ASSUME NEW x \in Artifacts \ {a}, uses.last[x] > 0, \A i \in 1 .. m : app[i] # x
        PROVE  FALSE
    <3>1. \A i \in 1 .. n : store[i] # x
      BY <1>1, <1>5, <2>5
    <3>2. n = StoreCap
      BY <1>6, <2>5, <3>1
    <3>3. QED
      BY <1>7, <3>2
  <2>6. Len(app) = m /\ app[m] = a
    BY <1>5
  <2> HIDE DEF m
  <2>7. QED
    BY <1>2, <1>5, <2>1, <2>2, <2>3, <2>4, <2>5, <2>6, NewestLast
<1>8. CASE n = StoreCap
  <2> DEFINE new == Tail(app)
             p == [i \in 1 .. n - 1 |-> i + 1]
  <2>1. store' = new
    BY <1>1, <1>3, <1>8
  <2>2. /\ new \in Seq(Artifacts) /\ Len(new) = n
        /\ \A i \in 1 .. n : new[i] = app[i + 1]
    <3>1. /\ new \in Seq(Artifacts) /\ Len(new) = Len(app) - 1
          /\ \A i \in 1 .. Len(new) : new[i] = app[i + 1]
      BY <1>5, HeadTailProperties
    <3>2. Len(app) - 1 = n
      BY <1>1, <1>5
    <3>3. QED
      BY <3>1, <3>2
  <2>3. p \in [1 .. n - 1 -> 1 .. n] /\ \A i \in 1 .. n - 1 : p[i] = i + 1
    BY <1>1
  <2> HIDE DEF p, new
  <2>4. \A i \in 1 .. n - 1 : i + 1 \in 1 .. n /\ new[i] = store[i + 1]
    BY <1>1, <1>5, <2>2
  <2>5. n > 0 => new[n] = a
    BY <1>1, <1>5, <2>2
  <2>6. \A i \in 1 .. n - 1 : new[i] = store[p[i]] /\ new[i] # a
    <3> TAKE i \in 1 .. n - 1
    <3>1. p[i] = i + 1
      BY <2>3
    <3>2. i + 1 \in 1 .. n /\ new[i] = store[i + 1]
      BY <2>4
    <3>3. QED
      BY <1>4, <3>1, <3>2
  <2>7. \A i, j \in 1 .. n - 1 : i < j => p[i] < p[j]
    BY <2>3
  <2>8. ASSUME NEW x \in Artifacts \ {a}, uses.last[x] > 0, \A i \in 1 .. n : new[i] # x
        PROVE  \A i \in 1 .. n - 1 : uses.last[x] < uses.last[new[i]]
    <3>1. CASE \A i \in 1 .. n : store[i] # x
      <4>1. \A i \in 1 .. n : uses.last[x] < uses.last[store[i]]
        BY <1>6, <2>8, <3>1
      <4>2. QED
        BY <2>4, <4>1
    <3>2. CASE \E i \in 1 .. n : store[i] = x
      <4>1. PICK k \in 1 .. n : store[k] = x
        BY <3>2
      <4>2. k = 1
        <5>1. SUFFICES ASSUME k # 1 PROVE FALSE
          OBVIOUS
        <5>2. k - 1 \in 1 .. n - 1 /\ k - 1 \in 1 .. n /\ (k - 1) + 1 = k
          BY <1>1, <5>1
        <5>3. new[k - 1] = x
          BY <2>4, <4>1, <5>2
        <5>4. QED
          BY <2>8, <5>2, <5>3
      <4>3. ASSUME NEW i \in 1 .. n - 1
            PROVE  uses.last[x] < uses.last[new[i]]
        <5>1. i + 1 \in 1 .. n /\ 1 < i + 1 /\ 1 \in 1 .. n /\ new[i] = store[i + 1]
          BY <1>1, <2>4
        <5>2. uses.last[store[1]] < uses.last[store[i + 1]]
          BY <5>1, StoreOrder
        <5>3. QED
          BY <4>1, <4>2, <5>1, <5>2
      <4>4. QED
        BY <4>3
    <3>3. QED
      BY <3>1, <3>2
  <2>9. n <= StoreCap /\ (n = 0 => StoreCap = 0)
    BY <1>1, <1>8
  <2>10. QED
    <3> HIDE DEF n
    <3>1. p \in [1 .. n - 1 -> 1 .. Len(store)]
      BY <2>3 DEF n
    <3>2. QED
      BY <1>1, <1>2, <1>8, <2>1, <2>2, <2>5, <2>6, <2>7, <2>8, <2>9, <3>1, NewestLast, ZenonT(30)
<1>9. QED
  BY <1>1, <1>7, <1>8

LEMMA TouchKeeps ==
  ASSUME StoreInv, NEW a \in Artifacts, Contains(store, a), store' = Touch(a), Use(a)
  PROVE  StoreInv'
<1> DEFINE n == Len(store)
<1>1. n \in Nat /\ StoreCap \in Nat /\ n <= StoreCap /\ DOMAIN store = 1 .. n
  BY StoreFacts, StoreOrder
<1>2. PICK k \in 1 .. n : store[k] = a /\ store' = Append(RemoveAt(store, k), a)
  BY <1>1 DEF Touch, Contains
<1> DEFINE rest == RemoveAt(store, k)
           new == Append(rest, a)
           p == [i \in 1 .. n - 1 |-> IF i < k THEN i ELSE i + 1]
<1>3. /\ rest \in Seq(Artifacts) /\ Len(rest) = n - 1
      /\ \A j \in 1 .. n - 1 : rest[j] = IF j < k THEN store[j] ELSE store[j + 1]
  <2>1. store \in Seq(Artifacts) /\ k \in 1 .. Len(store)
    BY StoreOrder
  <2>2. QED
    BY <2>1, RemoveAtFacts
<1> HIDE DEF rest
<1>4. /\ new \in Seq(Artifacts) /\ Len(new) = n
      /\ \A j \in 1 .. n - 1 : new[j] = rest[j]
      /\ new[n] = a
  <2>1. /\ new \in Seq(Artifacts) /\ Len(new) = Len(rest) + 1
        /\ \A j \in 1 .. Len(rest) : new[j] = rest[j]
        /\ new[Len(rest) + 1] = a
    BY <1>3, AppendProperties
  <2>2. Len(rest) = n - 1 /\ Len(rest) + 1 = n
    BY <1>1, <1>3
  <2>3. QED
    BY <2>1, <2>2
<1>5. store' = new
  BY <1>2 DEF rest
<1>6. /\ p \in [1 .. n - 1 -> 1 .. n]
      /\ \A i \in 1 .. n - 1 : p[i] = IF i < k THEN i ELSE i + 1
  BY <1>1
<1> HIDE DEF new, p
<1>7. \A i, j \in 1 .. n - 1 : i < j => p[i] < p[j]
  <2> TAKE i, j \in 1 .. n - 1
  <2>1. /\ p[i] = IF i < k THEN i ELSE i + 1
        /\ p[j] = IF j < k THEN j ELSE j + 1
    BY <1>6
  <2>2. QED
    BY <1>1, <2>1
<1>8. \A i \in 1 .. n - 1 : new[i] = store[p[i]] /\ new[i] # a
  <2> TAKE i \in 1 .. n - 1
  <2>1. new[i] = store[p[i]]
    BY <1>3, <1>4, <1>6
  <2>2. p[i] = (IF i < k THEN i ELSE i + 1) /\ p[i] \in 1 .. n
    BY <1>6
  <2>3. p[i] < k \/ k < p[i]
    BY <1>1, <2>2
  <2>4. uses.last[store[p[i]]] # uses.last[store[k]]
    <3>1. /\ uses.last[store[p[i]]] \in Nat /\ uses.last[store[k]] \in Nat
          /\ p[i] < k => uses.last[store[p[i]]] < uses.last[store[k]]
          /\ k < p[i] => uses.last[store[k]] < uses.last[store[p[i]]]
      BY <2>2, StoreOrder, StoreFacts
    <3>2. QED
      BY <2>3, <3>1
  <2>5. QED
    BY <1>2, <2>1, <2>4
<1>9. ASSUME NEW x \in Artifacts \ {a}, uses.last[x] > 0, \A i \in 1 .. n : new[i] # x
      PROVE  n = StoreCap /\ \A i \in 1 .. n - 1 : uses.last[x] < uses.last[new[i]]
  <2>1. ASSUME NEW j \in 1 .. n PROVE store[j] # x
    <3>1. CASE j < k
      <4>1. j \in 1 .. n - 1
        BY <1>1, <3>1
      <4>2. new[j] = store[j]
        BY <1>3, <1>4, <3>1, <4>1
      <4>3. QED
        BY <1>9, <4>2
    <3>2. CASE j = k
      BY <1>2, <3>2
    <3>3. CASE j > k
      <4>1. j - 1 \in 1 .. n - 1 /\ j - 1 \in 1 .. n /\ ~(j - 1 < k) /\ (j - 1) + 1 = j
        BY <1>1, <3>3
      <4>2. rest[j - 1] = store[(j - 1) + 1]
        BY <1>3, <4>1
      <4>3. new[j - 1] = store[j]
        BY <1>4, <4>1, <4>2
      <4>4. QED
        BY <1>9, <4>1, <4>3
    <3>4. QED
      BY <1>1, <3>1, <3>2, <3>3
  <2>2. n = StoreCap /\ \A i \in 1 .. n : uses.last[x] < uses.last[store[i]]
    BY <1>9, <2>1, StoreOrder
  <2>3. QED
    BY <1>6, <1>8, <2>2
<1>10. n # 0
  BY <1>1
<1>11. QED
  <2>1. p \in [1 .. n - 1 -> 1 .. Len(store)]
    BY <1>6
  <2> HIDE DEF n
  <2>2. QED
    BY <1>1, <1>4, <1>5, <1>7, <1>8, <1>9, <1>10, <2>1, NewestLast, SMTT(30)

LEMMA ResolveKeeps ==
  ASSUME CallsInv, StoreInv, NEW c \in Calls, ResolveRef(c)
  PROVE  CallsInv' /\ StoreInv'
<1>0. breaker' = breaker /\ call[c].at \in DOMAIN chain
      /\ chain[call[c].at] = "artifact_resolver" /\ Ref[c] \in Artifacts
  BY MiddlewareAssumption DEF ResolveRef, Up, Down, In
<1>1. CASE call[c].stage = "up" /\ Runs(c, Outer(call[c])) /\ UNCHANGED <<store, uses>>
  BY <1>0, <1>1, PassesUp, StoreKept
<1>2. CASE /\ call[c].stage = "down" /\ Contains(store, Ref[c]) /\ Runs(c, Inner(call[c]))
           /\ store' = Touch(Ref[c]) /\ Use(Ref[c])
  BY <1>0, <1>2, PassesDown, TouchKeeps
<1>3. CASE /\ call[c].stage = "down" /\ Runs(c, Answer(call[c], "schema"))
           /\ UNCHANGED <<store, uses>>
  BY <1>0, <1>3, Refuses, StoreKept DEF Outcomes
<1>4. QED
  BY <1>1, <1>2, <1>3 DEF ResolveRef, Up, Down

-----------------------------------------------------------------------------
(* The steps that move no call *)

LEMMA CallsKept ==
  ASSUME CallsInv, UNCHANGED <<tool, clock, running, call, breaker>>,
         cancelled' \in [Calls -> BOOLEAN]
  PROVE  CallsInv'
<1>1. TypeInv'
  BY DEF CallsInv, TypeInv
<1>2. ASSUME NEW c \in Calls PROVE CallInv(c)'
  <2>1. CallInv(c) /\ chain' = chain
    BY DEF CallsInv, chain
  <2>2. Placed(c)' /\ SendsInv(c)' /\ ReadInv(c)' /\ HitInv(c)' /\ KilledInv(c)'
    BY <2>1 DEF CallInv, Placed, In, SendsInv, UnderRetry, MaxSends, ReadInv, UnderCache,
                HitInv, KilledInv
  <2>3. CoolInv(c)'
    BY <2>1 DEF CallInv, CoolInv, LastBreaker, Cooling
  <2>4. QED
    BY <2>2, <2>3 DEF CallInv
<1>3. QED
  BY <1>1, <1>2 DEF CallsInv

\* Time passes only while no call is on its way.
LEMMA TickMoves ==
  ASSUME CallsInv, Tick
  PROVE  CallsInv'
<1>1. TypeInv /\ TypeInv' /\ chain' = chain /\ clock \in Nat /\ clock' = clock + 1
  BY DEF CallsInv, TypeInv, Tick, chain
<1>2. ASSUME NEW c \in Calls PROVE CallInv(c)'
  <2>1. CallInv(c) /\ call' = call /\ running' = running /\ tool' = tool
    BY DEF CallsInv, Tick
  <2>2. call[c].stage \notin {"down", "up"}
    BY <2>1, MiddlewareAssumption DEF CallInv, Placed, Tick
  <2>3. Placed(c)' /\ SendsInv(c)' /\ KilledInv(c)'
    BY <1>1, <2>1 DEF CallInv, Placed, In, SendsInv, UnderRetry, MaxSends, KilledInv
  <2>4. ReadInv(c)'
    <3>1. call[c].since \in Nat
      BY <1>1 DEF TypeInv, CallState
    <3>2. QED
      BY <1>1, <2>1, <2>2, <3>1 DEF CallInv, ReadInv
  <2>5. HitInv(c)'
    BY <2>1, <2>2 DEF CallInv, HitInv
  <2>6. CoolInv(c)'
    BY <1>1, <2>1, <2>2 DEF CallInv, CoolInv, LastBreaker
  <2>7. QED
    BY <2>3, <2>4, <2>5, <2>6 DEF CallInv
<1>3. QED
  BY <1>1, <1>2 DEF CallsInv

-----------------------------------------------------------------------------
(* The invariant *)

LEMMA InitInv ==
  ASSUME Init
  PROVE  Inv
<1>1. NewCall \in CallState
  BY DEF NewCall, CallState, Outcomes, Buckets
<1>2. TypeInv
  BY <1>1 DEF Init, TypeInv
<1>3. ASSUME NEW c \in Calls PROVE CallInv(c)
  <2>1. call[c] = NewCall /\ running = NoCall /\ clock = 0 /\ c # NoCall
    BY MiddlewareAssumption DEF Init
  <2>2. /\ call[c].stage = "idle" /\ call[c].since = 0 /\ call[c].hit = FALSE
        /\ call[c].killed = "no" /\ [NewCall EXCEPT !.stage = "idle"] = NewCall
    <3>1. [NewCall EXCEPT !.stage = NewCall.stage] = NewCall
      BY <1>1 DEF CallState
    <3>2. /\ NewCall.stage = "idle" /\ NewCall.since = 0 /\ NewCall.hit = FALSE
          /\ NewCall.killed = "no"
      BY DEF NewCall
    <3>3. QED
      BY <2>1, <3>1, <3>2
  <2>3. Placed(c)
    BY <2>1, <2>2 DEF Placed
  <2>4. SendsInv(c) /\ ReadInv(c) /\ HitInv(c) /\ KilledInv(c) /\ CoolInv(c)
    BY <2>1, <2>2 DEF SendsInv, ReadInv, HitInv, KilledInv, CoolInv
  <2>5. QED
    BY <2>3, <2>4 DEF CallInv
<1>4. BreakerInv
  BY MiddlewareAssumption DEF Init, BreakerInv, BreakerTrips
<1>5. CacheInv
  BY EmptySeq, MiddlewareAssumption DEF Init, CacheInv
<1>6. RateInv
  <2>1. granted \in [Buckets -> Seq(Nat)] /\ bucket \in [Buckets -> Nat]
    BY EmptySeq, MiddlewareAssumption DEF Init
  <2>2. ASSUME NEW b \in Buckets
        PROVE  bucket[b] <= Burst[b] /\ LevelInv(b) /\ WindowInv(b)
    <3>1. bucket[b] = Burst[b] /\ Burst[b] \in Nat /\ granted[b] = <<>>
      BY MiddlewareAssumption DEF Init
    <3>2. DOMAIN granted[b] = {}
      BY <3>1
    <3>3. QED
      BY <3>1, <3>2 DEF LevelInv, WindowInv, Covered, InWindow
  <2>3. QED
    BY <2>1, <2>2 DEF RateInv
<1>7. StoreInv
  <2>1. store = <<>> /\ store \in Seq(Artifacts) /\ Len(store) = 0 /\ StoreCap \in Nat
    BY EmptySeq, MiddlewareAssumption DEF Init
  <2>2. uses \in [count : Nat, last : [Artifacts -> Nat]] /\ uses.count = 0
        /\ \A a \in Artifacts : uses.last[a] = 0
    BY DEF Init
  <2>3. DOMAIN store = {}
    BY <2>1
  <2>4. QED
    BY <2>1, <2>2, <2>3 DEF StoreInv
<1>8. QED
  BY <1>2, <1>3, <1>4, <1>5, <1>6, <1>7 DEF Inv, CallsInv, SharedInv

LEMMA SharedKept ==
  ASSUME SharedInv, UNCHANGED <<clock, shared>>
  PROVE  SharedInv'
BY BreakerKept, CacheKept, RateKept, StoreKept DEF SharedInv, shared

LEMMA NextInv ==
  ASSUME Inv, [Next]_vars
  PROVE  Inv'
<1>0. CallsInv /\ SharedInv /\ BreakerInv /\ CacheInv /\ RateInv /\ StoreInv /\ clock \in Nat
  BY DEF Inv, SharedInv, CallsInv, TypeInv
<1>1. ASSUME NEW c \in Calls, Start(c) PROVE Inv'
  BY <1>0, <1>1, StartMoves, SharedKept DEF Start, Runs, Set, Inv
<1>2. ASSUME NEW c \in Calls, BackendAnswers(c) PROVE Inv'
  BY <1>0, <1>2, BackendMoves, SharedKept DEF BackendAnswers, Runs, Set, Inv
<1>3. ASSUME NEW c \in Calls, CancelToken(c) PROVE Inv'
  <2>1. cancelled' \in [Calls -> BOOLEAN]
    BY <1>0, <1>3 DEF CancelToken, CallsInv, TypeInv
  <2>2. QED
    BY <1>0, <1>3, <2>1, CallsKept, SharedKept DEF CancelToken, Inv, shared
<1>4. ASSUME NEW c \in Calls, Wake(c) PROVE Inv'
  BY <1>0, <1>4, WakeMoves, SharedKept DEF Wake, Runs, Set, Inv
<1>5. ASSUME NEW c \in Calls, NEW who \in {"timer", "task"}, Cancel(c, who) PROVE Inv'
  BY <1>0, <1>5, CancelMoves, SharedKept DEF Cancel, Runs, Set, Inv
<1>6. ASSUME NEW c \in Calls, Trace(c) PROVE Inv'
  BY <1>0, <1>6, TraceMoves, SharedKept DEF Trace, Runs, Set, Inv
<1>7. ASSUME NEW c \in Calls, Timeout(c) PROVE Inv'
  BY <1>0, <1>7, TimeoutMoves, SharedKept DEF Timeout, Runs, Set, Inv
<1>8. ASSUME NEW c \in Calls, CancelLayer(c) PROVE Inv'
  BY <1>0, <1>8, CancelLayerMoves, SharedKept DEF CancelLayer, Runs, Set, Inv
<1>9. ASSUME NEW c \in Calls, Retry(c) PROVE Inv'
  <2>1. UNCHANGED <<clock, shared>>
    BY <1>9 DEF Retry, Runs, Yields, Set
  <2>2. QED
    BY <1>0, <1>9, <2>1, RetryMoves, SharedKept DEF Inv
<1>10. ASSUME NEW c \in Calls, BreakerDown(c) PROVE Inv'
  <2>1. UNCHANGED <<clock, cache, bucket, granted, store, uses>>
    BY <1>10 DEF BreakerDown, Runs, Set
  <2>2. CacheInv' /\ RateInv' /\ StoreInv'
    BY <1>0, <2>1, CacheKept, RateKept, StoreKept
  <2>3. QED
    BY <1>0, <1>10, <2>2, BreakerDownKeeps DEF Inv, SharedInv
<1>11. ASSUME NEW c \in Calls, BreakerUp(c) PROVE Inv'
  <2>1. UNCHANGED <<clock, cache, bucket, granted, store, uses>>
    BY <1>11 DEF BreakerUp, Runs, Set
  <2>2. CacheInv' /\ RateInv' /\ StoreInv'
    BY <1>0, <2>1, CacheKept, RateKept, StoreKept
  <2>3. QED
    BY <1>0, <1>11, <2>2, BreakerUpKeeps DEF Inv, SharedInv
<1>12. ASSUME NEW c \in Calls, RateLimit(c) PROVE Inv'
  <2>1. UNCHANGED <<breaker, cache, store, uses>>
    BY <1>12 DEF RateLimit
  <2>2. BreakerInv' /\ CacheInv' /\ StoreInv'
    BY <1>0, <2>1, BreakerKept, CacheKept, StoreKept
  <2>3. QED
    BY <1>0, <1>12, <2>2, RateLimitKeeps DEF Inv, SharedInv
<1>13. ASSUME NEW c \in Calls, RateLimitBlock(c) PROVE Inv'
  <2>1. UNCHANGED <<breaker, cache, store, uses>>
    BY <1>13 DEF RateLimitBlock
  <2>2. BreakerInv' /\ CacheInv' /\ StoreInv'
    BY <1>0, <2>1, BreakerKept, CacheKept, StoreKept
  <2>3. QED
    BY <1>0, <1>13, <2>2, RateLimitBlockKeeps DEF Inv, SharedInv
<1>14. ASSUME NEW c \in Calls, CacheDown(c) PROVE Inv'
  <2>1. UNCHANGED <<clock, breaker, bucket, granted, store, uses>>
    BY <1>14 DEF CacheDown, Runs, Set
  <2>2. BreakerInv' /\ RateInv' /\ StoreInv'
    BY <1>0, <2>1, BreakerKept, RateKept, StoreKept
  <2>3. QED
    BY <1>0, <1>14, <2>2, CacheDownKeeps DEF Inv, SharedInv
<1>15. ASSUME NEW c \in Calls, CacheUp(c) PROVE Inv'
  <2>1. UNCHANGED <<clock, breaker, bucket, granted, store, uses>>
    BY <1>15 DEF CacheUp, Runs, Set
  <2>2. BreakerInv' /\ RateInv' /\ StoreInv'
    BY <1>0, <2>1, BreakerKept, RateKept, StoreKept
  <2>3. QED
    BY <1>0, <1>15, <2>2, CacheUpKeeps DEF Inv, SharedInv
<1>16. ASSUME NEW c \in Calls, ResolveRef(c) PROVE Inv'
  <2>1. UNCHANGED <<clock, breaker, cache, bucket, granted>>
    BY <1>16 DEF ResolveRef, Runs, Set
  <2>2. BreakerInv' /\ CacheInv' /\ RateInv'
    BY <1>0, <2>1, BreakerKept, CacheKept, RateKept
  <2>3. QED
    BY <1>0, <1>16, <2>2, ResolveKeeps DEF Inv, SharedInv
<1>17. ASSUME NEW c \in Calls, Send(c) PROVE Inv'
  BY <1>0, <1>17, SendMoves, SharedKept DEF Send, Yields, Set, Inv
<1>18. ASSUME NEW c \in Calls, Return(c) PROVE Inv'
  BY <1>0, <1>18, ReturnMoves, SharedKept DEF Return, Yields, Set, Inv
<1>19. ASSUME NEW a \in Artifacts, Put(a) PROVE Inv'
  <2>1. /\ UNCHANGED <<tool, clock, running, call, cancelled>>
        /\ UNCHANGED <<breaker, cache, bucket, granted>>
    BY <1>19 DEF Put
  <2>2. BreakerInv' /\ CacheInv' /\ RateInv'
    BY <1>0, <2>1, BreakerKept, CacheKept, RateKept
  <2>3. cancelled' \in [Calls -> BOOLEAN]
    BY <1>0, <2>1 DEF CallsInv, TypeInv
  <2>4. CallsInv'
    BY <1>0, <2>1, <2>3, CallsKept
  <2>5. QED
    BY <1>0, <1>19, <2>2, <2>4, PutKeeps DEF Inv, SharedInv
<1>20. CASE Invalidate
  <2>1. /\ UNCHANGED <<tool, clock, running, call, cancelled>>
        /\ UNCHANGED <<breaker, bucket, store, granted, uses>>
    BY <1>20 DEF Invalidate
  <2>2. BreakerInv' /\ RateInv' /\ StoreInv'
    BY <1>0, <2>1, BreakerKept, RateKept, StoreKept
  <2>3. cancelled' \in [Calls -> BOOLEAN]
    BY <1>0, <2>1 DEF CallsInv, TypeInv
  <2>4. CallsInv'
    BY <1>0, <2>1, <2>3, CallsKept
  <2>5. QED
    BY <1>0, <1>20, <2>2, <2>4, InvalidateKeeps DEF Inv, SharedInv
<1>21. CASE Tick
  <2>1. UNCHANGED <<breaker, cache, store, uses>>
    BY <1>21 DEF Tick
  <2>2. BreakerInv' /\ CacheInv' /\ StoreInv'
    BY <1>0, <2>1, BreakerKept, CacheKept, StoreKept
  <2>3. QED
    BY <1>0, <1>21, <2>2, TickMoves, TickRates DEF Inv, SharedInv
<1>22. CASE UNCHANGED vars
  <2>1. cancelled' \in [Calls -> BOOLEAN]
    BY <1>0, <1>22 DEF CallsInv, TypeInv, vars
  <2>2. QED
    BY <1>0, <1>22, <2>1, CallsKept, SharedKept DEF vars, shared, Inv
<1>23. QED
  BY <1>1, <1>2, <1>3, <1>4, <1>5, <1>6, <1>7, <1>8, <1>9, <1>10, <1>11, <1>12, <1>13,
     <1>14, <1>15, <1>16, <1>17, <1>18, <1>19, <1>20, <1>21, <1>22 DEF Next, Step

LEMMA Invariant == Spec => []Inv
<1>1. Init => Inv
  BY InitInv
<1>2. Inv /\ [Next]_vars => Inv'
  BY NextInv
<1>3. QED
  BY <1>1, <1>2, PTL DEF Spec

-----------------------------------------------------------------------------
(* The theorems *)

\* The store in the order of last use holds what was used last.
LEMMA StoreIsRecent ==
  ASSUME StoreInv
  PROVE  StoreKeepsRecent
<1> DEFINE newer(a) == {b \in Artifacts : uses.last[b] > uses.last[a]}
           n == Len(store)
<1>1. /\ n \in Nat /\ StoreCap \in Nat /\ n <= StoreCap
      /\ \A i \in 1 .. n : store[i] \in Artifacts
      /\ \A a \in Artifacts : uses.last[a] \in Nat
  BY StoreFacts, StoreOrder
<1>2. \A i, j \in 1 .. n : store[i] = store[j] => i = j
  <2> TAKE i, j \in 1 .. n
  <2>1. /\ i < j => uses.last[store[i]] < uses.last[store[j]]
        /\ j < i => uses.last[store[j]] < uses.last[store[i]]
    BY StoreOrder
  <2>2. uses.last[store[i]] \in Nat /\ uses.last[store[j]] \in Nat
    BY <1>1
  <2>3. store[i] = store[j] => ~(i < j) /\ ~(j < i)
    BY <2>1, <2>2
  <2>4. QED
    BY <1>1, <2>3
<1>3. ASSUME NEW a \in Artifacts, uses.last[a] > 0
      PROVE  Contains(store, a) <=> Cardinality(newer(a)) < StoreCap
  <2>0. IsFiniteSet(newer(a)) /\ Cardinality(newer(a)) \in Nat
    <3>1. newer(a) \in SUBSET Artifacts /\ IsFiniteSet(Artifacts)
      BY MiddlewareAssumption
    <3>2. IsFiniteSet(newer(a))
      BY <3>1, FS_Subset
    <3>3. QED
      BY <3>2, FS_CardinalityType
  <2>1. ASSUME Contains(store, a) PROVE Cardinality(newer(a)) < StoreCap
    <3>1. PICK i \in 1 .. n : store[i] = a
      BY <2>1 DEF Contains
    <3> DEFINE f == [b \in newer(a) |-> CHOOSE j \in i + 1 .. n : store[j] = b]
    <3>2. ASSUME NEW b \in newer(a)
          PROVE  \E j \in i + 1 .. n : store[j] = b
      <4>1. b \in Artifacts /\ uses.last[b] > uses.last[a]
            /\ uses.last[b] \in Nat /\ uses.last[a] \in Nat
        BY <1>1, <3>2
      <4>2. \E j \in 1 .. n : store[j] = b
        <5>1. SUFFICES ASSUME \A j \in 1 .. n : store[j] # b PROVE FALSE
          OBVIOUS
        <5>2. uses.last[b] > 0
          BY <4>1
        <5>3. uses.last[b] < uses.last[store[i]]
          BY <4>1, <5>1, <5>2, StoreOrder
        <5>4. QED
          BY <3>1, <4>1, <5>3
      <4>3. PICK j \in 1 .. n : store[j] = b
        BY <4>2
      <4>4. ~(j < i) /\ j # i
        <5>1. j < i => uses.last[b] < uses.last[a]
          BY <3>1, <4>3, StoreOrder
        <5>2. QED
          BY <3>1, <4>1, <4>3, <5>1
      <4>5. j \in i + 1 .. n
        BY <1>1, <4>4
      <4>6. QED
        BY <4>3, <4>5
    <3> HIDE DEF newer
    <3>3. \A b \in newer(a) : f[b] \in i + 1 .. n /\ store[f[b]] = b
      BY <3>2
    <3>4. f \in Injection(newer(a), i + 1 .. n)
      <4>1. f \in [newer(a) -> i + 1 .. n]
        BY <3>3
      <4> HIDE DEF f
      <4>2. \A x, y \in newer(a) : f[x] = f[y] => x = y
        BY <3>3
      <4>3. QED
        BY <4>1, <4>2 DEF Injection, IsInjective
    <3>5. IsFiniteSet(i + 1 .. n) /\ Cardinality(i + 1 .. n) = n - i
      <4>1. i + 1 \in Int /\ n \in Int
        BY <1>1
      <4>2. /\ IsFiniteSet(i + 1 .. n)
            /\ Cardinality(i + 1 .. n) = IF i + 1 > n THEN 0 ELSE n - (i + 1) + 1
        BY <4>1, FS_Interval
      <4>3. QED
        BY <1>1, <4>2
    <3> HIDE DEF f
    <3>6. Cardinality(newer(a)) <= n - i
      BY <3>4, <3>5, FS_Injection
    <3>7. QED
      BY <1>1, <2>0, <3>6
  <2>2. ASSUME ~Contains(store, a) PROVE ~(Cardinality(newer(a)) < StoreCap)
    <3>1. \A i \in 1 .. n : store[i] # a
      BY <2>2 DEF Contains
    <3>2. n = StoreCap /\ \A i \in 1 .. n : uses.last[a] < uses.last[store[i]]
      BY <1>3, <3>1, StoreOrder
    <3> DEFINE f == [i \in 1 .. n |-> store[i]]
    <3>3. \A i \in 1 .. n : store[i] \in newer(a)
      <4> TAKE i \in 1 .. n
      <4>1. store[i] \in Artifacts /\ uses.last[a] < uses.last[store[i]]
        BY <1>1, <3>2
      <4>2. uses.last[store[i]] \in Nat /\ uses.last[a] \in Nat
        BY <1>1, <4>1
      <4>3. QED
        BY <4>1, <4>2
    <3> HIDE DEF newer
    <3>4. f \in Injection(1 .. n, newer(a))
      <4>1. f \in [1 .. n -> newer(a)]
        BY <3>3
      <4>2. \A x, y \in 1 .. n : f[x] = f[y] => x = y
        BY <1>2
      <4> HIDE DEF f
      <4>3. QED
        BY <4>1, <4>2 DEF Injection, IsInjective
    <3>5. Cardinality(1 .. n) = n
      <4>1. 1 \in Int /\ n \in Int
        BY <1>1
      <4>2. Cardinality(1 .. n) = IF 1 > n THEN 0 ELSE n - 1 + 1
        BY <4>1, FS_Interval
      <4>3. QED
        BY <1>1, <4>2
    <3> HIDE DEF f
    <3>6. n <= Cardinality(newer(a))
      BY <2>0, <3>4, <3>5, FS_Injection
    <3>7. QED
      BY <1>1, <2>0, <3>2, <3>6
  <2>3. QED
    BY <2>1, <2>2
<1>4. QED
  BY <1>3 DEF StoreKeepsRecent

\* What the calls share is what each layer takes it for: the breaker's state fits its
\* count, a cached answer is younger than the ttl, no bucket gives more in any stretch
\* of time than its burst and its refill, and the store holds what was used last.
THEOREM SharedStateIsSound == Spec => []SharedStateSound
<1> SUFFICES ASSUME Inv PROVE SharedStateSound
  BY Invariant, PTL
<1>1. /\ CallsInv /\ TypeInv /\ BreakerInv /\ CacheInv /\ RateInv /\ StoreInv
      /\ \A c \in Calls : CallInv(c)
  BY DEF Inv, SharedInv, CallsInv
<1>2. TypeOK
  <2>1. \A b \in Buckets : bucket[b] \in 0 .. Burst[b]
    BY <1>1, BucketFacts
  <2>2. QED
    BY <1>1, <2>1 DEF TypeInv, BreakerInv, CacheInv, TypeOK
<1>3. BreakerTrips
  BY <1>1 DEF BreakerInv
<1>4. CacheFresh
  BY <1>1 DEF CallInv, HitInv, CacheFresh
<1>5. RateWindow
  <2> SUFFICES ASSUME NEW b \in Buckets, NEW i \in DOMAIN granted[b], NEW j \in DOMAIN granted[b],
                      i <= j
               PROVE  (j - i + 1) * Unit
                         <= Burst[b] + Rate[b] * (granted[b][j] - granted[b][i])
    BY DEF RateWindow
  <2>1. Fits(j - i + 1, 0, Burst[b], Rate[b], granted[b][j] - granted[b][i])
    BY <1>1, BucketFacts DEF WindowInv, InWindow
  <2>2. j - i + 1 \in Int /\ Unit \in Int
    BY <1>1, BucketFacts, LenProperties
  <2>3. (j - i + 1) * Unit \in Int
    BY <2>2
  <2> DEFINE w == (j - i + 1) * Unit
             x == Burst[b] + Rate[b] * (granted[b][j] - granted[b][i])
  <2>4. w + 0 <= x
    BY <2>1 DEF Fits
  <2> HIDE DEF x
  <2>5. w <= x
    <3>1. w \in Int
      BY <2>3
    <3> HIDE DEF w
    <3>2. w + 0 = w
      BY <3>1
    <3>3. QED
      BY <2>4, <3>2
  <2>6. QED
    BY <2>5 DEF x
<1>6. StoreKeepsRecent
  BY <1>1, StoreIsRecent
<1>7. QED
  BY <1>2, <1>3, <1>4, <1>5, <1>6 DEF SharedStateSound

LEMMA SendsFit ==
  ASSUME CallsInv, NEW c \in Calls
  PROVE  call[c].sent <= MaxSends
<1>1. TypeInv /\ CallInv(c) /\ call[c] \in CallState /\ MaxSends \in Nat \ {0}
  BY ChainFacts DEF CallsInv, TypeInv
<1>2. call[c].sent \in Nat /\ call[c].tries \in Nat
      /\ call[c].stage \in {"idle", "down", "backend", "sleep", "up", "done"}
  BY <1>1 DEF CallState
<1>3. CASE call[c].stage \in {"idle", "done"}
  <2>1. call[c] = [NewCall EXCEPT !.stage = call[c].stage]
    BY <1>1, <1>3 DEF CallInv, Placed
  <2>2. call[c].sent = 0
    BY <2>1 DEF NewCall
  <2>3. QED
    BY <1>1, <2>2
<1>4. CASE call[c].stage \in {"down", "sleep"}
  BY <1>1, <1>2, <1>4 DEF CallInv, SendsInv
<1>5. CASE call[c].stage \in {"backend", "up"}
  BY <1>1, <1>2, <1>5 DEF CallInv, SendsInv
<1>6. QED
  BY <1>2, <1>3, <1>4, <1>5

\* However the layers are stacked and whatever is cancelled, a call reaches the
\* backend no more often than its tool allows.
THEOREM SendsAreBounded == Spec => []SendsBounded
<1>1. Inv => SendsBounded
  BY SendsFit DEF Inv, SendsBounded, MaxSends
<1>2. QED
  BY <1>1, Invariant, PTL

\* A step other than Send sends nothing for its call.
Unsent(c) == \E r : Set(c, r) /\ r.sent <= call[c].sent

LEMMA OnlySendSends ==
  ASSUME TypeInv, NEW c \in Calls, Start(c) \/ BackendAnswers(c) \/ Wake(c) \/ Step(c)
                                   \/ Cancel(c, "timer") \/ Cancel(c, "task"),
         ~Send(c)
  PROVE  Unsent(c)
<1> DEFINE r == call[c]
<1>1. r \in CallState /\ r.sent \in Nat
  BY DEF TypeInv, CallState
<1>a. ASSUME NEW s, Set(c, s), s.sent <= r.sent PROVE Unsent(c)
  BY <1>a DEF Unsent
<1>b. ASSUME NEW s, Set(c, s), s.sent = r.sent PROVE Unsent(c)
  BY <1>1, <1>b DEF Unsent
<1> HIDE DEF r
<1>2. ASSUME NEW s \in CallState
      PROVE  /\ Inner(s).sent = s.sent /\ Outer(s).sent = s.sent
             /\ \A out : Answer(s, out).sent = s.sent
             /\ \A n : Sleep(s, n).sent = s.sent
  BY DEF Inner, Outer, Answer, Sleep, CallState
<1>3. CASE Start(c)
  BY <1>1, <1>2, <1>3 DEF Start, Runs, Unsent, r
<1>4. CASE BackendAnswers(c)
  BY <1>1, <1>2, <1>4 DEF BackendAnswers, Runs, Unsent, r
<1>5. CASE Trace(c) \/ CancelLayer(c) \/ BreakerDown(c) \/ BreakerUp(c) \/ RateLimit(c)
           \/ ResolveRef(c)
  BY <1>1, <1>2, <1>5 DEF Trace, CancelLayer, BreakerDown, BreakerUp, RateLimit, ResolveRef,
                          Runs, Unsent, r
<1>6. CASE Cancel(c, "timer") \/ Cancel(c, "task")
  <2>1. PICK who : Set(c, [Answer(r, "cancelled") EXCEPT !.killed = who])
    BY <1>6 DEF Cancel, Runs, r
  <2>2. [Answer(r, "cancelled") EXCEPT !.killed = who].sent = r.sent
    BY <1>1 DEF Answer, CallState
  <2>3. QED
    BY <1>b, <2>1, <2>2
<1>7. CASE Wake(c)
  <2> DEFINE w == [r EXCEPT !.stage = "down", !.until = 0]
  <2>1. Set(c, IF In(c, "retry") THEN Inner(w) ELSE w)
    BY <1>7 DEF Wake, Runs, r
  <2>2. w.sent = r.sent /\ Inner(w).sent = r.sent
    BY <1>1 DEF Inner, CallState
  <2>3. QED
    BY <1>b, <2>1, <2>2
<1>8. CASE Timeout(c)
  <2> DEFINE k == [r EXCEPT !.out = "timeout", !.killed = "no"]
             o == IF r.killed = "timer" THEN k ELSE r
  <2>1. \/ Set(c, [Inner(r) EXCEPT !.expires = Deadline])
        \/ Set(c, [Outer(o) EXCEPT !.expires = 0])
    BY <1>8 DEF Timeout, Runs, r
  <2>2. [Inner(r) EXCEPT !.expires = Deadline].sent = r.sent
    BY <1>1 DEF Inner, CallState
  <2>3. [Outer(o) EXCEPT !.expires = 0].sent = r.sent
    BY <1>1 DEF Outer, CallState
  <2>4. QED
    BY <1>b, <2>1, <2>2, <2>3
<1>9. CASE Retry(c)
  <2> DEFINE again == [r EXCEPT !.tries = @ + 1, !.out = "none"]
  <2>1. \/ Set(c, [Inner(r) EXCEPT !.tries = 1])
        \/ Set(c, [Outer(r) EXCEPT !.tries = 0])
        \/ Set(c, Inner(again))
        \/ \E n : Set(c, Sleep(again, n))
    BY <1>9 DEF Retry, Runs, Yields, r
  <2>2. /\ [Inner(r) EXCEPT !.tries = 1].sent = r.sent
        /\ [Outer(r) EXCEPT !.tries = 0].sent = r.sent
        /\ Inner(again).sent = r.sent
        /\ \A n : Sleep(again, n).sent = r.sent
    BY <1>1 DEF Inner, Outer, Sleep, CallState
  <2>3. QED
    BY <1>b, <2>1, <2>2
<1>10. CASE RateLimitBlock(c)
  <2>1. \/ \E n : Set(c, Sleep(r, n))
        \/ Set(c, Outer(r))
        \/ Set(c, [r EXCEPT !.asks = RobotOf[c]])
        \/ Set(c, [Inner(r) EXCEPT !.asks = Global])
    BY <1>10 DEF RateLimitBlock, Runs, Yields, r
  <2>2. /\ [r EXCEPT !.asks = RobotOf[c]].sent = r.sent
        /\ [Inner(r) EXCEPT !.asks = Global].sent = r.sent
    BY <1>1 DEF Inner, CallState
  <2>3. QED
    BY <1>1, <1>2, <1>b, <2>1, <2>2
<1>11. CASE CacheDown(c)
  <2>1. \/ Set(c, Inner(r))
        \/ \E t : Set(c, [Answer(r, "ok") EXCEPT !.readAt = t, !.hit = TRUE])
        \/ Set(c, [Inner(r) EXCEPT !.since = clock])
    BY <1>11 DEF CacheDown, Runs, r
  <2>2. /\ \A t : [Answer(r, "ok") EXCEPT !.readAt = t, !.hit = TRUE].sent = r.sent
        /\ [Inner(r) EXCEPT !.since = clock].sent = r.sent
    BY <1>1 DEF Inner, Answer, CallState
  <2>3. QED
    BY <1>1, <1>2, <1>b, <2>1, <2>2
<1>12. CASE CacheUp(c)
  <2>1. Set(c, [Outer(r) EXCEPT !.since = 0])
    BY <1>12 DEF CacheUp, Runs, r
  <2>2. [Outer(r) EXCEPT !.since = 0].sent = r.sent
    BY <1>1 DEF Outer, CallState
  <2>3. QED
    BY <1>b, <2>1, <2>2
<1>13. CASE Return(c)
  <2> DEFINE s == [NewCall EXCEPT !.stage = "done"]
  <2>1. Set(c, s)
    BY <1>13 DEF Return, Yields
  <2>2. s.sent = 0
    BY DEF NewCall
  <2> HIDE DEF s
  <2>3. s.sent <= r.sent
    BY <1>1, <2>2
  <2>4. QED
    BY <1>a, <2>1, <2>3
<1>14. QED
  BY <1>3, <1>4, <1>5, <1>6, <1>7, <1>8, <1>9, <1>10, <1>11, <1>12, <1>13 DEF Step

\* A cancelled coroutine sends nothing more, and below a breaker that cools down and
\* has nothing under it that waits or repeats, nobody does.
THEOREM SendsAreStopped == Spec => SendsStop
<1> DEFINE Stopped(d) == call[d].killed # "no" \/ (BreakerIsLast /\ Cooling)
<1>1. ASSUME Inv, NEW d \in Calls, Stopped(d), Send(d) PROVE FALSE
  <2>1. /\ TypeInv /\ CallInv(d) /\ call[d].stage = "down" /\ call[d].at = Len(chain) + 1
    BY <1>1 DEF Inv, CallsInv, Send
  <2>2. call[d].killed = "no"
    BY <2>1 DEF CallInv, KilledInv
  <2>3. PICK i \in DOMAIN chain : LastBreaker(i)
    BY <1>1, <2>2 DEF BreakerIsLast, LastBreaker
  <2>4. call[d].at > i
    BY <2>1, <2>3, ChainFacts
  <2>5. ~Cooling
    BY <2>1, <2>3, <2>4 DEF CallInv, CoolInv
  <2>6. QED
    BY <1>1, <2>2, <2>5
<1>2. ASSUME Inv, [Next]_vars, NEW d \in Calls, Stopped(d)
      PROVE  call'[d].sent <= call[d].sent
  <2>1. TypeInv /\ call \in [Calls -> CallState] /\ call[d].sent \in Nat
    BY <1>2 DEF Inv, CallsInv, TypeInv, CallState
  <2>2. ASSUME NEW c \in Calls, Start(c) \/ BackendAnswers(c) \/ Wake(c) \/ Step(c)
                                \/ Cancel(c, "timer") \/ Cancel(c, "task")
        PROVE  call'[d].sent <= call[d].sent
    <3>1. CASE c = d
      <4>1. Unsent(c)
        BY <1>1, <1>2, <2>1, <2>2, <3>1, OnlySendSends
      <4>2. QED
        BY <2>1, <3>1, <4>1 DEF Unsent, Set
    <3>2. CASE c # d
      <4>1. CASE Send(c)
        BY <2>1, <3>2, <4>1 DEF Send, Yields, Set
      <4>2. CASE ~Send(c)
        <5>1. Unsent(c)
          BY <2>1, <2>2, <4>2, OnlySendSends
        <5>2. QED
          BY <2>1, <3>2, <5>1 DEF Unsent, Set
      <4>3. QED
        BY <4>1, <4>2
    <3>3. QED
      BY <3>1, <3>2
  <2>3. ASSUME call' = call PROVE call'[d].sent <= call[d].sent
    BY <2>1, <2>3
  <2>4. \/ \E c \in Calls : Start(c) \/ BackendAnswers(c) \/ Wake(c) \/ Step(c)
                            \/ Cancel(c, "timer") \/ Cancel(c, "task")
        \/ call' = call
    BY <1>2 DEF Next, CancelToken, Put, Invalidate, Tick, vars
  <2>5. QED
    BY <2>2, <2>3, <2>4
<1>3. Inv /\ [Next]_vars =>
         [\A c \in Calls : call[c].killed # "no" \/ (BreakerIsLast /\ Cooling)
             => call'[c].sent <= call[c].sent]_vars
  BY <1>2
<1>4. QED
  BY <1>3, Invariant, PTL DEF Spec, SendsStop
=============================================================================
