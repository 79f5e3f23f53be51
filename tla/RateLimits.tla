------------------------------- MODULE RateLimits -------------------------------
(***************************************************************************)
(* The three limiters that count by the minute: the token bucket of an     *)
(* address (middleware/ratelimit.go) and the sliding window of an address  *)
(* (middleware/auth_ratelimit.go), each under one mutex with a goroutine   *)
(* that throws old entries away, and the sorted set in Redis that several  *)
(* workers share (ai/queue/ratelimit.go), read and written in two steps.   *)
(***************************************************************************)
EXTENDS Integers, FiniteSets

CONSTANTS
  Addresses,       \* what the handlers key their entries by
  Workers,         \* callers of the limiter in Redis
  Minute,          \* ticks of the clock in a minute
  Rpm,             \* requests a minute of the bucket
  Old,             \* ticks after which cleanup takes a bucket away
  Limit,           \* requests within duration of the window
  BurstMax,        \* entries the limiter in Redis admits
  MaxTime, MaxFaults  \* bounds

\* A bucket that is thrown away has had the time to fill again.
RateLimitsAssumption ==
  /\ {Minute, Rpm, Limit, BurstMax} \subseteq Nat \ {0} /\ Old \in Nat /\ Old >= Minute
  /\ {MaxTime, MaxFaults} \subseteq Nat /\ IsFiniteSet(Workers) /\ Workers # {}

VARIABLES
  buckets,  \* rateLimiter.buckets; tokens in parts of which Minute make one
  windows,  \* AuthRateLimiter.windows: the attempts
  zset,     \* ai_ratelimit: its members, by their scores
  worker,   \* worker[w]: where Allow is, and the time it read
  passed,   \* history: what passed in the last minute; for Redis also whether it was counted
  merged,   \* history: members that were there already (bound: MaxFaults)
  now, faults

vars == <<buckets, windows, zset, worker, passed, merged, now, faults>>

Full == Rpm * Minute
\* Requests are told apart by a number where their times are the same.
Numbered(requests, t) == [at |-> t, n |-> Cardinality({e \in requests : e.at = t})]
Since(requests, t) == {e \in requests : e.at > t}
\* What is after now - Minute.
Valid(requests) == Since(requests, now - Minute)

\* The shape of the state.
TypeOK ==
  /\ DOMAIN buckets \subseteq Addresses
  /\ \A k \in DOMAIN buckets : buckets[k] \in [tokens : 0 .. Full, lastFill : 0 .. now]
  /\ DOMAIN windows \subseteq Addresses
  /\ worker \in [Workers -> [pc : {"idle", "count", "add", "refused"}, at : 0 .. now]]
  /\ \A e \in zset \cup passed.redis : e.at \in 0 .. now
  /\ now \in 0 .. MaxTime /\ faults \in 0 .. MaxFaults /\ merged \in 0 .. MaxFaults

Init ==
  /\ buckets = <<>> /\ windows = <<>> /\ zset = {} /\ merged = 0
  /\ worker = [w \in Workers |-> [pc |-> "idle", at |-> 0]]
  /\ passed = [bucket |-> [k \in Addresses |-> {}], window |-> [k \in Addresses |-> {}], redis |-> {}]
  /\ now = 0 /\ faults = 0

\* The histories forget what is more than a minute ago.
Tick ==
  LET Kept(requests) == Since(requests, now + 1 - Minute) IN
  /\ now < MaxTime /\ now' = now + 1
  /\ passed' = [bucket |-> [k \in Addresses |-> Kept(passed.bucket[k])],
                window |-> [k \in Addresses |-> Kept(passed.window[k])],
                redis |-> Kept(passed.redis)]
  /\ UNCHANGED <<buckets, windows, zset, worker, merged, faults>>

-------------------------------------------------------------------------------
(* The token bucket.                                                         *)

Filled(b) ==
  LET tokens == b.tokens + (now - b.lastFill) * Rpm IN IF tokens > Full THEN Full ELSE tokens

\* allow: the fill is kept even if there is no token to take.
AllowByBucket(k) ==
  LET tokens == IF k \in DOMAIN buckets THEN Filled(buckets[k]) ELSE Full
      allowed == tokens >= Minute
  IN /\ buckets' = [a \in DOMAIN buckets \cup {k} |->
                      IF a # k THEN buckets[a]
                      ELSE [tokens |-> IF allowed THEN tokens - Minute ELSE tokens, lastFill |-> now]]
     /\ passed' = IF allowed THEN [passed EXCEPT !.bucket[k] = @ \cup {Numbered(passed.bucket[k], now)}] ELSE passed
     /\ UNCHANGED <<windows, zset, worker, merged, now, faults>>

CleanBuckets ==
  /\ \E k \in DOMAIN buckets : buckets[k].lastFill + Old < now
  /\ buckets' = [k \in {a \in DOMAIN buckets : buckets[a].lastFill + Old >= now} |-> buckets[k]]
  /\ UNCHANGED <<windows, zset, worker, passed, merged, now, faults>>

-------------------------------------------------------------------------------
(* The sliding window.                                                       *)

\* Handler: an attempt that is refused is not counted.
AllowByWindow(k) ==
  LET valid == IF k \in DOMAIN windows THEN Valid(windows[k]) ELSE {}
      allowed == Cardinality(valid) < Limit
  IN /\ windows' = [a \in DOMAIN windows \cup {k} |->
                      IF a # k THEN windows[a] ELSE IF allowed THEN valid \cup {Numbered(valid, now)} ELSE valid]
     /\ passed' = IF allowed THEN [passed EXCEPT !.window[k] = @ \cup {Numbered(passed.window[k], now)}] ELSE passed
     /\ UNCHANGED <<buckets, zset, worker, merged, now, faults>>

CleanWindows ==
  /\ windows' = [k \in {a \in DOMAIN windows : Valid(windows[a]) # {}} |-> Valid(windows[k])]
  /\ windows' # windows
  /\ UNCHANGED <<buckets, zset, worker, passed, merged, now, faults>>

-------------------------------------------------------------------------------
(* The sorted set in Redis.                                                  *)

\* now := time.Now(); WaitForSlot asks again after a refusal, or gives up.
ReadClock(w) ==
  /\ worker[w].pc \in {"idle", "refused"}
  /\ worker' = [worker EXCEPT ![w] = [pc |-> "count", at |-> now]]
  /\ UNCHANGED <<buckets, windows, zset, passed, merged, now, faults>>
GiveUp(w) ==
  /\ worker[w].pc = "refused" /\ worker' = [worker EXCEPT ![w].pc = "idle"]
  /\ UNCHANGED <<buckets, windows, zset, passed, merged, now, faults>>

\* ZREMRANGEBYSCORE and ZCARD in one pipeline.
CountEntries(w) ==
  /\ worker[w].pc = "count"
  /\ zset' = Since(zset, worker[w].at - Minute)
  /\ worker' = [worker EXCEPT ![w].pc = IF Cardinality(zset') >= BurstMax THEN "refused" ELSE "add"]
  /\ UNCHANGED <<buckets, windows, passed, merged, now, faults>>

\* The request is let through: counted, with the number of its entry, or not.
Pass(w, counted, n) ==
  /\ worker' = [worker EXCEPT ![w].pc = "idle"]
  /\ passed' = [passed EXCEPT !.redis =
                  Valid(@ \cup {[at |-> worker[w].at, n |-> n, counted |-> counted]})]

\* The pipeline fails: the request is let through and not counted.
CountFails(w) ==
  /\ worker[w].pc = "count" /\ faults < MaxFaults /\ faults' = faults + 1
  /\ Pass(w, FALSE, faults + merged)
  /\ UNCHANGED <<buckets, windows, zset, merged, now>>

\* ZADD with the time as member: two of one nanosecond are one. Its error is
\* not looked at.
Add(w) ==
  /\ worker[w].pc = "add"
  /\ LET entry == Numbered(zset, worker[w].at) IN
     \/ Pass(w, TRUE, entry.n) /\ zset' = zset \cup {entry} /\ UNCHANGED <<merged, faults>>
     \/ /\ \E e \in zset : e.at = worker[w].at
        /\ Pass(w, FALSE, faults + merged) /\ merged < MaxFaults /\ merged' = merged + 1 /\ UNCHANGED <<zset, faults>>
     \/ Pass(w, FALSE, faults + merged) /\ faults < MaxFaults /\ faults' = faults + 1 /\ UNCHANGED <<zset, merged>>
  /\ UNCHANGED <<buckets, windows, now>>

Next ==
  \/ Tick \/ CleanBuckets \/ CleanWindows
  \/ \E k \in Addresses : AllowByBucket(k) \/ AllowByWindow(k)
  \/ \E w \in Workers : ReadClock(w) \/ GiveUp(w) \/ CountEntries(w) \/ CountFails(w) \/ Add(w)

Spec == Init /\ [][Next]_vars

-------------------------------------------------------------------------------
(* Properties.                                                               *)

\* Within a minute a bucket lets through what it holds and what it gains, and an
\* address finds it empty only after a minute's requests: throwing buckets away
\* helps nobody and hurts nobody (middleware/ratelimit.go:58-84).
BucketHolds ==
  \A k \in Addresses :
    /\ Cardinality(passed.bucket[k]) <= 2 * Rpm
    /\ k \in DOMAIN buckets /\ Filled(buckets[k]) < Minute => Cardinality(passed.bucket[k]) >= Rpm

\* A window is what passed within its duration, never more than the limit
\* (auth_ratelimit.go:54-75).
WindowHolds ==
  \A k \in Addresses :
    LET valid == IF k \in DOMAIN windows THEN Valid(windows[k]) ELSE {} IN
    valid = passed.window[k] /\ Cardinality(valid) <= Limit

\* The limiter in Redis is passed by those who had counted before another's
\* ZADD, by failed commands and by members that coincide
\* (ai/queue/ratelimit.go:35-58).
RedisHolds ==
  Cardinality(passed.redis) <= BurstMax + Cardinality(Workers) - 1 + faults + merged

\* Each limiter keeps its minute.
RatesHold == TypeOK /\ BucketHolds /\ WindowHolds /\ RedisHolds
===============================================================================
