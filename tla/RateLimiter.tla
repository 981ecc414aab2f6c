---------------------------- MODULE RateLimiter ----------------------------
(***************************************************************************)
(* The rate limiter the four services each have a copy of: RateLimiter in  *)
(* memory, or redisLimiter shared by the replicas when REDIS_URL is set    *)
(* (middleware.go, ws/ratelimit.go, redis_limiter.go).  A bucket is        *)
(* refilled only when it is asked, and forgotten when idle.                *)
(*                                                                         *)
(* Amounts are integers in units of which a token is Unit, so that buckets *)
(* hold fractions of a token as the code's floats do; time is in units of  *)
(* the model's clock and does not go back.                                 *)
(***************************************************************************)
EXTENDS Integers

CONSTANTS
    Keys,         \* client addresses
    Unit, Burst, Rate,
    IdleLimit,    \* 3 minutes without a request: evicted from memory
    Null,
    MaxTime       \* bound of the clock

(* parseFloatOrDefault replaces a rate or a burst that is not positive by  *)
(* the default.  It accepts a burst below one token, with which a client   *)
(* is admitted by its first request only; that is left out.                *)
ASSUME BucketAssumption ==
    /\ {Unit, Burst, Rate, IdleLimit, MaxTime} \subseteq Nat \ {0}
    /\ Unit <= Burst
ASSUME KeysAssumption == Keys # {}
ASSUME NullAssumption == Null \notin [tokens : Nat, lastSeen : Nat]

VARIABLES
    kind,      \* newLimiter's choice
    now,
    visitors,  \* tokens and time of the last request, by key
    answer     \* the last decision

limiterVars == <<kind, visitors, answer>>

(* Mutant: the refill is not capped. *)
RefilledWithoutCap(v) == v.tokens + (now - v.lastSeen) * Rate

Refilled(v) ==
    LET tokens == v.tokens + (now - v.lastSeen) * Rate
    IN  IF tokens > Burst THEN Burst ELSE tokens

(* The ttlMs of newRedisLimiter: twice the time to fill, rounded up, and a *)
(* second.                                                                 *)
TTL == (2 * Burst + Rate - 1) \div Rate + 1

LimiterInit ==
    /\ kind \in {"memory", "redis"}
    /\ now = 0
    /\ visitors = [k \in Keys |-> Null]
    /\ answer = [key |-> CHOOSE k \in Keys : TRUE, ok |-> TRUE]

(* The decision and what is left of the bucket; the time is noted also     *)
(* when the request is denied.  The first request is not asked about.      *)
Decision(k) ==
    LET tokens == IF visitors[k] = Null THEN Burst ELSE Refilled(visitors[k])
        ok     == visitors[k] = Null \/ tokens >= Unit
    IN  [ok |-> ok, tokens |-> IF ok THEN tokens - Unit ELSE tokens]

Store(k) ==
    visitors' = [visitors EXCEPT ![k] = [tokens |-> Decision(k).tokens, lastSeen |-> now]]

(* RateLimiter.allow, under its mutex. *)
AllowMemory(k) ==
    /\ kind = "memory"
    /\ Store(k)
    /\ answer' = [key |-> k, ok |-> Decision(k).ok]
    /\ UNCHANGED kind

(* redisLimiter.allow: the script is atomic. *)
AllowRedis(k) ==
    /\ kind = "redis"
    /\ Store(k)
    /\ answer' = [key |-> k, ok |-> Decision(k).ok]
    /\ UNCHANGED kind

(* The call fails or runs into redisCallTimeout, whether or not the script *)
(* is executed: the request is let through.                                *)
FailOpen(k) ==
    /\ kind = "redis"
    /\ Store(k) \/ UNCHANGED visitors
    /\ answer' = [key |-> k, ok |-> TRUE]
    /\ UNCHANGED kind

Allow(k) == (AllowMemory(k) \/ AllowRedis(k) \/ FailOpen(k)) /\ UNCHANGED now

(* evict, called by cleanupLoop every minute. *)
Evict ==
    /\ kind = "memory"
    /\ visitors' = [k \in Keys |->
          IF visitors[k] # Null /\ now - visitors[k].lastSeen > IdleLimit
          THEN Null ELSE visitors[k]]
    /\ UNCHANGED <<kind, now, answer>>

(* PEXPIRE. *)
Expire(k) ==
    /\ kind = "redis"
    /\ visitors[k] # Null
    /\ now - visitors[k].lastSeen >= TTL
    /\ visitors' = [visitors EXCEPT ![k] = Null]
    /\ UNCHANGED <<kind, now, answer>>

Tick == now < MaxTime /\ now' = now + 1 /\ UNCHANGED limiterVars

-----------------------------------------------------------------------------
(* Nothing relates the 3 minutes of evict to the configured rate: a bucket *)
(* that takes longer to fill is dropped before it is full.                 *)
TooSlow == IdleLimit * Rate < Burst

Bucket == INSTANCE TokenBucket WITH
    failsOpen <- kind = "redis",
    forgets <- kind = "memory" /\ TooSlow,
    level <- [k \in Keys |-> IF visitors[k] = Null THEN Burst ELSE Refilled(visitors[k])]

(* Both limiters are token buckets, although they refill lazily, forget    *)
(* idle clients and take the first request without a look at the bucket:   *)
(* no client is admitted more often than a bucket filled continuously      *)
(* allows, nor denied while it holds a token.  Forgetting makes a bucket   *)
(* full before its time only in memory, and only when the configured rate  *)
(* takes more than 3 minutes to fill it; never in Redis, whose keys live   *)
(* as long as they must.                                                   *)
ImplementsTokenBucket == Bucket!Spec
=============================================================================
