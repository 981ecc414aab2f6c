---------------------------- MODULE GatewayProofs ----------------------------
(***************************************************************************)
(* TLAPS proofs about Gateway and RateLimiter: for any clients, requests,  *)
(* rates, thresholds and timeouts.                                         *)
(***************************************************************************)
EXTENDS Gateway, FiniteSetTheorems, TLAPS

Visitor == [tokens : 0..Burst, lastSeen : 0..now]

(* The level the refinement mapping gives a client's bucket. *)
Level(k) == IF visitors[k] = Null THEN Burst ELSE Refilled(visitors[k])

LimiterOK ==
    /\ kind \in {"memory", "redis"}
    /\ now \in 0..MaxTime
    /\ visitors \in [Keys -> {Null} \cup Visitor]
    /\ answer \in [key : Keys, ok : BOOLEAN]

----------------------------------------------------------------------------
(* Arithmetic of buckets. *)

(* The assumptions, one by one. *)
LEMMA BucketNumbers ==
  /\ Unit \in Nat /\ Unit >= 1 /\ Burst \in Nat /\ Burst >= 1 /\ Rate \in Nat /\ Rate >= 1
  /\ IdleLimit \in Nat /\ IdleLimit >= 1 /\ MaxTime \in Nat
  /\ Unit <= Burst
  BY BucketAssumption

(* Products of naturals are naturals. *)
LEMMA ProductNat == ASSUME NEW a \in Nat, NEW b \in Nat PROVE a * b \in Nat
  OBVIOUS

(* More time fills no less. *)
LEMMA ProductMonotone ==
  ASSUME NEW a \in Nat, NEW b \in Nat, NEW c \in Nat, a >= b
  PROVE  a * c >= b * c
<1>1. PICK d \in Nat : a = b + d
  <2>1. a - b \in Nat /\ a = b + (a - b)
    OBVIOUS
  <2> QED
    BY <2>1
<1>2. a * c = b * c + d * c
  BY <1>1
<1>3. d * c \in Nat /\ b * c \in Nat
  BY ProductNat
<1> QED
  BY <1>2, <1>3

(* A key of Redis lives longer than its bucket takes to fill. *)
LEMMA TTLFills == TTL \in Nat /\ TTL * Rate >= Burst
<1> DEFINE q == (2 * Burst + Rate - 1) \div Rate
           m == (2 * Burst + Rate - 1) % Rate
<1>1. 2 * Burst + Rate - 1 \in Nat /\ Rate \in Nat /\ Rate > 0 /\ Burst \in Nat
  BY BucketNumbers
<1>2. q \in Nat /\ m \in 0..(Rate - 1) /\ 2 * Burst + Rate - 1 = q * Rate + m
  BY <1>1
<1>3. (q + 1) * Rate = q * Rate + Rate
  BY <1>1, <1>2
<1>4. q * Rate \in Nat
  BY <1>1, <1>2, ProductNat
<1> HIDE DEF q, m
<1>5. (q + 1) * Rate >= Burst
  BY <1>1, <1>2, <1>3, <1>4
<1> QED
  BY <1>2, <1>5 DEF TTL, q

(* A visitor's tokens and times are numbers, and not Null. *)
LEMMA VisitorFacts ==
  ASSUME LimiterOK, NEW v \in Visitor
  PROVE  /\ v.tokens \in Nat /\ v.tokens <= Burst
         /\ v.lastSeen \in Nat /\ now \in Nat /\ now - v.lastSeen \in Nat
         /\ v # Null
<1>1. Burst \in Nat /\ now \in Nat
  BY BucketNumbers DEF LimiterOK
<1>2. v \in [tokens : Nat, lastSeen : Nat]
  BY <1>1 DEF Visitor
<1> QED
  BY <1>1, <1>2, NullAssumption DEF Visitor

(* A refilled bucket holds no more than Burst, and no less than before. *)
LEMMA RefilledFacts ==
  ASSUME LimiterOK, NEW v \in Visitor
  PROVE  /\ Refilled(v) \in 0..Burst /\ Refilled(v) \in Nat
         /\ (now - v.lastSeen) * Rate >= Burst => Refilled(v) = Burst
         /\ v.lastSeen = now => Refilled(v) = v.tokens
<1> DEFINE gain == (now - v.lastSeen) * Rate
<1>1. /\ gain \in Nat /\ v.tokens \in Nat /\ v.tokens <= Burst /\ Burst \in Nat
      /\ Rate \in Nat /\ now \in Nat
  BY VisitorFacts, ProductNat, BucketNumbers
<1>2. v.lastSeen = now => gain = 0
  BY <1>1
<1>3. Refilled(v) = IF v.tokens + gain > Burst THEN Burst ELSE v.tokens + gain
  BY DEF Refilled
<1> HIDE DEF gain
<1>4. Refilled(v) \in 0..Burst /\ (gain >= Burst => Refilled(v) = Burst)
      /\ (gain = 0 => Refilled(v) = v.tokens)
  BY <1>1, <1>3
<1> QED
  BY <1>1, <1>2, <1>4 DEF gain

(* A client's level is a natural up to Burst. *)
LEMMA LevelFacts ==
  ASSUME LimiterOK, NEW k \in Keys
  PROVE  Level(k) \in 0..Burst /\ Level(k) \in Nat
<1>1. CASE visitors[k] = Null
  BY <1>1, BucketNumbers DEF Level
<1>2. CASE visitors[k] # Null
  <2>1. visitors[k] \in Visitor
    BY <1>2 DEF LimiterOK
  <2> QED
    BY <1>2, <2>1, RefilledFacts DEF Level
<1> QED
  BY <1>1, <1>2

(* The decision is the one the level asks for: the first request finds a   *)
(* full bucket, which holds a token.                                       *)
LEMMA DecisionFacts ==
  ASSUME LimiterOK, NEW k \in Keys
  PROVE  /\ Decision(k).ok \in BOOLEAN
         /\ Decision(k).ok <=> Level(k) >= Unit
         /\ Decision(k).tokens = IF Level(k) >= Unit THEN Level(k) - Unit ELSE Level(k)
         /\ Decision(k).tokens \in 0..Burst
<1> DEFINE ok == visitors[k] = Null \/ Level(k) >= Unit
<1>1. Decision(k) = [ok |-> ok, tokens |-> IF ok THEN Level(k) - Unit ELSE Level(k)]
  BY DEF Decision, Level
<1>2. ok <=> Level(k) >= Unit
  BY BucketNumbers DEF Level
<1>3. Decision(k).ok = ok /\ Decision(k).tokens = IF ok THEN Level(k) - Unit ELSE Level(k)
  BY <1>1
<1>4. ok \in BOOLEAN
  OBVIOUS
<1> HIDE DEF ok
<1>5. Decision(k).tokens = IF Level(k) >= Unit THEN Level(k) - Unit ELSE Level(k)
  BY <1>2, <1>3
<1>6. Decision(k).tokens \in 0..Burst
  BY <1>5, LevelFacts, BucketNumbers
<1> QED
  BY <1>2, <1>3, <1>4, <1>5, <1>6

(* What a call of allow leaves of the bucket. *)
LEMMA StoreFacts ==
  ASSUME LimiterOK, NEW k \in Keys, Store(k), now' = now
  PROVE  /\ visitors' \in [Keys -> {Null} \cup Visitor]
         /\ \A j \in Keys : Level(j)' = IF j = k THEN Decision(k).tokens ELSE Level(j)
<1> DEFINE v == [tokens |-> Decision(k).tokens, lastSeen |-> now]
<1>1. v \in Visitor /\ v.tokens = Decision(k).tokens /\ v.lastSeen = now
  BY DecisionFacts DEF Visitor, LimiterOK
<1>2. visitors' = [visitors EXCEPT ![k] = v]
  BY DEF Store
<1>3. v # Null /\ Refilled(v) = Decision(k).tokens
  BY <1>1, VisitorFacts, RefilledFacts
<1>4. visitors'[k] = v /\ \A j \in Keys \ {k} : visitors'[j] = visitors[j]
  BY <1>2 DEF LimiterOK
<1>5. visitors' \in [Keys -> {Null} \cup Visitor]
  BY <1>1, <1>2 DEF LimiterOK
<1> HIDE DEF v
<1>6. Level(k)' = Refilled(v)
  BY <1>3, <1>4 DEF Level, Refilled
<1>7. ASSUME NEW j \in Keys \ {k} PROVE Level(j)' = Level(j)
  BY <1>4 DEF Level, Refilled
<1> QED
  BY <1>3, <1>5, <1>6, <1>7

(* A bucket that is dropped was full, unless it is a slow one in memory. *)
LEMMA DroppedWasFull ==
  ASSUME LimiterOK, NEW k \in Keys, visitors[k] # Null,
         \/ ~TooSlow /\ now - visitors[k].lastSeen > IdleLimit
         \/ now - visitors[k].lastSeen >= TTL
  PROVE  Level(k) = Burst
<1>1. visitors[k] \in Visitor
  BY DEF LimiterOK
<1> DEFINE idle == now - visitors[k].lastSeen
<1>2. idle \in Nat
  BY <1>1, VisitorFacts
<1>3. idle * Rate >= Burst
  <2>1. CASE ~TooSlow /\ idle >= IdleLimit
    <3>1. IdleLimit * Rate >= Burst
      BY <2>1, ProductNat, BucketNumbers DEF TooSlow
    <3> QED
      BY <1>2, <2>1, <3>1, ProductMonotone, ProductNat, BucketNumbers
  <2>2. CASE idle >= TTL
    BY <1>2, <2>2, ProductMonotone, ProductNat, BucketNumbers, TTLFills
  <2> QED
    BY <1>2, <2>1, <2>2, BucketNumbers
<1> QED
  BY <1>1, <1>3, RefilledFacts DEF Level

(* Eviction and expiry change no level, but an eviction of slow buckets    *)
(* makes them full.                                                        *)
LEMMA DropFacts ==
  ASSUME LimiterOK, Evict \/ \E k \in Keys : Expire(k)
  PROVE  /\ visitors' \in [Keys -> {Null} \cup Visitor]
         /\ UNCHANGED <<kind, now, answer>>
         /\ \/ \A k \in Keys : Level(k)' = Level(k)
            \/ /\ kind = "memory" /\ TooSlow
               /\ \A k \in Keys : Level(k)' = Level(k) \/ Level(k)' = Burst
<1>1. UNCHANGED <<kind, now, answer>>
  BY DEF Evict, Expire
<1>2. visitors' \in [Keys -> {Null} \cup Visitor]
  BY DEF Evict, Expire, LimiterOK
<1>3. ASSUME NEW k \in Keys, visitors'[k] # visitors[k]
      PROVE  /\ visitors'[k] = Null /\ visitors[k] # Null
             /\ \/ kind = "memory" /\ now - visitors[k].lastSeen > IdleLimit
                \/ now - visitors[k].lastSeen >= TTL
  BY <1>3 DEF Evict, Expire, LimiterOK
<1>4. ASSUME NEW k \in Keys
      PROVE  /\ Level(k)' = Level(k) \/ Level(k)' = Burst
             /\ ~(kind = "memory" /\ TooSlow) => Level(k)' = Level(k)
  <2>1. CASE visitors'[k] = visitors[k]
    BY <1>1, <2>1 DEF Level, Refilled
  <2>2. CASE visitors'[k] # visitors[k]
    <3>1. Level(k)' = Burst
      BY <1>3, <2>2 DEF Level
    <3> QED
      BY <1>3, <2>2, <3>1, DroppedWasFull
  <2> QED
    BY <2>1, <2>2
<1> QED
  BY <1>1, <1>2, <1>4

(* A tick of the clock adds Rate to every bucket that is not full: filling *)
(* lazily is the same as filling all the time.                             *)
LEMMA TickFacts ==
  ASSUME LimiterOK, Tick
  PROVE  /\ LimiterOK'
         /\ \A k \in Keys : Level(k)' = IF Level(k) + Rate > Burst THEN Burst
                                        ELSE Level(k) + Rate
<1>1. now' = now + 1 /\ now \in Nat /\ now' \in 0..MaxTime /\ UNCHANGED <<kind, visitors, answer>>
  BY BucketNumbers DEF Tick, limiterVars, LimiterOK
<1>2. Visitor \subseteq Visitor'
  BY <1>1 DEF Visitor
<1>3. LimiterOK'
  BY <1>1, <1>2 DEF LimiterOK
<1>4. ASSUME NEW k \in Keys
      PROVE  Level(k)' = IF Level(k) + Rate > Burst THEN Burst ELSE Level(k) + Rate
  <2>1. CASE visitors[k] = Null
    BY <1>1, <2>1, BucketNumbers DEF Level
  <2>2. CASE visitors[k] # Null
    <3> DEFINE t == visitors[k].tokens
               gain == (now - visitors[k].lastSeen) * Rate
    <3>1. visitors[k] \in Visitor
      BY <2>2 DEF LimiterOK
    <3>2. /\ t \in Nat /\ t <= Burst /\ gain \in Nat /\ now - visitors[k].lastSeen \in Nat
          /\ visitors[k].lastSeen \in Nat
      BY <3>1, VisitorFacts, ProductNat, BucketNumbers
    <3>3. (now' - visitors[k].lastSeen) * Rate = gain + Rate
      <4>1. now' - visitors[k].lastSeen = (now - visitors[k].lastSeen) + 1
        BY <1>1, <3>2
      <4>2. \A a, c \in Nat : (a + 1) * c = a * c + c
        OBVIOUS
      <4> QED
        BY <3>2, <4>1, <4>2, BucketNumbers
    <3>4. /\ Level(k) = IF t + gain > Burst THEN Burst ELSE t + gain
          /\ Level(k)' = IF t + (gain + Rate) > Burst THEN Burst ELSE t + (gain + Rate)
      BY <1>1, <2>2, <3>3 DEF Level, Refilled
    <3> HIDE DEF t, gain
    <3> QED
      BY <3>2, <3>4, BucketNumbers
  <2> QED
    BY <2>1, <2>2
<1> QED
  BY <1>3, <1>4

----------------------------------------------------------------------------
(* The refinement of TokenBucket, step by step. *)

levelBar == [k \in Keys |-> Level(k)]

(* A decision is the bucket's, or a request let through by a limiter that  *)
(* fails open.                                                             *)
LEMMA AllowRefines ==
  ASSUME LimiterOK, NEW k \in Keys, Allow(k)
  PROVE  LimiterOK' /\ Bucket!Next
<1>1. /\ UNCHANGED <<now, kind>>
      /\ \/ Store(k) /\ answer' = [key |-> k, ok |-> Decision(k).ok]
         \/ kind = "redis" /\ Store(k) /\ answer' = [key |-> k, ok |-> TRUE]
         \/ kind = "redis" /\ UNCHANGED visitors /\ answer' = [key |-> k, ok |-> TRUE]
  BY DEF Allow, AllowMemory, AllowRedis, FailOpen
<1>3. CASE Store(k) /\ answer' = [key |-> k, ok |-> Decision(k).ok]
  <2>1. LimiterOK'
    BY <1>1, <1>3, StoreFacts, DecisionFacts DEF LimiterOK, Visitor
  <2>2. CASE Level(k) >= Unit
    <3>1. answer' = [key |-> k, ok |-> TRUE]
      BY <1>3, <2>2, DecisionFacts
    <3>2. levelBar' = [levelBar EXCEPT ![k] = @ - Unit]
      BY <1>1, <1>3, <2>2, StoreFacts, DecisionFacts DEF levelBar
    <3> QED
      BY <1>1, <2>1, <2>2, <3>1, <3>2
         DEF Bucket!Next, Bucket!Admit, Bucket!Pay, levelBar, Level
  <2>3. CASE ~(Level(k) >= Unit)
    <3>1. answer' = [key |-> k, ok |-> FALSE]
      BY <1>3, <2>3, DecisionFacts
    <3>2. levelBar' = levelBar /\ Level(k) < Unit
      BY <1>1, <1>3, <2>3, StoreFacts, DecisionFacts, LevelFacts, BucketNumbers DEF levelBar
    <3> QED
      BY <1>1, <2>1, <3>1, <3>2 DEF Bucket!Next, Bucket!Deny, levelBar, Level
  <2> QED
    BY <2>2, <2>3
<1>4. CASE kind = "redis" /\ Store(k) /\ answer' = [key |-> k, ok |-> TRUE]
  <2>1. LimiterOK'
    BY <1>1, <1>4, StoreFacts DEF LimiterOK, Visitor
  <2>2. CASE Level(k) >= Unit
    <3>1. levelBar' = [levelBar EXCEPT ![k] = @ - Unit]
      BY <1>1, <1>4, <2>2, StoreFacts, DecisionFacts DEF levelBar
    <3> QED
      BY <1>1, <1>4, <2>1, <2>2, <3>1
         DEF Bucket!Next, Bucket!Admit, Bucket!Pay, levelBar, Level
  <2>3. CASE ~(Level(k) >= Unit)
    <3>1. levelBar' = levelBar
      BY <1>1, <1>4, <2>3, StoreFacts, DecisionFacts DEF levelBar
    <3> QED
      BY <1>1, <1>4, <2>1, <3>1 DEF Bucket!Next, Bucket!FailOpen, levelBar, Level
  <2> QED
    BY <2>2, <2>3
<1>5. CASE kind = "redis" /\ UNCHANGED visitors /\ answer' = [key |-> k, ok |-> TRUE]
  <2>1. LimiterOK'
    BY <1>1, <1>5 DEF LimiterOK, Visitor
  <2>2. levelBar' = levelBar
    BY <1>1, <1>5 DEF levelBar, Level, Refilled
  <2> QED
    BY <1>1, <1>5, <2>1, <2>2 DEF Bucket!Next, Bucket!FailOpen, levelBar, Level
<1> QED
  BY <1>1, <1>3, <1>4, <1>5

(* Time fills the buckets; dropping one changes nothing, or forgets it. *)
LEMMA BackgroundRefines ==
  ASSUME LimiterOK, Tick \/ Evict \/ \E k \in Keys : Expire(k)
  PROVE  LimiterOK' /\ [Bucket!Next]_(Bucket!vars)
<1>1. CASE Tick
  <2>1. levelBar' = [k \in Keys |-> IF levelBar[k] + Rate > Burst THEN Burst
                                    ELSE levelBar[k] + Rate]
    BY <1>1, TickFacts DEF levelBar
  <2>2. LimiterOK' /\ UNCHANGED <<kind, answer>>
    BY <1>1, TickFacts DEF Tick, limiterVars
  <2> QED
    BY <2>1, <2>2 DEF Bucket!Next, Bucket!Fill, levelBar, Level
<1>2. CASE Evict \/ \E k \in Keys : Expire(k)
  <2>1. LimiterOK'
    BY <1>2, DropFacts DEF LimiterOK, Visitor
  <2>2. CASE \A k \in Keys : Level(k)' = Level(k)
    <3>1. UNCHANGED <<kind, levelBar, answer>>
      BY <1>2, <2>2, DropFacts DEF levelBar
    <3> QED
      BY <2>1, <3>1 DEF Bucket!vars, levelBar, Level
  <2>3. CASE /\ kind = "memory" /\ TooSlow
             /\ \A k \in Keys : Level(k)' = Level(k) \/ Level(k)' = Burst
    <3> DEFINE ks == {k \in Keys : Level(k)' = Burst}
    <3>1. levelBar' = [k \in Keys |-> IF k \in ks THEN Burst ELSE levelBar[k]]
      BY <2>3 DEF levelBar
    <3>2. UNCHANGED <<kind, answer>> /\ ks \in SUBSET Keys
      BY <1>2, DropFacts
    <3> HIDE DEF ks
    <3> QED
      BY <2>1, <2>3, <3>1, <3>2 DEF Bucket!Next, Bucket!Forget, levelBar, Level
  <2> QED
    BY <1>2, <2>2, <2>3, DropFacts
<1> QED
  BY <1>1, <1>2

(* All other steps leave the limiter alone. *)
LEMMA LimiterIdle ==
  ASSUME LimiterOK, UNCHANGED <<limiterVars, now>>
  PROVE  LimiterOK' /\ UNCHANGED Bucket!vars
  BY DEF limiterVars, LimiterOK, Visitor, Bucket!vars, Refilled

(* Every step of the gateway is a step of the token bucket or none. *)
LEMMA NextRefines ==
  ASSUME LimiterOK, [Next]_vars PROVE LimiterOK' /\ [Bucket!Next]_(Bucket!vars)
<1>1. CASE \E k \in Keys : Allow(k)
  BY <1>1, AllowRefines
<1>2. CASE Tick \/ Evict \/ \E k \in Keys : Expire(k)
  BY <1>2, BackgroundRefines
<1>3. CASE UNCHANGED <<limiterVars, now>>
  BY <1>3, LimiterIdle
<1> QED
  BY <1>1, <1>2, <1>3, KeyOfAssumption
     DEF Next, vars, Serve, Background, Arrive, Send, HangUp, Respond, Fail, Finish,
         Shutdown, Exit

(* No bucket is known at first, and an unknown bucket is full. *)
LEMMA InitRefines == Init => LimiterOK /\ Bucket!Init
<1> SUFFICES ASSUME Init PROVE LimiterOK /\ Bucket!Init
  OBVIOUS
<1>1. LimiterOK
  BY KeysAssumption, BucketNumbers DEF Init, LimiterInit, LimiterOK
<1>2. Bucket!Init
  BY DEF Init, LimiterInit, Bucket!Init
<1> QED
  BY <1>1, <1>2

(* Both rate limiters, under any interleaving of requests, evictions,      *)
(* expiries and failed calls of Redis, implement a token bucket per        *)
(* client: filled continuously, full at first, a token per admission, and  *)
(* full before its time only where evict forgets a slow bucket.            *)
THEOREM LimiterIsTokenBucket == Spec => ImplementsTokenBucket
<1>1. LimiterOK /\ [Next]_vars => LimiterOK' /\ [Bucket!Next]_(Bucket!vars)
  BY NextRefines
<1> QED
  BY InitRefines, <1>1, PTL DEF Spec, ImplementsTokenBucket, Bucket!Spec

----------------------------------------------------------------------------
(* The circuit breaker *)

Breaker == [state : {"closed", "open", "half-open"}, generation : Nat,
            requests : Nat, failures : Nat, expiry : Nat]

(* The requests the upstream failed while their client was waiting. *)
Failed == {r \in Requests : st[r] = "502"}

(* What the counters know: a breaker has not counted more failures than    *)
(* there were, and has not opened with fewer than it takes.                *)
Explained(b, n) == b.failures <= n /\ (b.state # "closed" => n > Threshold)

(* The inductive invariant. *)
IInv == TypeOK /\ Explained(cb, Cardinality(Failed))

(* Operations of gobreaker on a breaker whose counts are explained. *)
LEMMA BreakerOps ==
  ASSUME NEW b \in Breaker, NEW n \in Nat, now \in Nat, Explained(b, n)
  PROVE  /\ n > Threshold => \A s \in {"open", "half-open"} :
               SetState(b, s) \in Breaker /\ Explained(SetState(b, s), n)
         /\ OnSuccess(b) \in Breaker /\ Explained(OnSuccess(b), n)
         /\ OnFailure(b) \in Breaker /\ Explained(OnFailure(b), n + 1)
         /\ \A x \in OnExcluded(b) : x \in Breaker /\ Explained(x, n)
         /\ [b EXCEPT !.requests = @ + 1] \in Breaker
         /\ Explained([b EXCEPT !.requests = @ + 1], n)
<1> USE BreakerAssumption DEF Breaker, Explained
<1>1. ASSUME NEW s \in {"closed", "open", "half-open"}
      PROVE  SetState(b, s) \in Breaker /\ SetState(b, s).failures = 0
             /\ SetState(b, s).state = s
  BY DEF SetState
<1>2. n > Threshold => \A s \in {"open", "half-open"} :
               SetState(b, s) \in Breaker /\ Explained(SetState(b, s), n)
  BY <1>1
<1>3. OnSuccess(b) \in Breaker /\ Explained(OnSuccess(b), n)
  BY <1>1 DEF OnSuccess
<1>4. OnFailure(b) \in Breaker /\ Explained(OnFailure(b), n + 1)
  BY <1>1 DEF OnFailure
<1>5. \A x \in OnExcluded(b) : x \in Breaker /\ Explained(x, n)
  BY DEF OnExcluded
<1>6. [b EXCEPT !.requests = @ + 1] \in Breaker /\ Explained([b EXCEPT !.requests = @ + 1], n)
  OBVIOUS
<1> QED
  BY <1>2, <1>3, <1>4, <1>5, <1>6

(* The state the breaker finds itself in when it is asked. *)
LEMMA CurrentFacts ==
  ASSUME NEW n \in Nat, now \in Nat, cb \in Breaker, Explained(cb, n)
  PROVE  Current \in Breaker /\ Explained(Current, n)
<1>1. CASE cb.state = "open" /\ cb.expiry < now
  <2>1. n > Threshold
    BY <1>1 DEF Explained
  <2> QED
    BY <1>1, <2>1, BreakerOps DEF Current
<1>2. CASE ~(cb.state = "open" /\ cb.expiry < now)
  BY <1>2 DEF Current
<1> QED
  BY <1>1, <1>2

RequestStates == {"idle", "proxy", "sent"} \cup Answers

RequestsOK ==
    /\ st \in [Requests -> RequestStates]
    /\ gone \in [Requests -> BOOLEAN]
    /\ sentIn \in [Requests -> Nat]
    /\ cb \in Breaker
    /\ phase \in {"up", "draining", "exited"}

(* The types of the limiter are part of those of the gateway. *)
LEMMA TypeOKParts ==
  (TypeOK <=> LimiterOK /\ RequestsOK) /\ (TypeOK' <=> LimiterOK' /\ RequestsOK')
  BY DEF TypeOK, LimiterOK, RequestsOK, Visitor, Breaker, RequestStates

(* The failures can be counted. *)
LEMMA FailedFinite == IsFiniteSet(Failed) /\ Cardinality(Failed) \in Nat
  BY FS_Subset, FS_CardinalityType, KeyOfAssumption DEF Failed

(* A step that fails no request and leaves the breaker explained. *)
LEMMA SameFailed ==
  ASSUME Explained(cb', Cardinality(Failed)), NEW r \in Requests,
         \A q \in Requests : st'[q] = "502" <=> st[q] = "502"
  PROVE  Explained(cb, Cardinality(Failed))'
<1>1. Failed' = Failed
  BY DEF Failed
<1> QED
  BY <1>1 DEF Explained

(* A request is answered. *)
LEMMA FinishInv ==
  ASSUME RequestsOK, now \in Nat, Explained(cb, Cardinality(Failed)), NEW r \in Requests,
         Respond(r) \/ Fail(r)
  PROVE  RequestsOK' /\ Explained(cb, Cardinality(Failed))'
<1> DEFINE n == Cardinality(Failed)
<1>1. n \in Nat
  BY FailedFinite
<1>2. Current \in Breaker /\ Explained(Current, n)
  BY <1>1, CurrentFacts DEF RequestsOK
<1>3. ASSUME NEW outcome \in {"served", "502", "abandoned"}, Finish(r, outcome),
             NEW b \in Breaker, cb' = b
      PROVE  RequestsOK'
  BY <1>3 DEF Finish, RequestsOK, RequestStates, Answers
<1>4. CASE Respond(r)
  <2>1. Finish(r, "served") /\ cb' \in {Current, OnSuccess(Current)}
    BY <1>4 DEF Respond, Finish, After
  <2>2. cb' \in Breaker /\ Explained(cb', n)
    BY <1>1, <1>2, <2>1, BreakerOps
  <2>3. \A q \in Requests : st'[q] = "502" <=> st[q] = "502"
    BY <2>1 DEF Finish, RequestsOK
  <2> QED
    BY <1>3, <2>1, <2>2, <2>3, SameFailed
<1>5. CASE Fail(r) /\ gone[r]
  <2>1. Finish(r, "abandoned") /\ cb' \in {Current} \cup OnExcluded(Current)
    BY <1>5 DEF Fail, Outcome, Finish, After
  <2>2. cb' \in Breaker /\ Explained(cb', n)
    BY <1>1, <1>2, <2>1, BreakerOps
  <2>3. \A q \in Requests : st'[q] = "502" <=> st[q] = "502"
    BY <1>5, <2>1 DEF Finish, RequestsOK
  <2> QED
    BY <1>3, <2>1, <2>2, <2>3, SameFailed
<1>6. CASE Fail(r) /\ ~gone[r]
  <2>1. Finish(r, "502") /\ cb' \in {Current, OnFailure(Current)}
    BY <1>6 DEF Fail, Outcome, Finish, After
  <2>2. Explained(Current, n + 1)
    BY <1>1, <1>2, BreakerAssumption DEF Explained, Breaker
  <2>3. cb' \in Breaker /\ Explained(cb', n + 1)
    BY <1>1, <1>2, <2>1, <2>2, BreakerOps
  <2>4. Failed' = Failed \cup {r} /\ r \notin Failed
    BY <1>6, <2>1 DEF Finish, RequestsOK, Failed
  <2>5. Cardinality(Failed') = n + 1
    BY <2>4, FailedFinite, FS_AddElement
  <2> QED
    BY <1>3, <2>1, <2>3, <2>5 DEF Explained
<1> QED
  BY <1>4, <1>5, <1>6

(* Every step preserves the invariant. *)
LEMMA NextIInv == IInv /\ [Next]_vars => IInv'
<1> SUFFICES ASSUME IInv, [Next]_vars PROVE IInv'
  OBVIOUS
<1> DEFINE n == Cardinality(Failed)
<1>1. LimiterOK /\ RequestsOK /\ Explained(cb, n) /\ n \in Nat /\ now \in Nat
  BY TypeOKParts, FailedFinite, BucketNumbers DEF IInv, LimiterOK
<1>2. LimiterOK'
  BY <1>1, NextRefines
<1> SUFFICES RequestsOK' /\ Explained(cb, Cardinality(Failed))'
  BY <1>2, TypeOKParts DEF IInv
<1>3. ASSUME NEW r \in Requests, NEW route \in {"local", "public", "protected"},
             NEW tokenOK \in BOOLEAN, Arrive(r, route, tokenOK)
      PROVE  RequestsOK' /\ Explained(cb, Cardinality(Failed))'
  <2>1. \E a \in {"served", "proxy", "401", "429"} : st' = [st EXCEPT ![r] = a]
    BY <1>3 DEF Arrive, Routed, Authenticated
  <2>2. st[r] = "idle" /\ UNCHANGED <<gone, sentIn, cb, phase>>
    BY <1>3 DEF Arrive
  <2>3. RequestsOK'
    BY <1>1, <2>1, <2>2 DEF RequestsOK, RequestStates, Answers
  <2>4. \A q \in Requests : st'[q] = "502" <=> st[q] = "502"
    BY <1>1, <2>1, <2>2 DEF RequestsOK
  <2> QED
    BY <1>1, <2>2, <2>3, <2>4, SameFailed
<1>4. ASSUME NEW r \in Requests, Send(r)
      PROVE  RequestsOK' /\ Explained(cb, Cardinality(Failed))'
  <2>1. Current \in Breaker /\ Explained(Current, n) /\ Current.generation \in Nat
    BY <1>1, CurrentFacts DEF RequestsOK, Breaker
  <2>2. cb' \in Breaker /\ Explained(cb', n)
    BY <1>1, <1>4, <2>1, BreakerOps DEF Send
  <2>3. RequestsOK'
    BY <1>1, <1>4, <2>1, <2>2 DEF Send, RequestsOK, RequestStates, Answers
  <2>4. \A q \in Requests : st'[q] = "502" <=> st[q] = "502"
    BY <1>1, <1>4 DEF Send, RequestsOK
  <2> QED
    BY <2>2, <2>3, <2>4, SameFailed
<1>5. ASSUME NEW r \in Requests, HangUp(r)
      PROVE  RequestsOK' /\ Explained(cb, Cardinality(Failed))'
  BY <1>1, <1>5 DEF HangUp, RequestsOK, Explained, Failed
<1>6. CASE Background \/ Shutdown \/ UNCHANGED vars
  BY <1>1, <1>6 DEF Background, Shutdown, vars, requestVars, RequestsOK, Explained, Failed
<1>7. CASE Exit
  <2>1. RequestsOK' /\ UNCHANGED cb
    BY <1>1, <1>7 DEF Exit, RequestsOK, RequestStates, Answers
  <2>2. Failed' = Failed
    BY <1>1, <1>7 DEF Exit, InFlight, Failed, RequestsOK
  <2> QED
    BY <1>1, <2>1, <2>2 DEF Explained
<1> QED
  BY <1>1, <1>3, <1>4, <1>5, <1>6, <1>7, FinishInv DEF Next, Serve

(* The circuit is closed at first. *)
LEMMA InitIInv == Init => IInv
<1> SUFFICES ASSUME Init PROVE IInv
  OBVIOUS
<1>1. LimiterOK
  BY InitRefines
<1>2. RequestsOK
  BY DEF Init, RequestsOK, RequestStates, Breaker
<1>3. Explained(cb, Cardinality(Failed))
  BY FailedFinite DEF Init, Explained
<1> QED
  BY <1>1, <1>2, <1>3, TypeOKParts DEF IInv

(* The inductive invariant holds in every reachable state. *)
LEMMA InvariantHolds == Spec => []IInv
  BY InitIInv, NextIInv, PTL DEF Spec

(* The gateway keeps to the types of its state. *)
THEOREM TypeCorrect == Spec => []TypeOK
<1>1. IInv => TypeOK
  BY DEF IInv
<1> QED
  BY <1>1, InvariantHolds, PTL

(* Whatever clients do, the circuit leaves the closed state only after     *)
(* more than Threshold failures of the upstream.                           *)
THEOREM CircuitOpensForUpstream == Spec => []OnlyUpstreamTrips
<1>1. IInv => OnlyUpstreamTrips
  BY DEF IInv, Explained, Failed, OnlyUpstreamTrips
<1> QED
  BY <1>1, InvariantHolds, PTL
=============================================================================
