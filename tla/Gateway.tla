------------------------------ MODULE Gateway ------------------------------
(***************************************************************************)
(* One api-gateway replica in front of one upstream service (cmd/main.go,  *)
(* middleware.go): rate limit, authentication, circuit breaker, reverse    *)
(* proxy and graceful shutdown.  The other upstream has a breaker of its   *)
(* own and the same limiter.                                               *)
(*                                                                         *)
(* The breaker is gobreaker v2 with the settings of newUpstreamBreaker: it *)
(* opens after more than Threshold consecutive failures, admits one trial  *)
(* OpenFor later, and ignores the result of a request it admitted in an    *)
(* earlier state.                                                          *)
(***************************************************************************)
EXTENDS RateLimiter, FiniteSets

CONSTANTS
    Requests,
    KeyOf,       \* the client address of a request
    Threshold,   \* gobreaker's default ReadyToTrip, 5
    OpenFor      \* gobreaker's default Timeout, 60 s

ASSUME BreakerAssumption == Threshold \in Nat /\ OpenFor \in Nat
ASSUME KeyOfAssumption == KeyOf \in [Requests -> Keys] /\ IsFiniteSet(Requests)

VARIABLES
    st,       \* where a request is, or how it was answered
    gone,     \* its client has given up
    sentIn,   \* the breaker's generation when the request passed it
    cb,       \* the breaker
    phase     \* of the process: "up", "draining" (SIGTERM) or "exited"

requestVars == <<st, gone, sentIn>>
vars == <<limiterVars, now, requestVars, cb, phase>>

Answers == {"served", "401", "429", "502", "503", "abandoned", "cut"}
InFlight(r) == st[r] \in {"proxy", "sent"}

TypeOK ==
    /\ kind \in {"memory", "redis"}
    /\ now \in 0..MaxTime
    /\ visitors \in [Keys -> {Null} \cup [tokens : 0..Burst, lastSeen : 0..now]]
    /\ answer \in [key : Keys, ok : BOOLEAN]
    /\ st \in [Requests -> {"idle", "proxy", "sent"} \cup Answers]
    /\ gone \in [Requests -> BOOLEAN]
    /\ sentIn \in [Requests -> Nat]
    /\ cb \in [state : {"closed", "open", "half-open"}, generation : Nat,
               requests : Nat, failures : Nat, expiry : Nat]
    /\ phase \in {"up", "draining", "exited"}

Init ==
    /\ LimiterInit
    /\ st = [r \in Requests |-> "idle"]
    /\ gone = [r \in Requests |-> FALSE]
    /\ sentIn = [r \in Requests |-> 0]
    /\ cb = [state |-> "closed", generation |-> 0, requests |-> 0, failures |-> 0,
             expiry |-> 0]
    /\ phase = "up"

-----------------------------------------------------------------------------
(* gobreaker *)

SetState(b, state) ==
    [state |-> state, generation |-> b.generation + 1, requests |-> 0, failures |-> 0,
     expiry |-> IF state = "open" THEN now + OpenFor ELSE 0]

Current == IF cb.state = "open" /\ cb.expiry < now THEN SetState(cb, "half-open") ELSE cb

(* One trial at a time. *)
Refuses(b) == b.state = "open" \/ (b.state = "half-open" /\ b.requests >= 1)

Stale(r) == sentIn[r] # Current.generation

OnSuccess(b) ==
    IF b.state = "half-open" THEN SetState(b, "closed") ELSE [b EXCEPT !.failures = 0]

OnFailure(b) ==
    IF b.state = "half-open" \/ b.failures + 1 > Threshold THEN SetState(b, "open")
    ELSE [b EXCEPT !.failures = @ + 1]

(* An excluded result counts neither way; whether it gives a trial's place *)
(* back is left open.                                                      *)
OnExcluded(b) == {b} \cup {[b EXCEPT !.requests = @ - 1] : x \in {1} \cap 1..b.requests}

After(r, outcome) ==
    IF Stale(r) THEN {Current}
    ELSE CASE outcome = "served" -> {OnSuccess(Current)}
           [] outcome = "502" -> {OnFailure(Current)}
           [] outcome = "abandoned" -> OnExcluded(Current)

-----------------------------------------------------------------------------
(* authMiddleware, where a route has it: the token is missing, invalid or  *)
(* without user_id and role, or the request goes on to the proxy.          *)
Authenticated(tokenOK) == IF tokenOK THEN "proxy" ELSE "401"

(* The handlers after the rate limiter; /health and /metrics are local. *)
Routed(route, tokenOK) ==
    CASE route = "local"     -> "served"
      [] route = "public"    -> "proxy"
      [] route = "protected" -> Authenticated(tokenOK)

Arrive(r, route, tokenOK) ==
    /\ phase = "up"
    /\ st[r] = "idle"
    /\ Allow(KeyOf[r])
    /\ st' = [st EXCEPT ![r] = IF answer'.ok THEN Routed(route, tokenOK) ELSE "429"]
    /\ UNCHANGED <<gone, sentIn, cb, phase>>

(* breaker.Execute lets the request through or fails with ErrOpenState or  *)
(* ErrTooManyRequests, which proxyErrorHandler turns into 503.             *)
Send(r) ==
    /\ phase # "exited"
    /\ st[r] = "proxy"
    /\ IF Refuses(Current)
       THEN /\ st' = [st EXCEPT ![r] = "503"]
            /\ cb' = Current
            /\ UNCHANGED sentIn
       ELSE /\ st' = [st EXCEPT ![r] = "sent"]
            /\ cb' = [Current EXCEPT !.requests = @ + 1]
            /\ sentIn' = [sentIn EXCEPT ![r] = Current.generation]
    /\ UNCHANGED <<limiterVars, now, gone, phase>>

HangUp(r) ==
    /\ phase # "exited"
    /\ InFlight(r)
    /\ ~gone[r]
    /\ gone' = [gone EXCEPT ![r] = TRUE]
    /\ UNCHANGED <<limiterVars, now, st, sentIn, cb, phase>>

(* Mutant: every transport error counts, as it did before clientGoneError. *)
OutcomeUnmarked(r) == "502"

(* An error is the client's doing when its context is done by then. *)
Outcome(r) == IF gone[r] THEN "abandoned" ELSE "502"

Finish(r, outcome) ==
    /\ phase # "exited"
    /\ st[r] = "sent"
    /\ st' = [st EXCEPT ![r] = IF gone[r] THEN "abandoned" ELSE outcome]
    /\ cb' \in After(r, outcome)
    /\ UNCHANGED <<limiterVars, now, gone, sentIn, phase>>

(* The upstream answers, whatever the status. *)
Respond(r) == Finish(r, "served")

(* The upstream is unreachable, times out, or the client's context ends.   *)
Fail(r) == Finish(r, Outcome(r))

(* SIGTERM: srv.Shutdown stops accepting and waits for the requests in     *)
(* flight, for 10 s.                                                       *)
Shutdown ==
    /\ phase = "up"
    /\ phase' = "draining"
    /\ UNCHANGED <<limiterVars, now, requestVars, cb>>

Exit ==
    /\ phase = "draining"
    /\ phase' = "exited"
    /\ st' = [r \in Requests |-> IF InFlight(r) THEN "cut" ELSE st[r]]
    /\ UNCHANGED <<limiterVars, now, gone, sentIn, cb>>

Serve(r) ==
    \/ \E route \in {"local", "public", "protected"}, tokenOK \in BOOLEAN :
          Arrive(r, route, tokenOK)
    \/ Send(r) \/ HangUp(r) \/ Respond(r) \/ Fail(r)

Background ==
    /\ Tick \/ Evict \/ \E k \in Keys : Expire(k)
    /\ UNCHANGED <<requestVars, cb, phase>>

Next == (\E r \in Requests : Serve(r)) \/ Background \/ Shutdown \/ Exit

Spec == Init /\ [][Next]_vars

-----------------------------------------------------------------------------
(* Clients cannot open the circuit: it is not closed only after more than  *)
(* Threshold requests whose client was still waiting had failed at the     *)
(* upstream, however many others were abandoned in between.                *)
OnlyUpstreamTrips ==
    cb.state # "closed" => Cardinality({r \in Requests : st[r] = "502"}) > Threshold
=============================================================================
