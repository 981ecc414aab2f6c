----------------------------- MODULE Publisher -----------------------------
(***************************************************************************)
(* The ticket-service's RabbitMQ publisher                                 *)
(* (ticket-service/internal/delivery/messaging/publisher.go).              *)
(*                                                                         *)
(* Every HTTP handler goroutine calls Publish on one shared Publisher.  A  *)
(* call reads the current session, hands its message to it and, when that  *)
(* fails, replaces the session (`reconnect') and retries once.  Only one   *)
(* goroutine dials at a time; the others wait on its channel or give up.   *)
(*                                                                         *)
(* A critical section of p.mu is one step; the dial, the wait, the close   *)
(* of the replaced session and the hand-off run without the mutex and are  *)
(* steps of their own.  A session is named by the number of its broker     *)
(* connection, a `done' channel by the number of the reconnect that made   *)
(* it.  Time is left out: a timeout may fire at any moment.                *)
(***************************************************************************)
EXTENDS Naturals, FiniteSets

CONSTANTS
    Calls,      \* the Publish calls, one handler goroutine each
    Attempts    \* requestReconnectAttempts

ASSUME AttemptsAssumption == Attempts \in Nat \ {0}

VARIABLES
    \* the Publisher struct
    cur,        \* the current session, None before the first one
    gen,        \* how often cur was replaced
    inflight,   \* the channel of the running reconnect, None when there is none
    cooling,    \* time.Since(lastFail) < reconnectCooldown
    \* the channels and the connections behind it
    made,       \* channels 1..made were made
    done,       \* the channels that were closed
    opened,     \* connections 1..opened were opened
    broken,     \* the connections that died
    closed,     \* the connections this process closed
    \* the goroutines
    pc,
    stage,      \* "first": no hand-off tried yet, "retry": the first one failed
    sess,       \* local s
    failedGen,  \* local gen, the argument of reconnect
    wait,       \* the channel waited on, or made
    tries,      \* failed connection attempts of this dial
    conn,       \* the connection dialed, None when the dial failed
    old,        \* the replaced session, to be closed
    sent        \* how often the message was accepted by a session

None == 0

shared == <<cur, gen, inflight, cooling>>
channels == <<made, done>>
connections == <<opened, broken, closed>>
dialing == <<tries, conn, old>>
vars == <<shared, channels, connections, pc, stage, sess, failedGen, wait,
          dialing, sent>>

PCs == {"idle", "publish", "lock", "wait", "recheck", "dial", "declare",
        "commit", "close", "reload", "retry", "returned"}

TypeOK ==
    /\ opened \in Nat
    /\ made \in Nat
    /\ cur \in 0..opened
    /\ gen \in Nat
    /\ inflight \in 0..made
    /\ cooling \in BOOLEAN
    /\ done \subseteq 1..made
    /\ broken \subseteq 1..opened
    /\ closed \subseteq 1..opened
    /\ pc \in [Calls -> PCs]
    /\ stage \in [Calls -> {"first", "retry"}]
    /\ sess \in [Calls -> 0..opened]
    /\ failedGen \in [Calls -> 0..gen]
    /\ wait \in [Calls -> 0..made]
    /\ tries \in [Calls -> 0..Attempts]
    /\ conn \in [Calls -> 0..opened]
    /\ old \in [Calls -> 0..opened]
    /\ sent \in [Calls -> Nat]

----------------------------------------------------------------------------
(* NewPublisher: the startup dial either gave the first session or the     *)
(* publisher starts without one.                                           *)
Init ==
    /\ opened \in {0, 1}
    /\ cur = opened
    /\ gen = opened
    /\ inflight = None
    /\ cooling = FALSE
    /\ made = 0
    /\ done = {}
    /\ broken = {}
    /\ closed = {}
    /\ pc = [c \in Calls |-> "idle"]
    /\ stage = [c \in Calls |-> "first"]
    /\ sess = [c \in Calls |-> None]
    /\ failedGen = [c \in Calls |-> 0]
    /\ wait = [c \in Calls |-> None]
    /\ tries = [c \in Calls |-> 0]
    /\ conn = [c \in Calls |-> None]
    /\ old = [c \in Calls |-> None]
    /\ sent = [c \in Calls |-> 0]

Goto(c, l) == pc' = [pc EXCEPT ![c] = l]

(* A step that only decides where the goroutine goes on. *)
Proceed(c, l) ==
    /\ Goto(c, l)
    /\ UNCHANGED <<shared, channels, connections, stage, sess, failedGen, wait,
                   dialing, sent>>

(* Mutant: a connection is dropped without being closed. *)
CloseNothing(s) == closed' = closed

Close(s) == closed' = closed \cup {s}

----------------------------------------------------------------------------
(* Publish, up to the first hand-off.                                      *)

Start(c) ==
    /\ pc[c] = "idle"
    /\ sess' = [sess EXCEPT ![c] = cur]
    /\ failedGen' = [failedGen EXCEPT ![c] = gen]
    /\ Goto(c, IF cur = None THEN "lock" ELSE "publish")
    /\ UNCHANGED <<shared, channels, connections, stage, wait, dialing, sent>>

(* Mutant: a confirm timeout is reported as a failed hand-off. *)
HandOffUnconfirmed(c) ==
    /\ pc[c] = "publish"
    /\ sess[c] \notin closed
    /\ sent' = [sent EXCEPT ![c] = @ + 1]
    /\ stage' = [stage EXCEPT ![c] = "retry"]
    /\ \E l \in {"lock", "returned"} : Goto(c, l)
    /\ UNCHANGED <<shared, channels, connections, sess, failedGen, wait,
                   dialing>>

(* The session accepts the message: also one whose connection died without *)
(* the client having noticed; then the confirm times out, which is only    *)
(* logged.  A session closed by this process never accepts.                *)
HandOff(c) ==
    /\ pc[c] = "publish"
    /\ sess[c] \notin closed
    /\ sent' = [sent EXCEPT ![c] = @ + 1]
    /\ Goto(c, "returned")
    /\ UNCHANGED <<shared, channels, connections, stage, sess, failedGen, wait,
                   dialing>>

HandOffFails(c) ==
    /\ pc[c] = "publish"
    /\ sess[c] \in broken \cup closed
    /\ stage' = [stage EXCEPT ![c] = "retry"]
    /\ Goto(c, "lock")
    /\ UNCHANGED <<shared, channels, connections, sess, failedGen, wait,
                   dialing, sent>>

----------------------------------------------------------------------------
(* reconnect(failedGen).                                                   *)

(* Mutants: the generation is not compared; nobody looks whether the       *)
(* session was already replaced.                                           *)
ReplacedAnyGen(c) == cur # None
NeverReplaced(c) == FALSE

Replaced(c) == cur # None /\ gen # failedGen[c]

(* Mutant: the running reconnect is not looked at. *)
NeverBusy == FALSE

Busy == inflight # None

AlreadyReplaced(c) ==
    /\ pc[c] = "lock"
    /\ Replaced(c)
    /\ Proceed(c, "reload")

JoinInflight(c) ==
    /\ pc[c] = "lock"
    /\ ~Replaced(c)
    /\ Busy
    /\ wait' = [wait EXCEPT ![c] = inflight]
    /\ Goto(c, "wait")
    /\ UNCHANGED <<shared, channels, connections, stage, sess, failedGen,
                   dialing, sent>>

(* Mutant: instead of giving up, the goroutine waits out the cooldown. *)
NoFailFast(c) == FALSE

FailFast(c) ==
    /\ pc[c] = "lock"
    /\ ~Replaced(c)
    /\ ~Busy
    /\ cooling
    /\ Proceed(c, "returned")

StartDial(c) ==
    /\ pc[c] = "lock"
    /\ ~Replaced(c)
    /\ ~Busy
    /\ ~cooling
    /\ made' = made + 1
    /\ inflight' = made + 1
    /\ wait' = [wait EXCEPT ![c] = made + 1]
    /\ tries' = [tries EXCEPT ![c] = 0]
    /\ conn' = [conn EXCEPT ![c] = None]
    /\ Goto(c, "dial")
    /\ UNCHANGED <<cur, gen, cooling, done, connections, stage, sess,
                   failedGen, old, sent>>

(* The select of a waiting goroutine: the channel was closed, or           *)
(* reconnectWait is over.                                                  *)
WaitEnds(c) ==
    /\ pc[c] = "wait"
    /\ wait[c] \in done
    /\ Proceed(c, "recheck")

WaitTimesOut(c) ==
    /\ pc[c] = "wait"
    /\ Proceed(c, "returned")

(* Mutant: a waiter trusts the goroutine it waited for. *)
RecheckSkipped(c) ==
    /\ pc[c] = "recheck"
    /\ Proceed(c, "reload")

Recheck(c) ==
    /\ pc[c] = "recheck"
    /\ Proceed(c, IF Replaced(c) THEN "reload" ELSE "returned")

(* dialAMQP: up to Attempts connection attempts, then the topology is      *)
(* declared on the new connection, which is closed when that fails.        *)
Connect(c) ==
    /\ pc[c] = "dial"
    /\ opened' = opened + 1
    /\ conn' = [conn EXCEPT ![c] = opened + 1]
    /\ Goto(c, "declare")
    /\ UNCHANGED <<shared, channels, broken, closed, stage, sess, failedGen,
                   wait, tries, old, sent>>

(* Mutant: one attempt too many. *)
OneMoreAttempt(c) == tries[c] < Attempts

AnotherAttempt(c) == tries[c] + 1 < Attempts

ConnectFails(c) ==
    /\ pc[c] = "dial"
    /\ tries' = [tries EXCEPT ![c] = @ + 1]
    /\ Goto(c, IF AnotherAttempt(c) THEN "dial" ELSE "commit")
    /\ UNCHANGED <<shared, channels, connections, stage, sess, failedGen, wait,
                   conn, old, sent>>

Declare(c) ==
    /\ pc[c] = "declare"
    /\ Proceed(c, "commit")

DeclareFails(c) ==
    /\ pc[c] = "declare"
    /\ Close(conn[c])
    /\ conn' = [conn EXCEPT ![c] = None]
    /\ Goto(c, "commit")
    /\ UNCHANGED <<shared, channels, opened, broken, stage, sess, failedGen,
                   wait, tries, old, sent>>

(* Mutants: the old session is read after cur was overwritten; the         *)
(* generation stays; a failed dial leaves inflight set.                    *)
DisplacedLate(c) == conn[c]
SameGen == gen
EndReconnectOnSuccess(c) ==
    /\ inflight' = IF conn[c] = None THEN inflight ELSE None
    /\ done' = done \cup {wait[c]}

Displaced(c) == cur
NextGen == gen + 1
EndReconnect(c) ==
    /\ inflight' = None
    /\ done' = done \cup {wait[c]}

(* The critical section after the dial: install the session or remember    *)
(* the failure, and end the reconnect for everyone who waits on it.        *)
Install(c) ==
    /\ pc[c] = "commit"
    /\ conn[c] # None
    /\ old' = [old EXCEPT ![c] = Displaced(c)]
    /\ cur' = conn[c]
    /\ conn' = [conn EXCEPT ![c] = None]
    /\ gen' = NextGen
    /\ EndReconnect(c)
    /\ Goto(c, IF cur = None THEN "reload" ELSE "close")
    /\ UNCHANGED <<cooling, made, connections, stage, sess, failedGen, wait,
                   tries, sent>>

DialFailed(c) ==
    /\ pc[c] = "commit"
    /\ conn[c] = None
    /\ cooling' = TRUE
    /\ EndReconnect(c)
    /\ Goto(c, "returned")
    /\ UNCHANGED <<cur, gen, made, connections, stage, sess, failedGen, wait,
                   dialing, sent>>

CloseOld(c) ==
    /\ pc[c] = "close"
    /\ Close(old[c])
    /\ old' = [old EXCEPT ![c] = None]
    /\ Goto(c, "reload")
    /\ UNCHANGED <<shared, channels, opened, broken, stage, sess, failedGen,
                   wait, tries, conn, sent>>

----------------------------------------------------------------------------
(* Publish, after a reconnect that returned nil.                           *)

Reload(c) ==
    /\ pc[c] = "reload"
    /\ sess' = [sess EXCEPT ![c] = cur]
    /\ failedGen' = [failedGen EXCEPT ![c] = IF stage[c] = "first" THEN gen
                                                                   ELSE @]
    /\ Goto(c, IF stage[c] = "first" THEN "publish" ELSE "retry")
    /\ UNCHANGED <<shared, channels, connections, stage, wait, dialing, sent>>

Retry(c) ==
    /\ pc[c] = "retry"
    /\ \/ sess[c] \notin closed /\ sent' = [sent EXCEPT ![c] = @ + 1]
       \/ sess[c] \in broken \cup closed /\ UNCHANGED sent
    /\ Goto(c, "returned")
    /\ UNCHANGED <<shared, channels, connections, stage, sess, failedGen, wait,
                   dialing>>

----------------------------------------------------------------------------
(* The environment: a connection dies, the cooldown runs out.              *)

Break(s) ==
    /\ s \in 1..opened \ (broken \cup closed)
    /\ broken' = broken \cup {s}
    /\ UNCHANGED <<shared, channels, opened, closed, pc, stage, sess,
                   failedGen, wait, dialing, sent>>

CooldownOver ==
    /\ cooling
    /\ cooling' = FALSE
    /\ UNCHANGED <<cur, gen, inflight, channels, connections, pc, stage, sess,
                   failedGen, wait, dialing, sent>>

(* Every call has returned: nothing is left to do. *)
AllReturned ==
    /\ \A c \in Calls : pc[c] = "returned"
    /\ UNCHANGED vars

Step(c) ==
    \/ Start(c) \/ HandOff(c) \/ HandOffFails(c)
    \/ AlreadyReplaced(c) \/ JoinInflight(c) \/ FailFast(c) \/ StartDial(c)
    \/ WaitEnds(c) \/ WaitTimesOut(c) \/ Recheck(c)
    \/ Connect(c) \/ ConnectFails(c) \/ Declare(c) \/ DeclareFails(c)
    \/ Install(c) \/ DialFailed(c) \/ CloseOld(c)
    \/ Reload(c) \/ Retry(c)

Next ==
    \/ \E c \in Calls : Step(c)
    \/ \E s \in 1..opened : Break(s)
    \/ CooldownOver
    \/ AllReturned

(* A goroutine that can run is eventually run: the Go scheduler is fair,   *)
(* and dial, wait and confirm are bounded by timeouts.                     *)
Fairness == \A c \in Calls : WF_vars(Step(c))

Spec == Init /\ [][Next]_vars /\ Fairness

----------------------------------------------------------------------------
Dialing(c) == pc[c] \in {"dial", "declare", "commit"}

(* Only one goroutine reconnects at a time, it owns the channel in         *)
(* inflight, and inflight is set only while such a goroutine exists: a     *)
(* reconnect can neither be doubled nor be forgotten (Publisher, "only one *)
(* goroutine at a time reconnects (single flight)").                       *)
SingleFlight ==
    /\ \A c, d \in Calls : Dialing(c) /\ Dialing(d) => c = d
    /\ \A c \in Calls : Dialing(c) => inflight = wait[c] /\ inflight # None
    /\ inflight # None => \E c \in Calls : Dialing(c)

(* No broker connection is ever leaked: each one opened is the current     *)
(* session, or closed, or in the hands of a goroutine that is about to     *)
(* install or close it ("never leak the connection we just replaced").     *)
NoLeak ==
    \A s \in 1..opened :
        \/ s = cur
        \/ s \in closed
        \/ \E c \in Calls : \/ pc[c] \in {"declare", "commit"} /\ conn[c] = s
                            \/ pc[c] = "close" /\ old[c] = s

(* The session every goroutine picks up from current() was never closed by *)
(* old.close(): a slow close cannot hit the session that replaced it.      *)
CurrentNotClosed == cur \notin closed

(* Publish never calls a method on a nil session: after reconnect returned *)
(* nil, current() has a session.                                           *)
NoNilSession ==
    \A c \in Calls : pc[c] \in {"publish", "retry"} => sess[c] # None

(* reconnect replaces only a session that really died: a healthy session   *)
(* is never dropped because some goroutine failed on an older one.         *)
OnlyBrokenReplaced ==
    \A c \in Calls :
        /\ Dialing(c) => cur = None \/ cur \in broken
        /\ pc[c] = "close" => old[c] \in broken

(* A message is accepted by at most one session: a confirm timeout or a    *)
(* nack is not retried, only a hand-off that failed is.                    *)
AtMostOnce == \A c \in Calls : sent[c] <= 1

(* The retry of a failed hand-off never goes to the session that failed.   *)
RetryOnNewSession ==
    [][\A c \in Calls :
          pc[c] = "reload" /\ pc'[c] = "retry" => sess'[c] > sess[c]]_vars

(* The session is never taken away, only replaced, and each replacement    *)
(* advances the generation by one: equal generations mean equal sessions.  *)
ReplacedByNewer ==
    [][/\ cur' # cur => gen' = gen + 1 /\ cur' > cur
       /\ gen' # gen => cur' # cur]_vars

(* Every Publish call returns, whatever the broker and the other           *)
(* goroutines do: the handler is never stuck behind a reconnect.           *)
PublishReturns ==
    \A c \in Calls : pc[c] # "idle" ~> pc[c] = "returned"

(* A reconnect always ends, so that a later failure can dial again.        *)
ReconnectEnds == inflight # None ~> inflight = None
============================================================================
