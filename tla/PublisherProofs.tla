-------------------------- MODULE PublisherProofs --------------------------
(***************************************************************************)
(* TLAPS proofs about the Publisher for any set of calls and any number of *)
(* dial attempts.                                                          *)
(***************************************************************************)
EXTENDS Publisher, TLAPS

(* The generation identifies the session: a goroutine whose generation is  *)
(* current holds the current session, one whose generation is older holds  *)
(* an older session.                                                       *)
GenInv(c) ==
    /\ sess[c] <= cur
    /\ pc[c] # "idle" /\ failedGen[c] = gen => sess[c] = cur
    /\ pc[c] \notin {"idle", "retry", "returned"} /\ failedGen[c] # gen
          => sess[c] < cur
    /\ pc[c] \in {"publish", "retry"} => sess[c] # None
    /\ pc[c] \in {"publish", "retry", "reload"} => cur # None
    /\ pc[c] \in {"close", "reload"} => failedGen[c] # gen

(* A goroutine inside reconnect has no session or saw its session fail;    *)
(* the one that dials still has the current generation.                    *)
DialInv(c) ==
    /\ pc[c] \in {"lock", "wait", "recheck"} \/ Dialing(c)
          => sess[c] = None \/ sess[c] \in broken \cup closed
    /\ pc[c] = "dial" => tries[c] < Attempts
    /\ Dialing(c) => /\ failedGen[c] = gen
                     /\ inflight = wait[c]
                     /\ inflight # None

(* Where connections are: the dialed one is the newest and neither current *)
(* nor closed, the replaced one is older than the current one.             *)
ConnInv(c) ==
    /\ conn[c] # None => /\ pc[c] \in {"declare", "commit"}
                         /\ conn[c] = opened
                         /\ cur # opened
                         /\ opened \notin closed
    /\ pc[c] = "declare" => conn[c] # None
    /\ pc[c] = "close" => /\ old[c] # None
                          /\ old[c] < cur
                          /\ old[c] \in broken

SentInv(c) == sent[c] = 0 \/ (sent[c] = 1 /\ pc[c] = "returned")

(* The inductive invariant. *)
IInv ==
    /\ TypeOK
    /\ SingleFlight
    /\ NoLeak
    /\ CurrentNotClosed
    /\ gen = 0 <=> cur = None
    /\ \A c \in Calls : GenInv(c) /\ DialInv(c) /\ ConnInv(c) /\ SentInv(c)

----------------------------------------------------------------------------
(* Closing a connection or a channel keeps the set within its range. *)
LEMMA AddToRange ==
  ASSUME NEW n \in Nat, NEW S, S \subseteq 1..n, NEW x \in 1..n
  PROVE  S \cup {x} \subseteq 1..n
  OBVIOUS

(* Init establishes the invariant: startup dialed at most one session. *)
LEMMA InitIInv == Init => IInv
<1> SUFFICES ASSUME Init PROVE IInv
  OBVIOUS
<1>1. TypeOK
  <2>1. opened \in Nat /\ cur \in 0..opened /\ gen \in Nat /\ made \in Nat
        /\ inflight \in 0..made
    BY DEF Init, None
  <2>2. done \subseteq 1..made /\ broken \subseteq 1..opened
        /\ closed \subseteq 1..opened
    BY DEF Init
  <2>3. 0 \in 0..opened /\ 0 \in 0..gen /\ 0 \in 0..made /\ 0 \in 0..Attempts
    BY <2>1, AttemptsAssumption
  <2> QED
    BY <2>1, <2>2, <2>3 DEF Init, TypeOK, PCs, None
<1>2. SingleFlight /\ NoLeak /\ CurrentNotClosed
  BY DEF Init, SingleFlight, NoLeak, CurrentNotClosed, Dialing, None
<1>3. \A c \in Calls : GenInv(c) /\ DialInv(c) /\ ConnInv(c) /\ SentInv(c)
  BY DEF Init, Dialing, GenInv, DialInv, ConnInv, SentInv, None
<1> QED
  BY <1>1, <1>2, <1>3 DEF Init, IInv, None

(* Every step of a goroutine in Publish or reconnect preserves it. *)
LEMMA StepIInv == ASSUME IInv, NEW c \in Calls, Step(c) PROVE IInv'
<1> USE AttemptsAssumption
    DEF shared, channels, connections, dialing, None, PCs, Goto, Proceed,
        IInv, TypeOK, SingleFlight, NoLeak, CurrentNotClosed, Dialing,
        GenInv, DialInv, ConnInv, SentInv
<1>1. CASE Start(c)
  BY <1>1 DEF Start
<1>2. CASE HandOff(c)
  BY <1>2 DEF HandOff
<1>3. CASE HandOffFails(c)
  BY <1>3, SMTT(30) DEF HandOffFails
<1>4. CASE AlreadyReplaced(c)
  BY <1>4 DEF AlreadyReplaced, Replaced
<1>5. CASE JoinInflight(c)
  BY <1>5 DEF JoinInflight, Replaced, Busy
<1>6. CASE FailFast(c)
  BY <1>6 DEF FailFast, Replaced, Busy
<1>7. CASE StartDial(c)
  BY <1>7 DEF StartDial, Replaced, Busy
<1>8. CASE WaitEnds(c)
  BY <1>8 DEF WaitEnds
<1>9. CASE WaitTimesOut(c)
  BY <1>9 DEF WaitTimesOut
<1>10. CASE Recheck(c)
  BY <1>10 DEF Recheck, Replaced
<1>11. CASE Connect(c)
  BY <1>11, SMTT(30) DEF Connect
<1>12. CASE ConnectFails(c)
  BY <1>12 DEF ConnectFails, AnotherAttempt
<1>13. CASE Declare(c)
  BY <1>13 DEF Declare
<1>14. CASE DeclareFails(c)
  <2> USE <1>14 DEF DeclareFails, Close
  <2>1. conn[c] \in 1..opened /\ conn[c] # cur
    OBVIOUS
  <2>2. closed' \subseteq 1..opened'
    BY <2>1, AddToRange
  <2>3. TypeOK' /\ SingleFlight' /\ CurrentNotClosed'
    BY <2>1, <2>2
  <2>4. NoLeak'
    OBVIOUS
  <2>5. \A d \in Calls : (GenInv(d) /\ DialInv(d) /\ ConnInv(d) /\ SentInv(d))'
    OBVIOUS
  <2> QED
    BY <2>3, <2>4, <2>5
<1>15. CASE Install(c)
  <2> USE <1>15 DEF Install, Displaced, NextGen, EndReconnect
  <2>1. wait[c] \in 1..made /\ conn[c] = opened
    OBVIOUS
  <2>2. done' \subseteq 1..made'
    BY <2>1, AddToRange
  <2>3. TypeOK' /\ CurrentNotClosed'
    BY <2>1, <2>2
  <2>4. SingleFlight'
    OBVIOUS
  <2>5. NoLeak'
    BY <2>1
  <2>6. cur = None \/ cur \in broken
    OBVIOUS
  <2>7. \A d \in Calls : GenInv(d)' /\ SentInv(d)'
    BY <2>1
  <2>8. \A d \in Calls : DialInv(d)' /\ ConnInv(d)'
    BY <2>1, <2>6
  <2> QED
    BY <2>1, <2>3, <2>4, <2>5, <2>7, <2>8
<1>16. CASE DialFailed(c)
  <2> USE <1>16 DEF DialFailed, EndReconnect
  <2>1. wait[c] \in 1..made
    OBVIOUS
  <2>2. done' \subseteq 1..made'
    BY <2>1, AddToRange
  <2>3. TypeOK' /\ SingleFlight'
    BY <2>2
  <2> QED
    BY <2>3
<1>17. CASE CloseOld(c)
  <2> USE <1>17 DEF CloseOld, Close
  <2>1. old[c] \in 1..opened /\ old[c] < cur
    OBVIOUS
  <2>2. closed' \subseteq 1..opened'
    BY <2>1, AddToRange
  <2>3. TypeOK' /\ SingleFlight' /\ CurrentNotClosed'
    BY <2>1, <2>2
  <2>4. NoLeak'
    OBVIOUS
  <2>5. \A d \in Calls : GenInv(d)' /\ SentInv(d)'
    OBVIOUS
  <2>6. \A d \in Calls : DialInv(d)' /\ ConnInv(d)'
    BY <2>1
  <2> QED
    BY <2>3, <2>4, <2>5, <2>6
<1>18. CASE Reload(c)
  BY <1>18 DEF Reload
<1>19. CASE Retry(c)
  BY <1>19 DEF Retry
<1> QED
  BY <1>1, <1>2, <1>3, <1>4, <1>5, <1>6, <1>7, <1>8, <1>9, <1>10, <1>11,
     <1>12, <1>13, <1>14, <1>15, <1>16, <1>17, <1>18, <1>19 DEF Step

(* So does everything else that can happen: a broken connection, the end   *)
(* of the cooldown, stuttering.                                            *)
LEMMA NextIInv == IInv /\ [Next]_vars => IInv'
<1> SUFFICES ASSUME IInv, [Next]_vars PROVE IInv'
  OBVIOUS
<1>1. ASSUME NEW c \in Calls, Step(c) PROVE IInv'
  BY <1>1, StepIInv
<1>2. ASSUME NEW s \in 1..opened, Break(s) PROVE IInv'
  BY <1>2 DEF Break, shared, channels, dialing, IInv, TypeOK, SingleFlight,
              NoLeak, CurrentNotClosed, Dialing, GenInv, DialInv, ConnInv,
              SentInv
<1>3. CASE CooldownOver
  <2> USE <1>3 DEF CooldownOver, channels, connections, dialing, IInv
  <2>1. TypeOK'
    BY DEF TypeOK
  <2>2. (SingleFlight /\ NoLeak /\ CurrentNotClosed)'
    BY DEF SingleFlight, NoLeak, CurrentNotClosed, Dialing
  <2>3. \A c \in Calls : (GenInv(c) /\ DialInv(c) /\ ConnInv(c) /\ SentInv(c))'
    BY DEF Dialing, GenInv, DialInv, ConnInv, SentInv
  <2> QED
    BY <2>1, <2>2, <2>3
<1>4. CASE UNCHANGED vars
  BY <1>4 DEF vars, shared, channels, connections, dialing, IInv, TypeOK,
              SingleFlight, NoLeak, CurrentNotClosed, Dialing, GenInv, DialInv,
              ConnInv, SentInv
<1> QED
  BY <1>1, <1>2, <1>3, <1>4 DEF Next, AllReturned

(* IInv holds in every state the publisher reaches. *)
THEOREM Invariance == Spec => []IInv
  BY InitIInv, NextIInv, PTL DEF Spec

(* The publisher's fields and the goroutines' locals keep their types. *)
THEOREM TypeCorrect == Spec => []TypeOK
<1>1. IInv => TypeOK
  BY DEF IInv
<1> QED
  BY <1>1, Invariance, PTL

(* For any number of concurrent Publish calls at most one goroutine is     *)
(* reconnecting, and inflight is set exactly while one is.                 *)
THEOREM SingleFlightHolds == Spec => []SingleFlight
<1>1. IInv => SingleFlight
  BY DEF IInv
<1> QED
  BY <1>1, Invariance, PTL

(* No connection to the broker is ever leaked: reconnect and Close between *)
(* them close every one that is not the current session.                   *)
THEOREM ConnectionsAccounted == Spec => []NoLeak
<1>1. IInv => NoLeak
  BY DEF IInv
<1> QED
  BY <1>1, Invariance, PTL

(* Nobody closes the session Publish would use next. *)
THEOREM CurrentStaysOpen == Spec => []CurrentNotClosed
<1>1. IInv => CurrentNotClosed
  BY DEF IInv
<1> QED
  BY <1>1, Invariance, PTL

(* Publish never dereferences a nil session. *)
THEOREM NeverNil == Spec => []NoNilSession
<1>1. IInv => NoNilSession
  BY DEF IInv, GenInv, NoNilSession
<1> QED
  BY <1>1, Invariance, PTL

(* reconnect replaces a session only after it died. *)
THEOREM HealthySessionsKept == Spec => []OnlyBrokenReplaced
<1>1. IInv => OnlyBrokenReplaced
  BY DEF IInv, TypeOK, CurrentNotClosed, GenInv, DialInv, ConnInv,
         OnlyBrokenReplaced, Dialing, None
<1> QED
  BY <1>1, Invariance, PTL

(* No message is handed to the broker twice by one Publish call. *)
THEOREM NoDuplicateHandOff == Spec => []AtMostOnce
<1>1. IInv => AtMostOnce
  BY DEF IInv, SentInv, AtMostOnce
<1> QED
  BY <1>1, Invariance, PTL

(* The retry of a failed hand-off always uses a newer session. *)
THEOREM RetryIsFresh == Spec => RetryOnNewSession
<1> DEFINE A == \A c \in Calls : pc[c] = "reload" /\ pc'[c] = "retry"
                                 => sess'[c] > sess[c]
<1>1. ASSUME IInv, [Next]_vars PROVE [A]_vars
  <2> SUFFICES ASSUME Next, NEW c \in Calls, pc[c] = "reload",
                      pc'[c] = "retry"
               PROVE  sess'[c] > sess[c]
    BY <1>1
  <2>1. Reload(c)
    <3>1. ASSUME NEW d \in Calls, Step(d) PROVE Reload(c)
      <4>1. d = c
        BY <1>1, <3>1 DEF IInv, TypeOK, Step, Goto, Proceed, Start, HandOff,
           HandOffFails, AlreadyReplaced, JoinInflight, FailFast, StartDial,
           WaitEnds, WaitTimesOut, Recheck, Connect, ConnectFails, Declare,
           DeclareFails, Install, DialFailed, CloseOld, Reload, Retry
      <4> QED
        BY <3>1, <4>1 DEF Step, Start, HandOff, HandOffFails, AlreadyReplaced,
           JoinInflight, FailFast, StartDial, WaitEnds, WaitTimesOut, Recheck,
           Connect, ConnectFails, Declare, DeclareFails, Install, DialFailed,
           CloseOld, Retry
    <3> QED
      BY <3>1 DEF Next, Break, CooldownOver, AllReturned, vars
  <2> QED
    BY <1>1, <2>1 DEF Reload, IInv, TypeOK, GenInv
<1> QED
  BY <1>1, Invariance, PTL DEF Spec, RetryOnNewSession

(* The session only ever moves to a newer one, one generation at a time. *)
THEOREM SessionsAdvance == Spec => ReplacedByNewer
<1> DEFINE A == /\ cur' # cur => gen' = gen + 1 /\ cur' > cur
                /\ gen' # gen => cur' # cur
<1>1. ASSUME IInv, [Next]_vars PROVE [A]_vars
  <2>1. ASSUME NEW c \in Calls, Install(c) PROVE A
    BY <1>1, <2>1 DEF Install, NextGen, IInv, TypeOK, ConnInv, None
  <2>2. ASSUME NEW c \in Calls, Step(c), ~Install(c) PROVE UNCHANGED <<cur, gen>>
    BY <2>2 DEF Step, Goto, Proceed, shared, Start, HandOff, HandOffFails,
       AlreadyReplaced, JoinInflight, FailFast, StartDial, WaitEnds,
       WaitTimesOut, Recheck, Connect, ConnectFails, Declare, DeclareFails,
       DialFailed, CloseOld, Reload, Retry
  <2> QED
    BY <1>1, <2>1, <2>2
       DEF Next, Break, CooldownOver, AllReturned, shared, vars
<1> QED
  BY <1>1, Invariance, PTL DEF Spec, ReplacedByNewer
============================================================================
