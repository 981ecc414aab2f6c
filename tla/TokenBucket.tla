---------------------------- MODULE TokenBucket ----------------------------
(***************************************************************************)
(* What the rate limiters promise: a bucket per client, filled at a steady *)
(* rate, from which every admitted request takes a token.  Only a limiter  *)
(* that fails open admits a request the bucket does not pay for, and only  *)
(* one that forgets buckets makes one full before its time.                *)
(***************************************************************************)
EXTENDS Integers

CONSTANTS
    Keys,   \* clients
    Unit,   \* a token, in the unit levels are counted in
    Burst,  \* capacity of a bucket
    Rate    \* what a bucket gains in one unit of time

VARIABLES
    failsOpen,  \* requests may be admitted without the bucket being asked
    forgets,    \* buckets may be dropped before they are full
    level,
    answer      \* the last decision

vars == <<failsOpen, forgets, level, answer>>

Init ==
    /\ failsOpen \in BOOLEAN /\ forgets \in BOOLEAN
    /\ level = [k \in Keys |-> Burst]
    /\ answer = [key |-> CHOOSE k \in Keys : TRUE, ok |-> TRUE]

Pay(k) == level' = [level EXCEPT ![k] = @ - Unit]

Admit(k) == level[k] >= Unit /\ Pay(k) /\ answer' = [key |-> k, ok |-> TRUE]

Deny(k) ==
    /\ level[k] < Unit
    /\ answer' = [key |-> k, ok |-> FALSE]
    /\ UNCHANGED level

FailOpen(k) ==
    /\ failsOpen
    /\ answer' = [key |-> k, ok |-> TRUE]
    /\ UNCHANGED level

Fill ==
    /\ level' = [k \in Keys |-> IF level[k] + Rate > Burst THEN Burst
                                ELSE level[k] + Rate]
    /\ UNCHANGED answer

Forget(ks) ==
    /\ forgets
    /\ level' = [k \in Keys |-> IF k \in ks THEN Burst ELSE level[k]]
    /\ UNCHANGED answer

Next ==
    /\ \/ Fill
       \/ \E k \in Keys : Admit(k) \/ Deny(k) \/ FailOpen(k)
       \/ \E ks \in SUBSET Keys : Forget(ks)
    /\ UNCHANGED <<failsOpen, forgets>>

Spec == Init /\ [][Next]_vars
=============================================================================
