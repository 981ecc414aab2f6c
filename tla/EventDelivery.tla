--------------------------- MODULE EventDelivery ---------------------------
(***************************************************************************)
(* What the notification-service promises about a published event, without *)
(* replicas, connections or acknowledgements.  An accepted event is settled*)
(* only after its notification exists or by being parked in the dead-letter*)
(* queue; it is lost only where the broker does not keep messages.  A      *)
(* notification may be stored more than once, even after the event was     *)
(* settled.                                                                *)
(***************************************************************************)
EXTENDS Naturals

CONSTANT Events

VARIABLES
    durable,    \* accepted events survive a restart of the broker
    fate,       \* what became of each event
    wanted,     \* the accepted events that are for one user
    copies      \* notifications stored for it

vars == <<durable, fate, wanted, copies>>

Init ==
    /\ durable \in BOOLEAN
    /\ fate = [e \in Events |-> "unsent"]
    /\ wanted = {}
    /\ copies = [e \in Events |-> 0]

Accept(e) ==
    /\ fate[e] = "unsent"
    /\ fate' = [fate EXCEPT ![e] = "accepted"]
    /\ wanted' \in {wanted, wanted \cup {e}}
    /\ UNCHANGED <<durable, copies>>

Store(e) ==
    /\ e \in wanted
    /\ copies' = [copies EXCEPT ![e] = @ + 1]
    /\ UNCHANGED <<durable, fate, wanted>>

Done(e) ==
    /\ fate[e] = "accepted"
    /\ e \in wanted => copies[e] > 0
    /\ fate' = [fate EXCEPT ![e] = "done"]
    /\ UNCHANGED <<durable, wanted, copies>>

Park(e) ==
    /\ fate[e] = "accepted"
    /\ fate' = [fate EXCEPT ![e] = "parked"]
    /\ UNCHANGED <<durable, wanted, copies>>

Lose ==
    /\ ~durable
    /\ fate' = [e \in Events |->
                   IF fate[e] \in {"accepted", "parked"} THEN "lost" ELSE fate[e]]
    /\ UNCHANGED <<durable, wanted, copies>>

Next ==
    \/ \E e \in Events : Accept(e) \/ Store(e) \/ Done(e) \/ Park(e)
    \/ Lose

Spec == Init /\ [][Next]_vars
=============================================================================
