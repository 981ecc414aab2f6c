----------------------- MODULE MCNotificationPipeline -----------------------
(* NotificationPipeline for TLC: two replicas compete for one event, with   *)
(* two failures.                                                            *)
EXTENDS NotificationPipeline

CONSTANTS r1, r2, e1, u1

TwoReplicas == {r1, r2}
OneEvent == {e1}
OneUser == {u1}
BothTypes == {"classic", "quorum"}
=============================================================================
