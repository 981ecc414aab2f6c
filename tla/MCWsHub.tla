------------------------------ MODULE MCWsHub ------------------------------
(* WsHub for TLC: a user's and an agent's connection compete for a cap of   *)
(* one; four messages, for the user or for roles, share a channel of two,   *)
(* so that two are queued together and one follows a dropped one.           *)
EXTENDS WsHub, TLC

CONSTANTS c1, c2

TwoConns == {c1, c2}
Users == (c1 :> 1) @@ (c2 :> 2)
Roles == (c1 :> "user") @@ (c2 :> "agent")
ToUser == (1 :> 1) @@ (4 :> 1)
ToRoles == (2 :> {"user", "agent"}) @@ (3 :> {"user", "agent"})
=============================================================================
