----------------------------- MODULE MCGateway -----------------------------
(* Gateway for TLC: four requests from two addresses; a bucket of one token *)
(* and a half.  The requests of one address are interchangeable.            *)
EXTENDS Gateway, TLC

CONSTANTS r1, r2, r3, r4, k1, k2

FourRequests == {r1, r2, r3, r4}
TwoKeys == {k1, k2}
Addresses == (r1 :> k1) @@ (r2 :> k1) @@ (r3 :> k1) @@ (r4 :> k2)
SameAddress == Permutations({r1, r2, r3})
=============================================================================
