--------------------------- MODULE MCAuthSessions ---------------------------
(* AuthSessions for TLC.                                                    *)
EXTENDS AuthSessions, TLC

CONSTANTS u1, u2, w1, w2

OneUser == {u1}
TwoUsers == {u1, u2}
TwoWorkers == {w1, w2}
Symmetry == Permutations(Workers) \cup Permutations(Users)
=============================================================================
