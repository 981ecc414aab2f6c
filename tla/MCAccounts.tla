----------------------------- MODULE MCAccounts -----------------------------
(* Accounts for TLC.                                                        *)
EXTENDS Accounts, TLC

CONSTANTS r1, r2, r3, root, guest

Interchangeable == Permutations(Replicas)
=============================================================================
