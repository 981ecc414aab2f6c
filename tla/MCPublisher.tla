---------------------------- MODULE MCPublisher ----------------------------
(* Publisher for TLC: three concurrent Publish calls.                      *)
EXTENDS Publisher, TLC

CONSTANTS c1, c2, c3

MCCalls == {c1, c2, c3}
============================================================================
