---------------------------- MODULE MCDispatch ----------------------------
(* Values of the constants of Dispatch for TLC. *)
EXTENDS Dispatch, TLC

CONSTANTS r1, r2, a, b, d

RequestSymmetry == Permutations({r1, r2})
=============================================================================
