-------------------------- MODULE MCAdaptiveBatcher --------------------------
(* Small instances of AdaptiveBatcher for TLC.                              *)
EXTENDS AdaptiveBatcher, TLC

CONSTANTS r1, r2, r3, r4, r5

(* The calls of clients that may leave are interchangeable.                 *)
FaultSymmetry == Permutations({r4, r5})
=============================================================================
