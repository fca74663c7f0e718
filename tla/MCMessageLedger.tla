-------------------------- MODULE MCMessageLedger --------------------------
(* Instances of MessageLedger for TLC. *)
EXTENDS MessageLedger, TLC

CONSTANTS r1, k1, w1, w2, o1

MCSymmetry == Permutations(Workers)
=============================================================================
