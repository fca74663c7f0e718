--------------------------- MODULE MCHashingPool ---------------------------
(* A small instance of HashingPool for TLC. *)
EXTENDS HashingPool

CONSTANTS w1, w2, A, B, e1, e2

\* Tenant A calls from two environments, which it may fill beyond its share.
MCKeyOf == <<<<A, e1>>, <<A, e1>>, <<A, e2>>, <<B, e1>>, <<B, e1>>>>
=============================================================================
