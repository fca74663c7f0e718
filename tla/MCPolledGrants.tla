--------------------------- MODULE MCPolledGrants ---------------------------
(* Instances of PolledGrants for TLC. *)
EXTENDS PolledGrants, TLC

CONSTANTS u1, u2, f1, p1, p2

\* Users and requests are interchangeable: no definition names one.
MCSymmetry == Permutations(Users) \cup Permutations(Requests)
=============================================================================
