--------------------------- MODULE MCSigningKeys ---------------------------
(* Instances of SigningKeys for TLC. *)
EXTENDS SigningKeys, TLC

CONSTANTS j1, j2, n1, n2, r1

\* Jobs are interchangeable, and so are nodes: no definition names one.
MCSymmetry == Permutations(Jobs) \cup Permutations(Nodes)
=============================================================================
