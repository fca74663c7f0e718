--------------------------- MODULE MCTokenGrants ---------------------------
(* Small instances of TokenGrants for TLC. *)
EXTENDS TokenGrants, TLC

CONSTANTS u1, u2, s1, s2, g1, c1, p1, p2

MCOneClient == [g \in Grants |-> c1]

\* Users, sessions, grants and processes are interchangeable: no definition names one.
MCSymmetry ==
  Permutations(Users) \cup Permutations(Sessions) \cup Permutations(Grants)
    \cup Permutations(Procs)

\* No guard and no property of the run reads a client session or the successor of a
\* session.
ReadState ==
  <<now, user, [s \in Sessions |-> <<sess[s].st, sess[s].subject>>], lapsed, grant, fam, tok,
    events, pc, job>>
=============================================================================
