----------------------------- MODULE MCScimPush -----------------------------
(* Instances of ScimPush for TLC.  A group id (grp_...) sorts before every  *)
(* user id (usr_...), and every user belongs to every group.                *)
EXTENDS ScimPush, TLC

CONSTANTS w1, w2

Replicas == Permutations({w1, w2})
Everyone == [g \in Groups |-> Users]

\* The variables the actions read and the two-scheduler properties mention.  The
\* others (what the downstream holds, and the histories of CaughtUpIsSynced) are
\* only written, so two states that agree on these have the same futures.
ReadState == <<source, link, conn, wk, faults, settled, covered, skipped, missed>>

=============================================================================
