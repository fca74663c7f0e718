------------------------------ MODULE MCOutbox ------------------------------
(* Instances of Outbox for TLC.                                            *)
EXTENDS Outbox, TLC

CONSTANTS k1, k2, w1, w2, p1

\* Two messages of one aggregate.
MCKeys2 == {k1, k2}
MCGroups2 == [k \in MCKeys2 |-> k1]

\* Two replicas with one worker each (a pool named after its worker), or one.
MCWorkers == {w1, w2}
MCOneWorker == {w1}
MCTwoPools == [w \in MCWorkers |-> w]
MCAlone == [w \in MCOneWorker |-> p1]
MCSymmetry == Permutations(MCWorkers)
=============================================================================
