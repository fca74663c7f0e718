-------------------------- MODULE MCSessionFanout --------------------------
(* Instances of SessionFanout for TLC. *)
EXTENDS SessionFanout, TLC

CONSTANTS c1, t1, e1, l1, f1, p1

\* One worker per consumer.
OneEach == (e1 :> "ended") @@ (l1 :> "logout") @@ (f1 :> "trigger") @@ (p1 :> "push")
=============================================================================
