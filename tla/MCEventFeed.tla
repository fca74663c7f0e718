---------------------------- MODULE MCEventFeed ----------------------------
(* Instances of EventFeed for TLC. *)
EXTENDS EventFeed

CONSTANTS r1

====
