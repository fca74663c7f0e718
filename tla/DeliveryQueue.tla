--------------------------- MODULE DeliveryQueue ---------------------------
(***************************************************************************)
(* What the outbox promises its consumers, without leases, clocks, batches *)
(* or statements: an at-least-once queue, first in first out within a      *)
(* group, that has every message in at most one worker's hands and takes   *)
(* an outcome only from those hands.  Outbox implements it.                *)
(***************************************************************************)
EXTENDS Naturals

CONSTANTS
  Last,       \* messages are numbered 1 .. Last in the order of their sequence
  Groups,     \* ordering keys
  Workers

VARIABLES
  status,     \* status[m] of each message
  group,      \* group[m]: {the ordering key} of a published message, else {}
  hand,       \* hand[w]: the message worker w answers for, 0 if none
  answer,     \* what w's handler said about it
  late        \* messages published after a later one of their group, or replayed

vars == <<status, group, hand, answer, late>>

Messages == 1 .. Last

InHands(m) == \E w \in Workers : hand[w] = m

Init ==
  /\ status = [m \in Messages |-> "unborn"]
  /\ group = [m \in Messages |-> {}]
  /\ hand = [w \in Workers |-> 0]
  /\ answer = [w \in Workers |-> "none"]
  /\ late = {}

\* A producer's transaction commits the messages of DOMAIN P, each with its key.
PublishAll(P) ==
  /\ \A m \in DOMAIN P : status[m] = "unborn"
  /\ status' = [m \in Messages |-> IF m \in DOMAIN P THEN "pending" ELSE status[m]]
  /\ group' = [m \in Messages |-> IF m \in DOMAIN P THEN {P[m]} ELSE group[m]]
  /\ late' = late \cup {m \in DOMAIN P : \E b \in Messages : b > m /\ group[b] = {P[m]}}
  /\ UNCHANGED <<hand, answer>>

Publish(m, g) == PublishAll([x \in {m} |-> g])

\* The producer's transaction is rolled back.
Withdraw(m) ==
  /\ status[m] = "unborn"
  /\ status' = [status EXCEPT ![m] = "removed"]
  /\ UNCHANGED <<group, hand, answer, late>>

\* A message goes to free hands, when it is in no others and no message of its
\* group is pending before it.
Take(w, m) ==
  /\ status[m] = "pending" /\ hand[w] = 0 /\ ~InHands(m)
  /\ \A b \in Messages : b < m /\ status[b] = "pending" /\ group[b] = group[m] => b \in late
  /\ hand' = [hand EXCEPT ![w] = m]
  /\ UNCHANGED <<status, group, answer, late>>

Answer(w, v) ==
  /\ hand[w] # 0 /\ answer[w] = "none"
  /\ answer' = [answer EXCEPT ![w] = v]
  /\ UNCHANGED <<status, group, hand, late>>

\* The workers W answer for nothing any more: they died, or were too slow.
LetGo(W) ==
  /\ hand' = [w \in Workers |-> IF w \in W THEN 0 ELSE hand[w]]
  /\ answer' = [w \in Workers |-> IF w \in W THEN "none" ELSE answer[w]]

Lose(W) == LetGo(W) /\ UNCHANGED <<status, group, late>>

\* The outcomes a handler's answer can lead to.
Outcomes(v) == CASE v = "ok" -> {"done"}
                 [] v = "permanent" -> {"dead"}
                 [] v = "retry" -> {"pending", "dead"}
                 [] OTHER -> {}

Settle(w) ==
  /\ hand[w] # 0
  /\ \E o \in Outcomes(answer[w]) : status' = [status EXCEPT ![hand[w]] = o]
  /\ LetGo({w})
  /\ UNCHANGED <<group, late>>

\* The operator replays dead messages.
Replay(M) ==
  /\ \A m \in M : status[m] = "dead"
  /\ status' = [m \in Messages |-> IF m \in M THEN "pending" ELSE status[m]]
  /\ late' = late \cup M
  /\ UNCHANGED <<group, hand, answer>>

\* Retention removes ended messages, and may remove one that was just replayed.
Remove(M) ==
  /\ \A m \in M : status[m] \in {"done", "dead"} \/ (status[m] = "pending" /\ m \in late)
  /\ status' = [m \in Messages |-> IF m \in M THEN "removed" ELSE status[m]]
  /\ group' = [m \in Messages |-> IF m \in M THEN {} ELSE group[m]]
  /\ LetGo({w \in Workers : hand[w] \in M})
  /\ UNCHANGED late

Next ==
  \/ \E m \in Messages : Withdraw(m)
  \/ \E w \in Workers : Settle(w)
       \/ (\E m \in Messages : Take(w, m)) \/ (\E v \in {"ok", "retry", "permanent"} : Answer(w, v))
  \/ \E W \in SUBSET Workers : Lose(W)
  \/ \E M \in SUBSET Messages : Replay(M) \/ Remove(M) \/ \E P \in [M -> Groups] : PublishAll(P)

Spec == Init /\ [][Next]_vars
=============================================================================
