---------------------------- MODULE OutboxProofs ----------------------------
(* Proofs about Outbox, for every value of its constants.                  *)
EXTENDS Outbox, FiniteSetTheorems, TLAPS

USE DEF NONE

LEMMA StrictlyBelow == \A x, y, z \in Nat : x <= y /\ x # y /\ y <= z => x < y /\ x < z
OBVIOUS

LEMMA InstantFacts == NONE \in Instants /\ Nat \subseteq Instants
BY DEF Instants

\* What the statements write to a row keeps it a row.
LEMMA RowUpdates ==
  ASSUME NEW r \in RowType, NEW t \in Nat, NEW k \in Keys
  PROVE  /\ [r EXCEPT !.st = "committed"] \in RowType
         /\ [r EXCEPT !.claimedAt = t] \in RowType
         /\ [r EXCEPT !.key = k, !.nextAttempt = t] \in RowType
         /\ [r EXCEPT !.completedAt = t, !.claimedAt = NONE] \in RowType
         /\ [r EXCEPT !.attempts = @ + 1, !.claimedAt = NONE, !.deadAt = t] \in RowType
         /\ [r EXCEPT !.attempts = @ + 1, !.claimedAt = NONE, !.nextAttempt = t] \in RowType
         /\ [r EXCEPT !.deadAt = NONE, !.attempts = 0, !.nextAttempt = t] \in RowType
<1>1. r.attempts + 1 \in Nat
  BY DEF RowType
<1>2. NONE \in Instants /\ t \in Instants
  BY InstantFacts
<1> QED BY <1>1, <1>2 DEF RowType

LEMMA BlankType ==
  ASSUME NEW st \in {"unused", "open", "committed", "gone"}
  PROVE  Blank(st) \in RowType
BY KeysAssumption DEF Blank, RowType, Instants

-----------------------------------------------------------------------------
(* Type correctness.                                                       *)

\* The state keeps its types in every step.
LEMMA TypeStep == TypeOK /\ [Next]_vars => TypeOK'
<1> SUFFICES ASSUME TypeOK, [Next]_vars PROVE TypeOK'
  OBVIOUS
<1> USE DEF TypeOK
<1>1. ASSUME NEW k \in Keys, NEW d \in Delays, Enqueue(k, d) PROVE TypeOK'
  <2>1. NewRow(k, now + d) \in RowType
    <3>1. Blank("open") \in RowType /\ now + d \in Nat
      BY BlankType, BoundsAssumption
    <3> QED BY <3>1, RowUpdates DEF NewRow
  <2>2. rows' \in [Rows -> RowType] /\ lastSeq' \in 0 .. MaxRows
    BY <1>1, <2>1, BoundsAssumption DEF Enqueue, Rows
  <2> QED BY <1>1, <2>2 DEF Enqueue, workerVars
<1>2. ASSUME NEW s \in Rows, CommitEnqueue(s) PROVE TypeOK'
  <2>1. [rows[s] EXCEPT !.st = "committed"] \in RowType
    BY RowUpdates, KeysAssumption
  <2> QED BY <1>2, <2>1 DEF CommitEnqueue, workerVars
<1>3. ASSUME NEW s \in Rows, RollbackEnqueue(s) PROVE TypeOK'
  BY <1>3, BlankType DEF RollbackEnqueue, workerVars
<1>4. ASSUME NEW w \in Workers, BeginPass(w) PROVE TypeOK'
  BY <1>4 DEF BeginPass, queueVars
<1>5. ASSUME NEW w \in Workers, Claim(w) PROVE TypeOK'
  <2> DEFINE picked(t) == Lowest({s \in Rows : Claimable(s, t)}, Batch)
  <2>1. PICK t \in Reading(w) :
          /\ rows' = [s \in Rows |-> IF s \in picked(t)
                                     THEN [rows[s] EXCEPT !.claimedAt = t] ELSE rows[s]]
          /\ batch' = [batch EXCEPT ![w] = [s \in Rows |-> IF s \in picked(t) THEN t ELSE NONE]]
          /\ pc' = [pc EXCEPT ![w] = IF picked(t) = {} THEN "idle" ELSE "batch"]
    BY <1>5 DEF Claim
  <2>2. t \in Nat
    BY DEF Reading
  <2> HIDE DEF picked
  <2>3. rows' \in [Rows -> RowType]
    BY <2>1, <2>2, RowUpdates, KeysAssumption
  <2>4. batch' \in [Workers -> [Rows -> Instants]]
    BY <2>1, <2>2, InstantFacts
  <2> QED BY <1>5, <2>1, <2>3, <2>4 DEF Claim
<1>6. ASSUME NEW w \in Workers, StopBetweenMessages(w) PROVE TypeOK'
  BY <1>6 DEF StopBetweenMessages, LeavePass, NoBatch, queueVars, Instants
<1>7. ASSUME NEW w \in Workers, NEW s \in Rows, RenewAndHandle(w, s) PROVE TypeOK'
  <2>1. PICK t \in Reading(w) : /\ rows' = [rows EXCEPT ![s].claimedAt = t]
                               /\ batch' = [batch EXCEPT ![w][s] = t]
    BY <1>7 DEF RenewAndHandle
  <2>2. t \in Nat
    BY DEF Reading
  <2>3. rows' \in [Rows -> RowType]
    BY <2>1, <2>2, RowUpdates, KeysAssumption
  <2>4. batch' \in [Workers -> [Rows -> Instants]]
    BY <2>1, <2>2, InstantFacts
  <2>5. fencedStarts' \in Nat
    BY <1>7 DEF RenewAndHandle
  <2> QED BY <1>7, <2>3, <2>4, <2>5 DEF RenewAndHandle
<1>8. ASSUME NEW w \in Workers, NEW s \in Rows, SkipLostLease(w, s) PROVE TypeOK'
  BY <1>8 DEF SkipLostLease, AfterMessage, queueVars, Instants
<1>9. ASSUME NEW w \in Workers, NEW v \in {"ok", "retry", "permanent"},
             HandlerReturns(w, v) PROVE TypeOK'
  BY <1>9 DEF HandlerReturns, queueVars
<1>10. ASSUME NEW w \in Workers, RecordOutcome(w) PROVE TypeOK'
  <2>1. PICK t \in Reading(w), backoff \in Backoffs :
          rows' = IF ~Holds(w, cur[w]) THEN rows
                  ELSE [rows EXCEPT ![cur[w]] = IF verdict[w] = "ok" THEN Completed(@, t)
                                                ELSE Failed(@, t, verdict[w], backoff)]
    BY <1>10 DEF RecordOutcome
  <2>2. t \in Nat /\ backoff \in Nat
    BY BoundsAssumption DEF Reading
  <2>3. ASSUME NEW r \in RowType
        PROVE  Completed(r, t) \in RowType /\ Failed(r, t, verdict[w], backoff) \in RowType
    <3>1. t + backoff \in Nat
      BY <2>2
    <3> QED BY <2>2, <3>1, RowUpdates, KeysAssumption DEF Completed, Failed
  <2>4. rows' \in [Rows -> RowType]
    BY <2>1, <2>3
  <2> QED BY <1>10, <2>4 DEF RecordOutcome, AfterMessage, Instants
<1>11. ASSUME NEW w \in Workers, StoreErrorEndsPass(w) PROVE TypeOK'
  BY <1>11 DEF StoreErrorEndsPass, LeavePass, NoBatch, queueVars, Instants
<1>12. ASSUME NEW w \in Workers, WorkerExits(w) PROVE TypeOK'
  BY <1>12 DEF WorkerExits, queueVars
<1>13. ASSUME NEW p \in Pools, Shutdown(p) PROVE TypeOK'
  BY <1>13 DEF Shutdown, queueVars, workerVars
<1>14. ASSUME NEW p \in Pools, CrashReplica(p) \/ StartReplica(p) PROVE TypeOK'
  BY <1>14 DEF CrashReplica, StartReplica, ResetReplica, NoBatch, queueVars, Instants
<1>15. CASE Suspend
  BY <1>15 DEF Suspend, queueVars, workerVars
<1>16. CASE Resume
  BY <1>16 DEF Resume, queueVars, workerVars
<1>17. ASSUME NEW S \in SUBSET Rows, Revive(S) PROVE TypeOK'
  <2>1. rows' \in [Rows -> RowType]
    BY <1>17, RowUpdates, KeysAssumption DEF Revive
  <2>2. disturbed' = disturbed \cup S /\ faults' = faults + 1
    BY <1>17 DEF Revive
  <2>3. UNCHANGED <<now, lastSeq, fenced, workerVars, stopping, sweep, fencedStarts>>
    BY <1>17 DEF Revive
  <2> QED BY <2>1, <2>2, <2>3 DEF workerVars
<1>18. CASE SweepBegin
  BY <1>18 DEF SweepBegin, queueVars, workerVars
<1>19. CASE ReapCompleted
  BY <1>19, BlankType DEF ReapCompleted, Delete, workerVars, SweepDone
<1>20. CASE ReapDeadSelect
  BY <1>20 DEF ReapDeadSelect, Lowest, DeadOlderThan, queueVars, workerVars
<1>21. CASE ReapDeadDelete
  BY <1>21, BlankType DEF ReapDeadDelete, Delete, workerVars, SweepDone
<1>22. CASE SweepAbandoned
  BY <1>22 DEF SweepAbandoned, SweepDone, queueVars, workerVars
<1>23. CASE Tick
  BY <1>23, BoundsAssumption DEF Tick, Later, queueVars
<1>24. CASE UNCHANGED vars
  BY <1>24 DEF vars, queueVars, workerVars
<1> HIDE DEF TypeOK
<1>25. CASE Producing
  BY <1>25, <1>1, <1>2, <1>3 DEF Producing
<1>26. ASSUME NEW w \in Workers, Working(w) PROVE TypeOK'
  BY <1>26, <1>4, <1>5, <1>6, <1>7, <1>8, <1>9, <1>10, <1>12 DEF Working
<1>27. CASE Operating
  BY <1>27, <1>11, <1>13, <1>14, <1>15, <1>16, <1>17 DEF Operating
<1>28. CASE Sweeping
  BY <1>28, <1>18, <1>19, <1>20, <1>21, <1>22 DEF Sweeping
<1> QED
  BY <1>23, <1>24, <1>25, <1>26, <1>27, <1>28 DEF Next

\* The state of the queue always has the declared types.
THEOREM TypeCorrect == Spec => []TypeOK
<1>1. ASSUME Init PROVE TypeOK
  <2>1. Blank("unused") \in RowType
    BY BlankType
  <2>2. rows \in [Rows -> RowType] /\ lastSeq \in 0 .. MaxRows
    BY <1>1, <2>1, BoundsAssumption DEF Init
  <2>3. batch \in [Workers -> [Rows -> Instants]]
    BY <1>1, InstantFacts DEF Init, NoBatch
  <2>4. sweep \in [pc : {"idle", "completed", "dead", "delete"}, at : Nat, picked : SUBSET Rows]
    BY <1>1 DEF Init, SweepDone
  <2> QED BY <1>1, <2>2, <2>3, <2>4 DEF Init, TypeOK
<1> QED BY <1>1, TypeStep, PTL DEF Spec

-----------------------------------------------------------------------------
(* The inductive invariant.                                                *)

\* A step that writes no row, hands out no token and lets no worker start on a
\* message keeps the invariant, whatever it drops.
LEMMA FrameStep ==
  ASSUME IInv, TypeOK',
         UNCHANGED <<rows, lastSeq, disturbed>>,
         now' >= now,
         \A w \in Workers : since[w] <= since'[w] /\ since'[w] <= now',
         \A w \in Workers, s \in Rows : batch'[w][s] = batch[w][s] \/ batch'[w][s] = NONE,
         \A w \in Workers : InHand(w)' => /\ InHand(w) /\ cur'[w] = cur[w]
                                          /\ batch'[w][cur[w]] = batch[w][cur[w]],
         sweep'.picked \subseteq sweep.picked
  PROVE  IInv'
<1> USE DEF IInv
<1> rows \in [Rows -> RowType] /\ batch \in [Workers -> [Rows -> Instants]]
    /\ now \in Nat /\ now' \in Nat /\ since \in [Workers -> Nat] /\ since' \in [Workers -> Nat]
    /\ batch' \in [Workers -> [Rows -> Instants]]
  BY DEF TypeOK
<1>1. RowShape' /\ HeadFirst' /\ EndsOnce'
  BY DEF RowShape, HeadFirst, EndsOnce, Visible, Terminal, Pending, SameGroup
<1>2. ClockOrder'
  <2>1. \A s \in Rows : rows'[s].claimedAt <= now' /\ rows'[s].deadAt <= now'
    BY DEF ClockOrder, RowType, Instants
  <2>2. ASSUME NEW w \in Workers, NEW s \in Rows PROVE batch'[w][s] <= since'[w]
    BY <2>2 DEF ClockOrder, Instants
  <2> QED BY <2>1, <2>2 DEF ClockOrder
<1>3. TokenOrder'
  BY DEF TokenOrder, Visible, Terminal, Pending
<1>4. LeaseLost'
  BY BoundsAssumption DEF LeaseLost, Holds, Visible, Terminal, Pending, Instants
<1>5. InHandShape'
  BY DEF InHandShape
<1>6. PickedShape'
  BY DEF PickedShape, Visible, Terminal, Pending
<1>7. LeaseExclusive'
  <2>1. \A w \in Workers, s \in Rows : Holds(w, s)' => Holds(w, s)
    BY DEF Holds, Visible, Terminal, Pending
  <2> QED BY <2>1 DEF LeaseExclusive
<1> QED BY <1>1, <1>2, <1>3, <1>4, <1>5, <1>6, <1>7

\* A step that only replaces rows no worker holds a token for and no sweep has
\* picked, by rows that are not visible, keeps the invariant.
LEMMA HiddenRowStep ==
  ASSUME IInv, TypeOK', NEW n \in Rows,
         UNCHANGED <<now, workerVars, sweep, disturbed>>,
         rows[n].st \in {"unused", "open"},
         \A s \in Rows : s # n => rows'[s] = rows[s],
         rows'[n].st \in {"open", "gone"},
         rows'[n].claimedAt = NONE, rows'[n].completedAt = NONE, rows'[n].deadAt = NONE,
         rows'[n].attempts = 0,
         lastSeq' >= lastSeq, n <= lastSeq'
  PROVE  IInv'
<1> USE DEF IInv
<1> rows \in [Rows -> RowType] /\ batch \in [Workers -> [Rows -> Instants]]
    /\ now \in Nat /\ lastSeq \in Nat /\ lastSeq' \in Nat /\ since \in [Workers -> Nat]
    /\ cur \in [Workers -> Rows \cup {0}]
  BY BoundsAssumption DEF TypeOK
<1>1. /\ \A w \in Workers : batch[w][n] = NONE
      /\ n \notin sweep.picked
  BY DEF TokenOrder, PickedShape
<1>2. RowShape'
  BY DEF RowShape, Visible, Terminal, Rows
<1>3. ClockOrder'
  BY DEF ClockOrder, workerVars
<1>4. TokenOrder'
  BY <1>1 DEF TokenOrder, Visible, Terminal, Pending, workerVars
<1>5. LeaseLost'
  BY <1>1 DEF LeaseLost, Holds, Visible, Terminal, Pending, workerVars
<1>6. InHandShape'
  BY DEF InHandShape, InHand, workerVars
<1>7. PickedShape'
  BY ZenonT(30), <1>1 DEF PickedShape, Visible, Terminal, Pending, TypeOK
<1>8. LeaseExclusive'
  <2>1. \A w \in Workers, s \in Rows : Holds(w, s)' => Holds(w, s)
    BY <1>1 DEF Holds, Visible, Terminal, Pending, workerVars
  <2> QED BY <2>1 DEF LeaseExclusive
<1>9. HeadFirst'
  BY DEF HeadFirst, Visible, Terminal, Pending, SameGroup
<1>10. EndsOnce'
  BY DEF EndsOnce, Visible, Terminal, Pending
<1> QED BY <1>2, <1>3, <1>4, <1>5, <1>6, <1>7, <1>8, <1>9, <1>10

\* A commit makes a clean row visible; if a later row of its group was visible
\* before it, the history variable records it.
LEMMA CommitStep ==
  ASSUME IInv, TypeOK', NEW n \in Rows, CommitEnqueue(n)
  PROVE  IInv'
<1> USE DEF IInv
<1> rows \in [Rows -> RowType] /\ batch \in [Workers -> [Rows -> Instants]]
    /\ now \in Nat /\ since \in [Workers -> Nat]
  BY DEF TypeOK
<1>1. /\ UNCHANGED <<now, lastSeq, workerVars, sweep>>
      /\ rows[n].st = "open" /\ rows'[n].st = "committed"
      /\ rows'[n].key = rows[n].key /\ rows'[n].attempts = rows[n].attempts
      /\ rows'[n].nextAttempt = rows[n].nextAttempt /\ rows'[n].claimedAt = rows[n].claimedAt
      /\ rows'[n].completedAt = rows[n].completedAt /\ rows'[n].deadAt = rows[n].deadAt
      /\ \A s \in Rows : s # n => rows'[s] = rows[s]
  BY DEF CommitEnqueue, RowType
<1>2. disturbed \subseteq disturbed'
  BY DEF CommitEnqueue
<1>3. (\E b \in Rows : b > n /\ Visible(b) /\ SameGroup(b, n)) => n \in disturbed'
  BY DEF CommitEnqueue
<1>4. /\ \A w \in Workers : batch[w][n] = NONE
      /\ n \notin sweep.picked
  BY <1>1 DEF TokenOrder, PickedShape
<1>5. rows[n].claimedAt = NONE /\ rows[n].attempts = 0 /\ ~Terminal(n)
  BY <1>1 DEF RowShape, Visible
<1>6. RowShape'
  BY <1>1, <1>5 DEF RowShape, Visible, Terminal
<1>7. ClockOrder'
  BY <1>1, <1>5 DEF ClockOrder, workerVars
<1>8. TokenOrder'
  BY <1>1, <1>4 DEF TokenOrder, Visible, Terminal, Pending, workerVars
<1>9. LeaseLost'
  BY <1>1, <1>2, <1>4 DEF LeaseLost, Holds, Visible, Terminal, Pending, workerVars
<1>10. InHandShape'
  BY <1>1 DEF InHandShape, InHand, workerVars
<1>11. PickedShape'
  BY SMTT(30), <1>1, <1>2, <1>4 DEF PickedShape, Visible, Terminal, Pending, TypeOK
<1>12. LeaseExclusive'
  <2>1. \A w \in Workers, s \in Rows : Holds(w, s)' => Holds(w, s)
    BY <1>1, <1>4 DEF Holds, Visible, Terminal, Pending, workerVars
  <2> QED BY <2>1 DEF LeaseExclusive
<1>13. HeadFirst'
  BY <1>1, <1>2, <1>3, <1>5 DEF HeadFirst, Visible, Terminal, Pending, SameGroup, Rows
<1>14. EndsOnce'
  BY <1>1, <1>5, BoundsAssumption DEF EndsOnce, Visible, Terminal, Pending
<1> QED BY <1>6, <1>7, <1>8, <1>9, <1>10, <1>11, <1>12, <1>13, <1>14

\* A claim stamps a reading that is above every token handed out for the row: a
\* leased row is taken only when its stamp is more than a lease behind the
\* reading, a released one only when it is due, which is after all its tokens.
LEMMA ClaimStep ==
  ASSUME IInv, TypeOK', NEW w \in Workers, Claim(w)
  PROVE  IInv'
<1> USE DEF IInv
<1> DEFINE pick(t) == Lowest({s \in Rows : Claimable(s, t)}, Batch)
<1>0. PICK t \in Reading(w) :
        /\ rows' = [s \in Rows |-> IF s \in pick(t)
                                   THEN [rows[s] EXCEPT !.claimedAt = t] ELSE rows[s]]
        /\ batch' = [batch EXCEPT ![w] = [s \in Rows |-> IF s \in pick(t) THEN t ELSE NONE]]
        /\ pc' = [pc EXCEPT ![w] = IF pick(t) = {} THEN "idle" ELSE "batch"]
  BY DEF Claim
<1> DEFINE P == pick(t)
<1>p. \A s \in P : s \in Rows /\ Claimable(s, t)
  BY DEF Lowest
<1>b. /\ \A s \in Rows : batch'[w][s] = IF s \in P THEN t ELSE NONE
      /\ \A v \in Workers : v # w => batch'[v] = batch[v]
  BY <1>0 DEF TypeOK
<1>c. pc'[w] \in {"idle", "batch"} /\ \A v \in Workers : v # w => pc'[v] = pc[v]
  BY <1>0 DEF TypeOK
<1> HIDE DEF pick, P
<1> rows \in [Rows -> RowType] /\ batch \in [Workers -> [Rows -> Instants]]
    /\ now \in Nat /\ since \in [Workers -> Nat] /\ Lease \in Nat
  BY BoundsAssumption DEF TypeOK
<1>1. t \in Nat /\ t <= now /\ since[w] <= t
  BY DEF Reading
<1>2. /\ \A s \in Rows : /\ rows'[s].st = rows[s].st /\ rows'[s].key = rows[s].key
                          /\ rows'[s].attempts = rows[s].attempts
                          /\ rows'[s].nextAttempt = rows[s].nextAttempt
                          /\ rows'[s].completedAt = rows[s].completedAt
                          /\ rows'[s].deadAt = rows[s].deadAt
      /\ \A s \in Rows : rows'[s].claimedAt = IF s \in P THEN t ELSE rows[s].claimedAt
      /\ now' = now /\ lastSeq' = lastSeq /\ disturbed' = disturbed /\ sweep' = sweep
      /\ cur' = cur /\ since'[w] = now /\ \A v \in Workers : v # w => since'[v] = since[v]
  BY <1>0 DEF Claim, RowType, P, TypeOK
<1>3. \A s \in P : /\ Pending(s) /\ rows[s].nextAttempt <= t
                   /\ rows[s].claimedAt = NONE \/ rows[s].claimedAt < t - Lease
                   /\ \A b \in Rows : b < s /\ Pending(b) => ~SameGroup(b, s)
  BY <1>p DEF Claimable
\* Every older token for a picked row is below the new one, and its lease is over.
<1>4. ASSUME NEW v \in Workers, NEW s \in P, s \in Rows, batch[v][s] # NONE
      PROVE  batch[v][s] < t /\ (Holds(v, s) => now > batch[v][s] + Lease)
  <2>1. /\ rows[s].claimedAt # NONE => batch[v][s] <= rows[s].claimedAt
        /\ rows[s].claimedAt = NONE => batch[v][s] < rows[s].nextAttempt
    BY <1>3, <1>4 DEF TokenOrder
  <2>2. batch[v][s] \in Nat /\ rows[s].nextAttempt \in Nat /\ rows[s].claimedAt \in Instants
    BY <1>4 DEF Instants, RowType
  <2> QED BY <1>1, <1>3, <2>1, <2>2 DEF Instants, Holds
<1>5. RowShape'
  BY <1>2, <1>3 DEF RowShape, Visible, Terminal, Pending
<1>6. ClockOrder'
  <2>1. \A s \in Rows : rows'[s].claimedAt <= now' /\ rows'[s].deadAt <= now'
    BY <1>1, <1>2 DEF ClockOrder
  <2>2. \A v \in Workers : since'[v] <= now' /\ \A s \in Rows : batch'[v][s] <= since'[v]
    <3> SUFFICES ASSUME NEW v \in Workers
                 PROVE  since'[v] <= now' /\ \A s \in Rows : batch'[v][s] <= since'[v]
      OBVIOUS
    <3>1. CASE v = w
      <4>1. since'[v] = now /\ now' = now
        BY <1>2, <3>1
      <4>2. ASSUME NEW s \in Rows PROVE batch'[v][s] <= now
        BY <1>1, <1>b, <3>1
      <4> QED BY <4>1, <4>2
    <3>2. CASE v # w
      <4>1. since'[v] = since[v] /\ now' = now /\ since[v] <= now
        BY <1>2, <3>2 DEF ClockOrder
      <4>2. \A s \in Rows : batch'[v][s] = batch[v][s]
        BY <1>b, <3>2
      <4> QED BY <4>1, <4>2 DEF ClockOrder
    <3> QED BY <3>1, <3>2
  <2> QED BY <2>1, <2>2 DEF ClockOrder
<1>7. TokenOrder'
  <2> SUFFICES ASSUME NEW v \in Workers, NEW s \in Rows, batch'[v][s] # NONE
               PROVE  /\ rows'[s].st \in {"committed", "gone"}
                      /\ rows'[s].claimedAt # NONE => batch'[v][s] <= rows'[s].claimedAt
                      /\ Pending(s)' /\ rows'[s].claimedAt = NONE => batch'[v][s] < rows'[s].nextAttempt
                      /\ rows'[s].deadAt # NONE => batch'[v][s] < rows'[s].deadAt
    BY DEF TokenOrder
  <2>1. CASE v = w
    <3>1. s \in P /\ batch'[v][s] = t
      BY <1>b, <2>1
    <3> QED BY <1>1, <1>2, <1>3, <3>1 DEF Pending, Visible, Terminal
  <2>2. CASE v # w /\ s \in P
    <3>1. batch'[v][s] = batch[v][s] /\ batch[v][s] < t
      BY <1>4, <1>b, <2>2
    <3>2. batch[v][s] \in Int
      BY DEF Instants
    <3> QED BY <1>1, <1>2, <1>3, <2>2, <3>1, <3>2 DEF Pending, Visible, Terminal
  <2>3. CASE v # w /\ s \notin P
    BY <1>2, <1>b, <2>3 DEF TokenOrder, Pending, Visible, Terminal
  <2> QED BY <2>1, <2>2, <2>3
<1>8. LeaseLost'
  <2> SUFFICES ASSUME NEW v \in Workers, NEW s \in Rows, batch'[v][s] # NONE
               PROVE  Holds(v, s)' \/ now' > batch'[v][s] + Lease \/ s \in disturbed'
    BY DEF LeaseLost
  <2>1. CASE v = w
    BY <1>b, <1>2, <1>3, <2>1 DEF Holds, Pending, Visible, Terminal
  <2>2. CASE v # w /\ s \in P
    BY <1>b, <1>2, <1>4, <2>2 DEF LeaseLost
  <2>3. CASE v # w /\ s \notin P
    BY <1>b, <1>2, <2>3 DEF LeaseLost, Holds, Pending, Visible, Terminal
  <2> QED BY <2>1, <2>2, <2>3
<1>9. InHandShape'
  BY <1>2, <1>b, <1>c DEF InHandShape, InHand
<1>10. PickedShape'
  BY SMTT(30), <1>2 DEF PickedShape, Visible, Terminal, Pending, TypeOK
<1>11. LeaseExclusive'
  <2>1. ASSUME NEW v \in Workers, NEW s \in Rows, v # w, Holds(v, s)'
        PROVE  s \notin P /\ Holds(v, s)
    <3>1. batch'[v][s] = batch[v][s] /\ batch[v][s] # NONE
      BY <1>b, <2>1 DEF Holds
    <3>2. s \notin P
      <4>1. s \in P => batch[v][s] < t /\ rows'[s].claimedAt = t
        BY <1>2, <1>4, <3>1
      <4> QED BY <1>1, <2>1, <3>1, <4>1 DEF Holds
    <3> QED BY <1>2, <2>1, <3>1, <3>2 DEF Holds, Pending, Visible, Terminal
  <2>2. ASSUME NEW s \in Rows, Holds(w, s)' PROVE s \in P
    BY <1>b, <2>2 DEF Holds
  <2> QED BY <2>1, <2>2 DEF LeaseExclusive
<1>12. HeadFirst'
  BY SMTT(30), <1>2, <1>3 DEF HeadFirst, Visible, Terminal, Pending, SameGroup, Rows
<1>13. EndsOnce'
  BY <1>2 DEF EndsOnce, Visible, Terminal, Pending
<1> QED BY <1>5, <1>6, <1>7, <1>8, <1>9, <1>10, <1>11, <1>12, <1>13

\* A renewal replaces the only live token of its row by one that is no smaller.
LEMMA RenewStep ==
  ASSUME IInv, TypeOK', NEW w \in Workers, NEW n \in Rows, RenewAndHandle(w, n)
  PROVE  IInv'
<1> USE DEF IInv
<1> rows \in [Rows -> RowType] /\ batch \in [Workers -> [Rows -> Instants]]
    /\ now \in Nat /\ since \in [Workers -> Nat] /\ Lease \in Nat
  BY BoundsAssumption DEF TypeOK
<1>0. PICK t \in Reading(w) : /\ rows' = [rows EXCEPT ![n].claimedAt = t]
                             /\ batch' = [batch EXCEPT ![w][n] = t]
  BY DEF RenewAndHandle
<1>1. t \in Nat /\ t <= now /\ since[w] <= t
  BY DEF Reading
<1>2. /\ \A s \in Rows : /\ rows'[s].st = rows[s].st /\ rows'[s].key = rows[s].key
                          /\ rows'[s].attempts = rows[s].attempts
                          /\ rows'[s].nextAttempt = rows[s].nextAttempt
                          /\ rows'[s].completedAt = rows[s].completedAt
                          /\ rows'[s].deadAt = rows[s].deadAt
      /\ \A s \in Rows : rows'[s].claimedAt = IF s = n THEN t ELSE rows[s].claimedAt
  BY <1>0 DEF RowType
<1>3. /\ \A s \in Rows : batch'[w][s] = IF s = n THEN t ELSE batch[w][s]
      /\ \A v \in Workers : v # w => batch'[v] = batch[v]
  BY <1>0
<1>4. /\ now' = now /\ lastSeq' = lastSeq /\ disturbed' = disturbed /\ sweep' = sweep
      /\ since'[w] = now /\ \A v \in Workers : v # w => since'[v] = since[v]
      /\ cur'[w] = n /\ \A v \in Workers : v # w => cur'[v] = cur[v] /\ pc'[v] = pc[v]
  BY DEF RenewAndHandle, TypeOK
<1>5. Holds(w, n) /\ Pending(n) /\ batch[w][n] = rows[n].claimedAt /\ rows[n].claimedAt \in Nat
  BY DEF RenewAndHandle, Holds, RowType, Instants
<1>6. rows[n].claimedAt <= t
  BY <1>1, <1>5 DEF ClockOrder
\* Any other token for the row is below the one renewed.
<1>7. ASSUME NEW v \in Workers, v # w, batch[v][n] # NONE
      PROVE  batch[v][n] < rows[n].claimedAt /\ ~Holds(v, n)
  <2>1. batch[v][n] <= rows[n].claimedAt
    BY <1>5, <1>7 DEF TokenOrder
  <2>2. ~Holds(v, n)
    BY <1>5, <1>7 DEF LeaseExclusive
  <2>3. batch[v][n] \in Nat
    BY <1>7 DEF Instants
  <2>4. batch[v][n] # rows[n].claimedAt
    BY <1>5, <1>7, <2>2 DEF Holds
  <2>5. batch[v][n] < rows[n].claimedAt
    BY <1>1, <1>5, <1>6, <2>1, <2>3, <2>4, StrictlyBelow
  <2> QED BY <2>2, <2>5
<1>8. RowShape'
  BY <1>2, <1>4, <1>5 DEF RowShape, Visible, Terminal, Pending
<1>9. ClockOrder'
  <2>1. \A s \in Rows : rows'[s].claimedAt <= now' /\ rows'[s].deadAt <= now'
    BY <1>1, <1>2, <1>4 DEF ClockOrder
  <2>2. ASSUME NEW s \in Rows PROVE batch'[w][s] <= now
    BY <1>1, <1>3 DEF ClockOrder, Instants
  <2>3. ASSUME NEW v \in Workers
        PROVE since'[v] <= now' /\ \A s \in Rows : batch'[v][s] <= since'[v]
    BY <1>3, <1>4, <2>2 DEF ClockOrder
  <2> QED BY <2>1, <2>3 DEF ClockOrder
<1>10. TokenOrder'
  <2> SUFFICES ASSUME NEW v \in Workers, NEW s \in Rows, batch'[v][s] # NONE
               PROVE  /\ rows'[s].st \in {"committed", "gone"}
                      /\ rows'[s].claimedAt # NONE => batch'[v][s] <= rows'[s].claimedAt
                      /\ Pending(s)' /\ rows'[s].claimedAt = NONE => batch'[v][s] < rows'[s].nextAttempt
                      /\ rows'[s].deadAt # NONE => batch'[v][s] < rows'[s].deadAt
    BY DEF TokenOrder
  <2>1. CASE s = n /\ v = w
    BY <1>1, <1>2, <1>3, <1>5, <2>1 DEF Pending, Visible, Terminal
  <2>2. CASE s = n /\ v # w
    <3>1. batch'[v][s] = batch[v][s] /\ batch[v][s] < t /\ batch[v][s] \in Int
      BY <1>1, <1>3, <1>5, <1>6, <1>7, <2>2 DEF Instants
    <3> QED BY <1>1, <1>2, <1>5, <2>2, <3>1 DEF Pending, Visible, Terminal
  <2>3. CASE s # n
    <3>1. batch'[v][s] = batch[v][s]
      BY <1>3, <2>3
    <3> QED BY <1>2, <2>3, <3>1 DEF TokenOrder, Pending, Visible, Terminal
  <2> QED BY <2>1, <2>2, <2>3
<1>11. LeaseLost'
  <2> SUFFICES ASSUME NEW v \in Workers, NEW s \in Rows, batch'[v][s] # NONE
               PROVE  Holds(v, s)' \/ now' > batch'[v][s] + Lease \/ s \in disturbed'
    BY DEF LeaseLost
  <2>1. CASE s = n /\ v = w
    BY <1>1, <1>2, <1>3, <1>5, <2>1 DEF Holds, Pending, Visible, Terminal
  <2>2. CASE s = n /\ v # w
    BY <1>3, <1>4, <1>7, <2>2 DEF LeaseLost
  <2>3. CASE s # n
    <3>1. batch'[v][s] = batch[v][s]
      BY <1>3, <2>3
    <3> QED BY <1>2, <1>4, <2>3, <3>1 DEF LeaseLost, Holds, Pending, Visible, Terminal
  <2> QED BY <2>1, <2>2, <2>3
<1>12. InHandShape'
  BY <1>1, <1>3, <1>4 DEF InHandShape, InHand
<1>13. PickedShape'
  BY ZenonT(30), <1>2, <1>4 DEF PickedShape, Visible, Terminal, Pending, TypeOK
<1>14. LeaseExclusive'
  <2>1. ASSUME NEW v \in Workers, NEW s \in Rows, Holds(v, s)'
        PROVE  Holds(v, s)
    <3>1. CASE s = n /\ v = w
      BY <1>5, <3>1
    <3>2. CASE s = n /\ v # w
      <4>1. batch'[v][s] = batch[v][s] /\ batch[v][s] # NONE /\ rows'[s].claimedAt = t
        BY <1>2, <1>3, <2>1, <3>2 DEF Holds
      <4>2. batch[v][s] < t
        BY <1>1, <1>5, <1>6, <1>7, <3>2, <4>1 DEF Instants
      <4> QED BY <1>1, <2>1, <4>1, <4>2 DEF Holds
    <3>3. CASE s # n
      BY <1>2, <1>3, <2>1, <3>3 DEF Holds, Pending, Visible, Terminal
    <3> QED BY <3>1, <3>2, <3>3
  <2> QED BY <2>1 DEF LeaseExclusive
<1>15. HeadFirst'
  <2>1. \A s \in Rows : rows'[s].claimedAt # NONE => rows[s].claimedAt # NONE
    BY <1>2, <1>5
  <2> QED BY <1>2, <1>4, <2>1 DEF HeadFirst, Visible, Terminal, Pending, SameGroup
<1>16. EndsOnce'
  BY <1>2 DEF EndsOnce, Visible, Terminal, Pending
<1> QED BY <1>8, <1>9, <1>10, <1>11, <1>12, <1>13, <1>14, <1>15, <1>16

\* An outcome is written only by the holder of the live token; every other token
\* for the row is older, so it stays below the instant of the outcome.
LEMMA RecordStep ==
  ASSUME IInv, TypeOK', NEW w \in Workers, RecordOutcome(w)
  PROVE  IInv'
<1> USE DEF IInv
<1> DEFINE n == cur[w]
<1> rows \in [Rows -> RowType] /\ batch \in [Workers -> [Rows -> Instants]]
    /\ now \in Nat /\ since \in [Workers -> Nat] /\ Lease \in Nat /\ MaxAttempts \in Nat \ {0}
  BY BoundsAssumption DEF TypeOK
<1>0. n \in Rows /\ batch[w][n] # NONE
  BY DEF RecordOutcome, InHandShape, InHand
<1>1. /\ \A s \in Rows : batch'[w][s] = IF s = n THEN NONE ELSE batch[w][s]
      /\ \A v \in Workers : v # w => batch'[v] = batch[v]
  BY <1>0 DEF RecordOutcome
<1>2. /\ now' = now /\ lastSeq' = lastSeq /\ disturbed' = disturbed /\ sweep' = sweep
      /\ since'[w] = now /\ \A v \in Workers : v # w => since'[v] = since[v]
      /\ pc'[w] \in {"idle", "batch"}
      /\ \A v \in Workers : v # w => cur'[v] = cur[v] /\ pc'[v] = pc[v]
  BY DEF RecordOutcome, AfterMessage, TypeOK
<1>3. CASE ~Holds(w, n)
  <2>1. rows' = rows
    BY <1>3 DEF RecordOutcome
  <2>2. \A v \in Workers : since[v] <= since'[v] /\ since'[v] <= now'
    BY <1>2 DEF ClockOrder
  <2>3. \A v \in Workers, s \in Rows : batch'[v][s] = batch[v][s] \/ batch'[v][s] = NONE
    BY <1>1
  <2>4. \A v \in Workers : InHand(v)' => /\ InHand(v) /\ cur'[v] = cur[v]
                                         /\ batch'[v][cur[v]] = batch[v][cur[v]]
    BY <1>1, <1>2 DEF InHand
  <2> QED BY <1>2, <2>1, <2>2, <2>3, <2>4, FrameStep
<1>4. CASE Holds(w, n)
  <2>0. PICK t \in Reading(w), backoff \in Backoffs :
          rows' = [rows EXCEPT ![n] = IF verdict[w] = "ok" THEN Completed(@, t)
                                      ELSE Failed(@, t, verdict[w], backoff)]
    BY <1>4 DEF RecordOutcome
  <2>1. t \in Nat /\ t <= now /\ since[w] <= t /\ backoff \in Nat \ {0}
    BY BoundsAssumption DEF Reading
  <2>2. Pending(n) /\ batch[w][n] = rows[n].claimedAt /\ rows[n].claimedAt \in Nat
    BY <1>0, <1>4 DEF Holds, RowType, Instants
  <2>3. rows[n].claimedAt <= t
    BY <1>0, <2>1, <2>2 DEF ClockOrder
  \* The row after the outcome.
  <2>4. \A s \in Rows : s # n => rows'[s] = rows[s]
    BY <2>0
  <2>5. /\ rows'[n].st = rows[n].st /\ rows'[n].key = rows[n].key /\ rows'[n].claimedAt = NONE
        /\ \/ rows'[n].completedAt = t /\ rows'[n].deadAt = NONE
           \/ rows'[n].completedAt = NONE /\ rows'[n].deadAt = t /\ rows'[n].attempts > 0
           \/ /\ rows'[n].completedAt = NONE /\ rows'[n].deadAt = NONE
              /\ rows'[n].nextAttempt > t /\ rows'[n].attempts < MaxAttempts
    <3>1. rows'[n] = IF verdict[w] = "ok" THEN Completed(rows[n], t)
                     ELSE Failed(rows[n], t, verdict[w], backoff)
      BY <1>0, <2>0
    <3>2. rows[n] \in RowType /\ rows[n].completedAt = NONE /\ rows[n].deadAt = NONE
      BY <1>0, <2>2 DEF Pending, Terminal
    <3>3. CASE verdict[w] = "ok"
      BY <3>1, <3>2, <3>3 DEF Completed, RowType
    <3>4. CASE verdict[w] # "ok" /\ rows[n].attempts + 1 >= Cap(verdict[w])
      BY <3>1, <3>2, <3>4 DEF Failed, RowType
    <3>5. CASE verdict[w] # "ok" /\ ~(rows[n].attempts + 1 >= Cap(verdict[w]))
      <4>1. rows[n].attempts \in Nat
        BY <3>2 DEF RowType
      <4>2. rows[n].attempts + 1 < MaxAttempts
        BY <3>5, <4>1 DEF Cap
      <4>3. rows'[n] = [rows[n] EXCEPT !.attempts = @ + 1, !.claimedAt = NONE, !.nextAttempt = t + backoff]
        BY <3>1, <3>5 DEF Failed
      <4>4. rows'[n].attempts = rows[n].attempts + 1 /\ rows'[n].nextAttempt = t + backoff
        BY <3>2, <4>3 DEF RowType
      <4> QED BY <2>1, <3>2, <4>1, <4>2, <4>3, <4>4 DEF RowType
    <3> QED BY <3>3, <3>4, <3>5
  \* Any other token for the row is below the outcome's instant.
  <2>6. ASSUME NEW v \in Workers, v # w, batch[v][n] # NONE
        PROVE  batch[v][n] < t /\ ~Holds(v, n)
    <3>1. batch[v][n] <= rows[n].claimedAt /\ batch[v][n] \in Nat
      BY <1>0, <2>2, <2>6 DEF TokenOrder, Instants
    <3>2. ~Holds(v, n)
      BY <1>0, <1>4, <2>6 DEF LeaseExclusive
    <3>3. batch[v][n] # rows[n].claimedAt
      BY <2>2, <2>6, <3>2 DEF Holds
    <3>4. batch[v][n] < t
      BY <2>1, <2>2, <2>3, <3>1, <3>3, StrictlyBelow
    <3> QED BY <3>2, <3>4
  <2>7. RowShape'
    BY <1>0, <1>2, <2>2, <2>4, <2>5 DEF RowShape, Visible, Terminal, Pending
  <2>8. ClockOrder'
    <3>1. \A s \in Rows : rows'[s].claimedAt <= now' /\ rows'[s].deadAt <= now'
      BY <1>0, <1>2, <2>1, <2>4, <2>5 DEF ClockOrder
    <3>2. ASSUME NEW s \in Rows PROVE batch'[w][s] <= now
      BY <1>1, <2>1 DEF ClockOrder, Instants
    <3>3. ASSUME NEW v \in Workers
          PROVE since'[v] <= now' /\ \A s \in Rows : batch'[v][s] <= since'[v]
      BY <1>1, <1>2, <3>2 DEF ClockOrder
    <3> QED BY <3>1, <3>3 DEF ClockOrder
  <2>9. TokenOrder'
    <3> SUFFICES ASSUME NEW v \in Workers, NEW s \in Rows, batch'[v][s] # NONE
                 PROVE  /\ rows'[s].st \in {"committed", "gone"}
                        /\ rows'[s].claimedAt # NONE => batch'[v][s] <= rows'[s].claimedAt
                        /\ Pending(s)' /\ rows'[s].claimedAt = NONE => batch'[v][s] < rows'[s].nextAttempt
                        /\ rows'[s].deadAt # NONE => batch'[v][s] < rows'[s].deadAt
      BY DEF TokenOrder
    <3>1. batch'[v][s] = batch[v][s] /\ ~(v = w /\ s = n)
      BY <1>1
    <3>2. CASE s = n
      <4>1. batch[v][n] < t /\ batch[v][n] \in Int
        BY <2>6, <3>1, <3>2 DEF Instants
      <4>2. rows'[n].nextAttempt \in Nat
        BY <1>0 DEF TypeOK, RowType
      <4> QED BY <2>1, <2>2, <2>5, <3>1, <3>2, <4>1, <4>2 DEF Pending, Visible, Terminal
    <3>3. CASE s # n
      BY <2>4, <3>1, <3>3 DEF TokenOrder, Pending, Visible, Terminal
    <3> QED BY <3>2, <3>3
  <2>10. LeaseLost'
    <3> SUFFICES ASSUME NEW v \in Workers, NEW s \in Rows, batch'[v][s] # NONE
                 PROVE  Holds(v, s)' \/ now' > batch'[v][s] + Lease \/ s \in disturbed'
      BY DEF LeaseLost
    <3>1. batch'[v][s] = batch[v][s] /\ ~(v = w /\ s = n)
      BY <1>1
    <3>2. CASE s = n
      BY <1>2, <2>6, <3>1, <3>2 DEF LeaseLost
    <3>3. CASE s # n
      BY <1>2, <2>4, <3>1, <3>3 DEF LeaseLost, Holds, Pending, Visible, Terminal
    <3> QED BY <3>2, <3>3
  <2>11. InHandShape'
    BY <1>1, <1>2 DEF InHandShape, InHand
  <2>12. PickedShape'
    <3>1. ASSUME NEW s \in sweep.picked
          PROVE  rows'[s].st \in {"committed", "gone"} /\ (Pending(s)' => s \in disturbed)
      <4>1. s \in Rows
        BY <3>1 DEF TypeOK
      <4>2. CASE s = n
        BY <2>2, <2>5, <3>1, <4>2 DEF PickedShape
      <4>3. CASE s # n
        BY <2>4, <3>1, <4>1, <4>3 DEF PickedShape, Visible, Terminal, Pending
      <4> QED BY <4>2, <4>3
    <3> QED BY <1>2, <3>1 DEF PickedShape
  <2>13. LeaseExclusive'
    <3>1. ASSUME NEW v \in Workers, NEW s \in Rows, Holds(v, s)' PROVE Holds(v, s)
      <4>1. s # n
        BY <1>0, <2>5, <3>1 DEF Holds
      <4> QED BY <1>1, <2>4, <3>1, <4>1 DEF Holds, Pending, Visible, Terminal
    <3> QED BY <3>1 DEF LeaseExclusive
  <2>14. HeadFirst'
    <3>1. Pending(n) /\ rows[n].claimedAt # NONE
      BY <2>2
    <3> QED BY <1>0, <1>2, <2>4, <2>5, <3>1 DEF HeadFirst, Visible, Terminal, Pending, SameGroup
  <2>15. EndsOnce'
    <3> SUFFICES ASSUME NEW s \in Rows
                 PROVE  /\ rows'[s].completedAt = NONE \/ rows'[s].deadAt = NONE
                        /\ rows'[s].deadAt # NONE => rows'[s].attempts > 0
                        /\ Pending(s)' => rows'[s].attempts < MaxAttempts
      BY DEF EndsOnce
    <3>1. CASE s = n
      BY <2>1, <2>5, <3>1 DEF Pending, Terminal
    <3>2. CASE s # n
      BY <2>4, <3>2 DEF EndsOnce, Visible, Terminal, Pending
    <3> QED BY <3>1, <3>2
  <2> QED BY <2>7, <2>8, <2>9, <2>10, <2>11, <2>12, <2>13, <2>14, <2>15
<1> QED BY <1>3, <1>4

\* A replay makes dead rows due now, which is after every token ever handed out
\* for them, and records them in the history variable.
LEMMA ReviveStep ==
  ASSUME IInv, TypeOK', NEW S \in SUBSET Rows, Revive(S)
  PROVE  IInv'
<1> USE DEF IInv
<1> rows \in [Rows -> RowType] /\ batch \in [Workers -> [Rows -> Instants]]
    /\ now \in Nat /\ since \in [Workers -> Nat] /\ Lease \in Nat /\ MaxAttempts \in Nat \ {0}
  BY BoundsAssumption DEF TypeOK
<1>1. /\ UNCHANGED <<now, lastSeq, workerVars, sweep>> /\ disturbed' = disturbed \cup S
      /\ \A s \in S : Visible(s) /\ rows[s].deadAt # NONE
  BY DEF Revive
<1>2. \A s \in Rows : s \notin S => rows'[s] = rows[s]
  BY DEF Revive
<1>3. \A s \in S : /\ rows'[s].st = rows[s].st /\ rows'[s].key = rows[s].key
                   /\ rows'[s].claimedAt = rows[s].claimedAt
                   /\ rows'[s].completedAt = rows[s].completedAt
                   /\ rows'[s].deadAt = NONE /\ rows'[s].attempts = 0
                   /\ rows'[s].nextAttempt = now
  BY ZenonT(30) DEF Revive, RowType
<1>4. \A s \in S : rows[s].claimedAt = NONE /\ rows[s].completedAt = NONE /\ Terminal(s)
  BY <1>1 DEF RowShape, EndsOnce, Terminal
<1>5. RowShape'
  BY <1>1, <1>2, <1>3, <1>4 DEF RowShape, Visible, Terminal
<1>6. ClockOrder'
  BY <1>1, <1>2, <1>3, <1>4 DEF ClockOrder, workerVars
<1>7. TokenOrder'
  <2> SUFFICES ASSUME NEW v \in Workers, NEW s \in Rows, batch[v][s] # NONE
               PROVE  /\ rows'[s].st \in {"committed", "gone"}
                      /\ rows'[s].claimedAt # NONE => batch[v][s] <= rows'[s].claimedAt
                      /\ Pending(s)' /\ rows'[s].claimedAt = NONE => batch[v][s] < rows'[s].nextAttempt
                      /\ rows'[s].deadAt # NONE => batch[v][s] < rows'[s].deadAt
    BY <1>1 DEF TokenOrder, workerVars
  <2>1. CASE s \in S
    <3>1. batch[v][s] < rows[s].deadAt /\ rows[s].deadAt <= now /\ rows[s].deadAt \in Nat
          /\ batch[v][s] \in Nat
      BY <1>1, <2>1 DEF TokenOrder, ClockOrder, Instants, RowType
    <3>2. batch[v][s] < now
      BY <3>1
    <3> QED BY <1>1, <1>3, <1>4, <2>1, <3>2 DEF Visible
  <2>2. CASE s \notin S
    BY <1>2, <2>2 DEF TokenOrder, Pending, Visible, Terminal
  <2> QED BY <2>1, <2>2
<1>8. LeaseLost'
  <2> SUFFICES ASSUME NEW v \in Workers, NEW s \in Rows, batch[v][s] # NONE
               PROVE  Holds(v, s)' \/ now' > batch[v][s] + Lease \/ s \in disturbed'
    BY <1>1 DEF LeaseLost, workerVars
  <2>1. CASE s \in S
    BY <1>1, <2>1
  <2>2. CASE s \notin S
    BY <1>1, <1>2, <2>2 DEF LeaseLost, Holds, Pending, Visible, Terminal, workerVars
  <2> QED BY <2>1, <2>2
<1>9. InHandShape'
  BY <1>1 DEF InHandShape, InHand, workerVars
<1>10. PickedShape'
  <2>1. ASSUME NEW s \in sweep.picked
        PROVE  rows'[s].st \in {"committed", "gone"} /\ (Pending(s)' => s \in disturbed')
    <3>1. s \in Rows
      BY <2>1 DEF TypeOK
    <3>2. CASE s \in S
      BY <1>1, <1>3, <2>1, <3>2 DEF PickedShape
    <3>3. CASE s \notin S
      BY <1>1, <1>2, <2>1, <3>1, <3>3 DEF PickedShape, Visible, Terminal, Pending
    <3> QED BY <3>2, <3>3
  <2> QED BY <1>1, <2>1 DEF PickedShape
<1>11. LeaseExclusive'
  <2>1. ASSUME NEW v \in Workers, NEW s \in Rows, Holds(v, s)' PROVE Holds(v, s)
    <3>1. s \notin S
      BY <1>1, <1>3, <1>4, <2>1 DEF Holds, workerVars
    <3> QED BY <1>1, <1>2, <2>1, <3>1 DEF Holds, Pending, Visible, Terminal, workerVars
  <2> QED BY <2>1 DEF LeaseExclusive
<1>12. HeadFirst'
  <2> SUFFICES ASSUME NEW a \in Rows, NEW b \in Rows,
                      a < b, Pending(a)', Visible(b)', SameGroup(a, b)',
                      rows'[b].claimedAt # NONE \/ rows'[b].attempts > 0 \/ Terminal(b)',
                      a \notin S
               PROVE  a \in disturbed
    BY <1>1 DEF HeadFirst
  <2>1. b \notin S
    BY <1>3, <1>4 DEF Terminal
  <2> QED BY <1>2, <2>1 DEF HeadFirst, Visible, Terminal, Pending, SameGroup
<1>13. EndsOnce'
  BY <1>2, <1>3 DEF EndsOnce, Visible, Terminal, Pending
<1> QED BY <1>5, <1>6, <1>7, <1>8, <1>9, <1>10, <1>11, <1>12, <1>13

\* Deleting rows that have ended, or that were revived, keeps the invariant.
LEMMA DeleteStep ==
  ASSUME IInv, TypeOK', NEW S \in SUBSET Rows, Delete(S),
         \A s \in S : rows[s].st \in {"committed", "gone"} /\ (Pending(s) => s \in disturbed),
         UNCHANGED <<now, lastSeq, workerVars, disturbed>>,
         sweep'.picked = {} \/ sweep'.picked = sweep.picked
  PROVE  IInv'
<1> USE DEF IInv
<1> rows \in [Rows -> RowType] /\ batch \in [Workers -> [Rows -> Instants]]
    /\ now \in Nat /\ since \in [Workers -> Nat] /\ Lease \in Nat /\ MaxAttempts \in Nat \ {0}
    /\ lastSeq \in Nat
  BY BoundsAssumption DEF TypeOK
<1>1. \A s \in Rows : s \notin S => rows'[s] = rows[s]
  BY DEF Delete
<1>2. \A s \in S : /\ rows'[s].st = "gone" /\ rows'[s].claimedAt = NONE
                   /\ rows'[s].completedAt = NONE /\ rows'[s].deadAt = NONE
                   /\ rows'[s].attempts = 0
  BY DEF Delete, Blank
<1>3. \A s \in S : s <= lastSeq
  <2>1. \A s \in S : s \in Rows /\ rows[s].st # "unused"
    OBVIOUS
  <2> QED BY <2>1 DEF RowShape, Rows
<1>4. RowShape'
  BY <1>1, <1>2, <1>3 DEF RowShape, Visible, Terminal, Rows
<1>5. ClockOrder'
  BY <1>1, <1>2 DEF ClockOrder, workerVars
<1>6. TokenOrder'
  BY <1>1, <1>2 DEF TokenOrder, Visible, Terminal, Pending, workerVars
<1>7. LeaseLost'
  <2> SUFFICES ASSUME NEW v \in Workers, NEW s \in Rows, batch[v][s] # NONE
               PROVE  Holds(v, s)' \/ now > batch[v][s] + Lease \/ s \in disturbed
    BY DEF LeaseLost, workerVars
  <2>1. CASE s \in S
    BY <2>1 DEF LeaseLost, Holds
  <2>2. CASE s \notin S
    BY <1>1, <2>2 DEF LeaseLost, Holds, Pending, Visible, Terminal, workerVars
  <2> QED BY <2>1, <2>2
<1>8. InHandShape'
  BY DEF InHandShape, InHand, workerVars
<1>9. PickedShape'
  <2>1. ASSUME NEW s \in sweep.picked
        PROVE  rows'[s].st \in {"committed", "gone"} /\ (Pending(s)' => s \in disturbed)
    <3>1. s \in Rows
      BY <2>1 DEF TypeOK
    <3>2. CASE s \in S
      BY <1>2, <3>2 DEF Pending, Visible
    <3>3. CASE s \notin S
      BY <1>1, <2>1, <3>1, <3>3 DEF PickedShape, Visible, Terminal, Pending
    <3> QED BY <3>2, <3>3
  <2> QED BY <2>1 DEF PickedShape
<1>10. LeaseExclusive'
  <2>1. ASSUME NEW v \in Workers, NEW s \in Rows, Holds(v, s)' PROVE Holds(v, s)
    <3>1. s \notin S
      BY <1>2, <2>1 DEF Holds, Pending, Visible
    <3> QED BY <1>1, <2>1, <3>1 DEF Holds, Pending, Visible, Terminal, workerVars
  <2> QED BY <2>1 DEF LeaseExclusive
<1>11. HeadFirst'
  <2>1. \A s \in S : ~Visible(s)' /\ ~Pending(s)'
    BY <1>2 DEF Visible, Pending
  <2> QED BY <1>1, <2>1 DEF HeadFirst, Visible, Terminal, Pending, SameGroup
<1>12. EndsOnce'
  <2>1. \A s \in S : ~Pending(s)'
    BY <1>2 DEF Visible, Pending
  <2> QED BY <1>1, <1>2, <2>1 DEF EndsOnce, Visible, Terminal, Pending
<1> QED BY <1>4, <1>5, <1>6, <1>7, <1>8, <1>9, <1>10, <1>11, <1>12

\* Every step of the specification keeps the invariant.
LEMMA InvariantStep == IInv /\ [Next]_vars => IInv'
<1> SUFFICES ASSUME IInv, [Next]_vars PROVE IInv'
  OBVIOUS
<1>t. TypeOK'
  BY TypeStep DEF IInv
<1>u. /\ TypeOK /\ ClockOrder
      /\ \A w \in Workers : since[w] \in Nat /\ since[w] <= now
      /\ now \in Nat /\ now <= now /\ lastSeq \in Nat /\ sweep.picked \subseteq Rows
  BY BoundsAssumption DEF IInv, TypeOK, ClockOrder
<1>1. ASSUME NEW k \in Keys, NEW d \in Delays, Enqueue(k, d) PROVE IInv'
  <2> DEFINE n == lastSeq + 1
  <2>1. n \in Rows /\ rows[n].st = "unused" /\ lastSeq' = n /\ lastSeq' >= lastSeq /\ n <= lastSeq'
    BY <1>1, <1>u, BoundsAssumption DEF Enqueue, IInv, RowShape, Rows
  <2>2. rows' = [rows EXCEPT ![n] = NewRow(k, now + d)]
    BY <1>1 DEF Enqueue
  <2>3. rows'[n] = NewRow(k, now + d) /\ \A s \in Rows : s # n => rows'[s] = rows[s]
    BY <1>u, <2>1, <2>2 DEF TypeOK
  <2>4. /\ rows'[n].st = "open" /\ rows'[n].claimedAt = NONE /\ rows'[n].completedAt = NONE
        /\ rows'[n].deadAt = NONE /\ rows'[n].attempts = 0
    BY <2>3 DEF NewRow, Blank
  <2>5. UNCHANGED <<now, workerVars, sweep, disturbed>>
    BY <1>1 DEF Enqueue
  <2> QED BY <1>t, <2>1, <2>3, <2>4, <2>5, HiddenRowStep
<1>2. ASSUME NEW s \in Rows, CommitEnqueue(s) PROVE IInv'
  BY <1>2, <1>t, CommitStep
<1>3. ASSUME NEW n \in Rows, RollbackEnqueue(n) PROVE IInv'
  <2>1. rows'[n] = Blank("gone") /\ \A s \in Rows : s # n => rows'[s] = rows[s]
    BY <1>3, <1>u DEF RollbackEnqueue, TypeOK
  <2>2. /\ rows'[n].st = "gone" /\ rows'[n].claimedAt = NONE /\ rows'[n].completedAt = NONE
        /\ rows'[n].deadAt = NONE /\ rows'[n].attempts = 0
    BY <2>1 DEF Blank
  <2>3. UNCHANGED <<now, workerVars, sweep, disturbed>> /\ lastSeq' = lastSeq
    BY <1>3 DEF RollbackEnqueue
  <2>4. lastSeq' >= lastSeq /\ n <= lastSeq' /\ rows[n].st = "open"
    BY <1>3, <1>u, <2>3 DEF RollbackEnqueue, IInv, RowShape, Rows
  <2> QED BY <1>t, <2>1, <2>2, <2>3, <2>4, HiddenRowStep
<1>5. ASSUME NEW w \in Workers, Claim(w) PROVE IInv'
  BY <1>5, <1>t, ClaimStep
<1>7. ASSUME NEW w \in Workers, NEW s \in Rows, RenewAndHandle(w, s) PROVE IInv'
  BY <1>7, <1>t, RenewStep
<1>10. ASSUME NEW w \in Workers, RecordOutcome(w) PROVE IInv'
  BY <1>10, <1>t, RecordStep
<1>17. ASSUME NEW S \in SUBSET Rows, Revive(S) PROVE IInv'
  BY <1>17, <1>t, ReviveStep
<1>19. CASE ReapCompleted
  <2> DEFINE S == Lowest(CompletedOlderThan(sweep.at - CompletedRetention), ReapBatch)
  <2>1. S \in SUBSET Rows /\ \A s \in S : rows[s].st = "committed" /\ ~Pending(s)
    BY DEF Lowest, CompletedOlderThan, Visible, Pending, Terminal
  <2>2. sweep'.picked = {} \/ sweep'.picked = sweep.picked
    BY <1>19, <1>u DEF ReapCompleted, SweepDone, TypeOK
  <2>3. Delete(S) /\ UNCHANGED <<now, lastSeq, workerVars, disturbed>>
    BY <1>19 DEF ReapCompleted
  <2> HIDE DEF S
  <2> QED BY <1>t, <2>1, <2>2, <2>3, DeleteStep
<1>20. CASE ReapDeadSelect
  <2>1. /\ UNCHANGED <<now, rows, lastSeq, disturbed, pc, batch, cur, since>>
        /\ \A s \in sweep'.picked : Visible(s) /\ Terminal(s)
    BY <1>20, <1>u DEF ReapDeadSelect, queueVars, workerVars, Lowest, DeadOlderThan, TypeOK, Terminal
  <2>2. PickedShape'
    BY <2>1 DEF PickedShape, Pending, Visible, Terminal
  <2> QED BY <1>t, <2>1, <2>2 DEF IInv, RowShape, ClockOrder, TokenOrder, LeaseLost, InHandShape,
        InHand, LeaseExclusive, HeadFirst, EndsOnce, Holds, Pending, Visible, Terminal, SameGroup
<1>21. CASE ReapDeadDelete
  <2>1. Delete(sweep.picked) /\ UNCHANGED <<now, lastSeq, workerVars, disturbed>> /\ sweep'.picked = {}
    BY <1>21 DEF ReapDeadDelete, SweepDone
  <2> QED BY <1>t, <1>u, <2>1, DeleteStep DEF IInv, PickedShape
\* The remaining steps write no row.
<1> DEFINE Frame ==
      /\ UNCHANGED <<rows, lastSeq, disturbed>>
      /\ now' >= now
      /\ \A w \in Workers : since[w] <= since'[w] /\ since'[w] <= now'
      /\ \A w \in Workers, s \in Rows : batch'[w][s] = batch[w][s] \/ batch'[w][s] = NONE
      /\ \A w \in Workers : InHand(w)' => /\ InHand(w) /\ cur'[w] = cur[w]
                                          /\ batch'[w][cur[w]] = batch[w][cur[w]]
      /\ sweep'.picked \subseteq sweep.picked
<1>f. ASSUME Frame PROVE IInv'
  BY <1>f, <1>t, FrameStep
<1>4. ASSUME NEW w \in Workers, BeginPass(w) PROVE Frame
  BY <1>4, <1>u DEF BeginPass, queueVars, InHand, TypeOK
<1>6. ASSUME NEW w \in Workers, StopBetweenMessages(w) PROVE Frame
  BY <1>6, <1>u DEF StopBetweenMessages, LeavePass, NoBatch, queueVars, InHand, TypeOK
<1>8. ASSUME NEW w \in Workers, NEW s \in Rows, SkipLostLease(w, s) PROVE Frame
  BY <1>8, <1>u DEF SkipLostLease, AfterMessage, queueVars, InHand, TypeOK
<1>9. ASSUME NEW w \in Workers, NEW v \in {"ok", "retry", "permanent"},
             HandlerReturns(w, v) PROVE Frame
  BY <1>9, <1>u DEF HandlerReturns, queueVars, InHand, TypeOK
<1>11. ASSUME NEW w \in Workers, StoreErrorEndsPass(w) PROVE Frame
  BY <1>11, <1>u DEF StoreErrorEndsPass, LeavePass, NoBatch, queueVars, InHand, TypeOK
<1>12. ASSUME NEW w \in Workers, WorkerExits(w) PROVE Frame
  BY <1>12, <1>u DEF WorkerExits, queueVars, InHand, TypeOK
<1>13. ASSUME NEW p \in Pools, Shutdown(p) PROVE Frame
  BY <1>13, <1>u DEF Shutdown, queueVars, workerVars, InHand
<1>14. ASSUME NEW p \in Pools, CrashReplica(p) \/ StartReplica(p) PROVE Frame
  BY SMTT(30), <1>14, <1>u DEF CrashReplica, StartReplica, ResetReplica, NoBatch, queueVars, InHand, TypeOK
<1>15. CASE Suspend \/ Resume
  BY <1>15, <1>u, <1>f DEF Suspend, Resume, queueVars, workerVars, InHand
<1>18. CASE SweepBegin \/ SweepAbandoned
  BY <1>18, <1>u, <1>f DEF SweepBegin, SweepAbandoned, SweepDone, queueVars, workerVars, InHand
<1>23. CASE Tick
  <2>1. now' >= now /\ \A w \in Workers : since[w] <= since'[w] /\ since'[w] <= now'
    BY <1>23, <1>u, BoundsAssumption DEF Tick, Later
  <2>2. Frame
    BY <1>23, <1>u, <2>1 DEF Tick, queueVars, InHand
  <2> QED BY <2>2, <1>f
<1>24. CASE UNCHANGED vars
  <2>1. Frame
    BY <1>24, <1>u DEF vars, queueVars, workerVars, InHand
  <2> QED BY <2>1, <1>f
<1> HIDE DEF Frame
<1>25. CASE Producing
  BY <1>25, <1>1, <1>2, <1>3 DEF Producing
<1>26. ASSUME NEW w \in Workers, Working(w) PROVE IInv'
  BY <1>26, <1>f, <1>4, <1>5, <1>6, <1>7, <1>8, <1>9, <1>10, <1>12 DEF Working
<1>27. CASE Operating
  BY <1>27, <1>f, <1>11, <1>13, <1>14, <1>15, <1>17 DEF Operating
<1>28. CASE Sweeping
  BY <1>28, <1>18, <1>19, <1>20, <1>21 DEF Sweeping
<1> QED
  BY <1>23, <1>24, <1>25, <1>26, <1>27, <1>28 DEF Next

-----------------------------------------------------------------------------
(* What the queue promises.                                                *)

\* The inductive invariant holds in every reachable state.
LEMMA Invariant == Spec => []IInv
<1>1. ASSUME Init PROVE IInv
  <2>1. TypeOK
    <3>1. Blank("unused") \in RowType
      BY BlankType
    <3>2. rows \in [Rows -> RowType] /\ lastSeq \in 0 .. MaxRows
      BY <1>1, <3>1, BoundsAssumption DEF Init
    <3>3. batch \in [Workers -> [Rows -> Instants]]
      BY <1>1, InstantFacts DEF Init, NoBatch
    <3>4. sweep \in [pc : {"idle", "completed", "dead", "delete"}, at : Nat, picked : SUBSET Rows]
      BY <1>1 DEF Init, SweepDone
    <3> QED BY <1>1, <3>2, <3>3, <3>4 DEF Init, TypeOK
  <2>2. /\ \A s \in Rows : /\ rows[s].st = "unused" /\ rows[s].claimedAt = NONE
                            /\ rows[s].completedAt = NONE /\ rows[s].deadAt = NONE
                            /\ rows[s].attempts = 0
        /\ \A w \in Workers, s \in Rows : batch[w][s] = NONE
        /\ \A w \in Workers : since[w] = 0 /\ pc[w] = "idle"
        /\ now = 0 /\ sweep.picked = {}
    BY <1>1 DEF Init, Blank, NoBatch, SweepDone
  <2>3. RowShape /\ HeadFirst /\ EndsOnce
    BY <2>2 DEF RowShape, HeadFirst, EndsOnce, Visible, Terminal, Pending
  <2>4. ClockOrder /\ TokenOrder /\ LeaseLost
    BY <2>2 DEF ClockOrder, TokenOrder, LeaseLost
  <2>5. InHandShape /\ PickedShape /\ LeaseExclusive
    BY <2>2 DEF InHandShape, InHand, PickedShape, LeaseExclusive, Holds
  <2> QED BY <2>1, <2>3, <2>4, <2>5 DEF IInv
<1> QED BY <1>1, InvariantStep, PTL DEF Spec

\* The lease token is a fence: of all the workers ever handed a row, at most one
\* can still renew, complete or fail it, whatever stalls between a clock reading
\* and the statement that uses it.
THEOREM FencingToken == Spec => []LeaseExclusive
<1>1. IInv => LeaseExclusive
  BY DEF IInv
<1> QED BY <1>1, Invariant, PTL

\* A handler that finishes within its lease still owns its message.
THEOREM LeaseKept == Spec => []LostOnlyByOverrun
<1>1. IInv => LostOnlyByOverrun
  BY DEF IInv, LeaseLost, InHandShape, LostOnlyByOverrun, Overrun
<1> QED BY <1>1, Invariant, PTL

\* A group is drained from its head, except around rows that became visible late
\* or were revived.
THEOREM GroupOrder == Spec => []HeadFirst
<1>1. IInv => HeadFirst
  BY DEF IInv
<1> QED BY <1>1, Invariant, PTL

\* Two messages of a group are in hand at once only past a lease or around a
\* disturbed row.
THEOREM GroupExclusion == Spec => []GroupSerial
<1>1. ASSUME IInv, NEW v \in Workers, NEW w \in Workers,
             v # w, InHand(v), InHand(w),
             Visible(cur[v]), Visible(cur[w]), SameGroup(cur[v], cur[w]),
             ~Overrun(v), ~Overrun(w), cur[v] \notin disturbed, cur[w] \notin disturbed
      PROVE  FALSE
  <2>1. /\ cur[v] \in Rows /\ cur[w] \in Rows
        /\ Holds(v, cur[v]) /\ Holds(w, cur[w])
    BY <1>1 DEF IInv, InHandShape, LeaseLost, Overrun
  <2>2. cur[v] # cur[w]
    BY <1>1, <2>1 DEF IInv, LeaseExclusive
  <2>3. ASSUME NEW a \in Rows, NEW b \in Rows, NEW x \in Workers, NEW y \in Workers,
               a < b, Holds(x, a), Holds(y, b), SameGroup(a, b)
        PROVE  a \in disturbed
    BY <1>1, <2>3 DEF IInv, HeadFirst, Holds, Pending
  <2>4. SameGroup(cur[w], cur[v])
    BY <1>1 DEF SameGroup
  <2>5. cur[v] < cur[w] \/ cur[w] < cur[v]
    BY <2>1, <2>2 DEF Rows
  <2> QED BY <1>1, <2>1, <2>3, <2>4, <2>5
<1>2. IInv => GroupSerial
  BY <1>1 DEF GroupSerial
<1> QED BY <1>2, Invariant, PTL

\* A row ends once, by completion or by dead letter, within its attempts.
THEOREM SingleEnd == Spec => []EndsOnce
<1>1. IInv => EndsOnce
  BY DEF IInv
<1> QED BY <1>1, Invariant, PTL


\* Only a producer's rollback and the sweeper remove rows, and what the sweeper
\* removes was ended when it was picked: no committed message is dropped before its
\* end, but for one revived under a sweep that had picked it.
THEOREM NothingLost == Spec => NothingDropped
<1>1. ASSUME IInv, [Next]_vars, NEW s \in Rows, Pending(s), rows'[s].st = "gone"
      PROVE  s \in disturbed
  <2>1. TypeOK /\ rows[s].st = "committed" /\ rows \in [Rows -> RowType]
    BY <1>1 DEF IInv, TypeOK, Pending, Visible
  <2>2. CASE UNCHANGED rows
    BY <1>1, <2>1, <2>2
  <2>3. CASE Producing
    <3>1. ASSUME NEW k \in Keys, NEW d \in Delays, Enqueue(k, d) PROVE FALSE
      <4>1. rows' = [rows EXCEPT ![lastSeq + 1] = NewRow(k, now + d)]
        BY <3>1 DEF Enqueue
      <4>2. NewRow(k, now + d).st = "open"
        BY DEF NewRow, Blank
      <4> QED BY <1>1, <2>1, <4>1, <4>2
    <3>2. ASSUME NEW n \in Rows, CommitEnqueue(n) \/ RollbackEnqueue(n) PROVE FALSE
      <4>1. n # s
        BY <2>1, <3>2 DEF CommitEnqueue, RollbackEnqueue
      <4> QED BY <1>1, <2>1, <3>2, <4>1 DEF CommitEnqueue, RollbackEnqueue
    <3> QED BY <2>3, <3>1, <3>2 DEF Producing
  <2>4. ASSUME NEW w \in Workers, Working(w) PROVE FALSE
    <3>1. CASE Claim(w)
      BY <1>1, <2>1, <3>1 DEF Claim, RowType
    <3>2. ASSUME NEW n \in Rows, RenewAndHandle(w, n) PROVE FALSE
      BY <1>1, <2>1, <3>2 DEF RenewAndHandle, RowType
    <3>3. CASE RecordOutcome(w)
      BY <1>1, <2>1, <3>3 DEF RecordOutcome, Completed, Failed, RowType
    <3>4. CASE UNCHANGED rows
      BY <1>1, <2>1, <3>4
    <3> QED BY <2>4, <3>1, <3>2, <3>3, <3>4
          DEF Working, BeginPass, StopBetweenMessages, SkipLostLease, HandlerReturns,
              WorkerExits, queueVars
  <2>5. CASE Operating
    <3>1. ASSUME NEW S \in SUBSET Rows, Revive(S) PROVE FALSE
      <4>1. \A n \in S : rows[n].deadAt # NONE
        BY <3>1, Zenon DEF Revive
      <4>2. \A n \in Rows : n \notin S => rows'[n] = rows[n]
        BY <3>1, Zenon DEF Revive
      <4>3. s \notin S
        BY <1>1, <4>1 DEF Pending, Terminal
      <4> QED BY <1>1, <2>1, <4>2, <4>3
    <3>2. CASE UNCHANGED rows
      BY <1>1, <2>1, <3>2
    <3> QED BY <2>5, <3>1, <3>2
          DEF Operating, Shutdown, CrashReplica, StartReplica, StoreErrorEndsPass, Suspend,
              Resume, queueVars
  <2>6. CASE ReapCompleted
    <3>1. s \notin Lowest(CompletedOlderThan(sweep.at - CompletedRetention), ReapBatch)
      BY <1>1 DEF Lowest, CompletedOlderThan, Pending, Terminal
    <3> QED BY <1>1, <2>1, <2>6, <3>1 DEF ReapCompleted, Delete
  <2>7. CASE ReapDeadDelete
    BY <1>1, <2>1, <2>7 DEF ReapDeadDelete, Delete, IInv, PickedShape
  <2> QED BY <1>1, <2>2, <2>3, <2>4, <2>5, <2>6, <2>7
        DEF Next, Sweeping, SweepBegin, ReapDeadSelect, SweepAbandoned, Tick, vars, queueVars
<1>2. IInv /\ [Next]_vars => [\A s \in Rows : Pending(s) /\ rows'[s].st = "gone" => s \in disturbed]_vars
  BY <1>1
<1> QED BY <1>2, Invariant, PTL DEF Spec, NothingDropped

-----------------------------------------------------------------------------
(* The outbox implements DeliveryQueue: its actions, row by row and worker *)
(* by worker.                                                              *)

GroupKey(s) == IF Visible(s) THEN {GroupOf[rows[s].key]} ELSE {}
HandOf(w)   == IF AnswersFor(w) THEN cur[w] ELSE 0
AnswerOf(w) == IF AnswersFor(w) /\ pc[w] = "record" THEN verdict[w] ELSE "none"

LEMMA QueueLose ==
  ASSUME \A s \in Rows : StatusOf(s)' = StatusOf(s) /\ GroupKey(s)' = GroupKey(s),
         UNCHANGED disturbed, NEW W \in SUBSET Workers,
         \A w \in Workers : IF w \in W THEN HandOf(w)' = 0 /\ AnswerOf(w)' = "none"
                            ELSE HandOf(w)' = HandOf(w) /\ AnswerOf(w)' = AnswerOf(w)
  PROVE  Queue!Next
<1>1. Queue!Lose(W)
  BY DEF Queue!Lose, Queue!LetGo, GroupKey, HandOf, AnswerOf
<1> QED BY <1>1 DEF Queue!Next

LEMMA QueuePublish ==
  ASSUME NEW n \in Rows, StatusOf(n) = "unborn", StatusOf(n)' = "pending",
         NEW g \in Keys, GroupKey(n)' = {g},
         \A s \in Rows \ {n} : StatusOf(s)' = StatusOf(s) /\ GroupKey(s)' = GroupKey(s),
         disturbed' = IF \E b \in Rows : b > n /\ GroupKey(b) = {g}
                      THEN disturbed \cup {n} ELSE disturbed,
         \A w \in Workers : HandOf(w)' = HandOf(w) /\ AnswerOf(w)' = AnswerOf(w)
  PROVE  Queue!Next
<1> DEFINE P == [x \in {n} |-> g]
<1>1. DOMAIN P = {n} /\ P[n] = g
  OBVIOUS
<1> HIDE DEF P
<1>2. disturbed' = disturbed \cup {m \in {n} : \E b \in Rows : b > m /\ GroupKey(b) = {g}}
  OBVIOUS
<1>3. Queue!PublishAll(P)
  <2>1. disturbed' = disturbed \cup {m \in DOMAIN P : \E b \in Rows : b > m /\ GroupKey(b) = {P[m]}}
    BY <1>1, <1>2
  <2> QED BY <1>1, <2>1
        DEF Queue!PublishAll, Queue!Messages, Rows, GroupKey, HandOf, AnswerOf
<1>4. P \in [{n} -> Keys] /\ {n} \in SUBSET Queue!Messages
  BY DEF P, Queue!Messages, Rows
<1> QED BY <1>3, <1>4 DEF Queue!Next

LEMMA QueueWithdraw ==
  ASSUME NEW n \in Rows, StatusOf(n) = "unborn", StatusOf(n)' = "removed",
         \A s \in Rows : GroupKey(s)' = GroupKey(s),
         \A s \in Rows \ {n} : StatusOf(s)' = StatusOf(s), UNCHANGED disturbed,
         \A w \in Workers : HandOf(w)' = HandOf(w) /\ AnswerOf(w)' = AnswerOf(w)
  PROVE  Queue!Next
<1>1. Queue!Withdraw(n)
  BY DEF Queue!Withdraw, GroupKey, HandOf, AnswerOf
<1> QED BY <1>1 DEF Queue!Next, Queue!Messages, Rows

LEMMA QueueTake ==
  ASSUME NEW w \in Workers, NEW n \in Rows, StatusOf(n) = "pending", HandOf(w) = 0,
         \A v \in Workers : HandOf(v) # n,
         \A b \in Rows : b < n /\ StatusOf(b) = "pending" /\ GroupKey(b) = GroupKey(n)
                           => b \in disturbed,
         HandOf(w)' = n, \A v \in Workers \ {w} : HandOf(v)' = HandOf(v),
         \A v \in Workers : AnswerOf(v)' = AnswerOf(v),
         \A s \in Rows : StatusOf(s)' = StatusOf(s) /\ GroupKey(s)' = GroupKey(s),
         UNCHANGED disturbed
  PROVE  Queue!Next
<1>1. Queue!Take(w, n)
  BY DEF Queue!Take, Queue!InHands, Queue!Messages, Rows, GroupKey, HandOf, AnswerOf
<1> QED BY <1>1 DEF Queue!Next, Queue!Messages, Rows

LEMMA QueueAnswer ==
  ASSUME NEW w \in Workers, NEW v \in {"ok", "retry", "permanent"}, HandOf(w) # 0,
         AnswerOf(w) = "none", AnswerOf(w)' = v,
         \A u \in Workers \ {w} : AnswerOf(u)' = AnswerOf(u),
         \A u \in Workers : HandOf(u)' = HandOf(u),
         \A s \in Rows : StatusOf(s)' = StatusOf(s) /\ GroupKey(s)' = GroupKey(s),
         UNCHANGED disturbed
  PROVE  Queue!Next
<1>1. Queue!Answer(w, v)
  BY DEF Queue!Answer, GroupKey, HandOf, AnswerOf
<1> QED BY <1>1 DEF Queue!Next

LEMMA QueueSettle ==
  ASSUME NEW w \in Workers, NEW n \in Rows, HandOf(w) = n, n # 0,
         StatusOf(n)' \in Queue!Outcomes(AnswerOf(w)),
         \A s \in Rows \ {n} : StatusOf(s)' = StatusOf(s),
         \A s \in Rows : GroupKey(s)' = GroupKey(s), UNCHANGED disturbed,
         HandOf(w)' = 0, AnswerOf(w)' = "none",
         \A u \in Workers \ {w} : HandOf(u)' = HandOf(u) /\ AnswerOf(u)' = AnswerOf(u)
  PROVE  Queue!Next
<1> DEFINE answer == [v \in Workers |-> AnswerOf(v)]
           status == [s \in Rows |-> StatusOf(s)]
           hand == [v \in Workers |-> HandOf(v)]
<1>1. \E o \in Queue!Outcomes(answer[w]) : status' = [status EXCEPT ![hand[w]] = o]
  OBVIOUS
<1>2. Queue!LetGo({w}) /\ hand[w] # 0
  BY DEF Queue!LetGo, HandOf, AnswerOf
<1>3. Queue!Settle(w)
  BY <1>1, <1>2 DEF Queue!Settle, GroupKey, HandOf, AnswerOf
<1> QED BY <1>3 DEF Queue!Next

LEMMA QueueReplay ==
  ASSUME NEW M \in SUBSET Rows, \A s \in M : StatusOf(s) = "dead" /\ StatusOf(s)' = "pending",
         \A s \in Rows \ M : StatusOf(s)' = StatusOf(s),
         \A s \in Rows : GroupKey(s)' = GroupKey(s), disturbed' = disturbed \cup M,
         \A w \in Workers : HandOf(w)' = HandOf(w) /\ AnswerOf(w)' = AnswerOf(w)
  PROVE  Queue!Next
<1>1. Queue!Replay(M)
  BY DEF Queue!Replay, Queue!Messages, Rows, GroupKey, HandOf, AnswerOf
<1> QED BY <1>1 DEF Queue!Next, Queue!Messages, Rows

LEMMA QueueRemove ==
  ASSUME NEW M \in SUBSET Rows,
         \A s \in M : /\ \/ StatusOf(s) \in {"done", "dead"}
                         \/ StatusOf(s) = "pending" /\ s \in disturbed
                      /\ StatusOf(s)' = "removed" /\ GroupKey(s)' = {},
         \A s \in Rows \ M : StatusOf(s)' = StatusOf(s) /\ GroupKey(s)' = GroupKey(s),
         UNCHANGED disturbed,
         \A w \in Workers : IF HandOf(w) \in M THEN HandOf(w)' = 0 /\ AnswerOf(w)' = "none"
                            ELSE HandOf(w)' = HandOf(w) /\ AnswerOf(w)' = AnswerOf(w)
  PROVE  Queue!Next
<1>1. Queue!Remove(M)
  BY DEF Queue!Remove, Queue!LetGo, Queue!Messages, Rows, GroupKey, HandOf, AnswerOf
<1> QED BY <1>1 DEF Queue!Next, Queue!Messages, Rows

\* What the mapped status says of a row.
LEMMA StatusIs ==
  ASSUME TypeOK, NEW s \in Rows
  PROVE  /\ StatusOf(s) = "unborn" <=> rows[s].st \in {"unused", "open"}
         /\ StatusOf(s) = "removed" <=> rows[s].st = "gone"
         /\ StatusOf(s) = "pending" <=> Pending(s)
         /\ Visible(s) /\ rows[s].completedAt # NONE => StatusOf(s) = "done"
         /\ Visible(s) /\ rows[s].completedAt = NONE /\ rows[s].deadAt # NONE => StatusOf(s) = "dead"
BY DEF TypeOK, RowType, StatusOf, Pending, Visible, Terminal

LEMMA RowSeenSame ==
  ASSUME NEW s, rows'[s].st = rows[s].st, rows'[s].key = rows[s].key,
         rows'[s].completedAt = rows[s].completedAt, rows'[s].deadAt = rows[s].deadAt
  PROVE  StatusOf(s)' = StatusOf(s) /\ GroupKey(s)' = GroupKey(s)
BY DEF StatusOf, GroupKey, Visible

LEMMA HandsSame ==
  ASSUME NEW w, AnswersFor(w)' <=> AnswersFor(w), cur'[w] = cur[w], pc'[w] = pc[w],
         verdict'[w] = verdict[w]
  PROVE  HandOf(w)' = HandOf(w) /\ AnswerOf(w)' = AnswerOf(w)
BY DEF HandOf, AnswerOf

\* A step in which workers only lose what they answered for.
LEMMA OnlyLoses ==
  ASSUME \A s \in Rows : StatusOf(s)' = StatusOf(s) /\ GroupKey(s)' = GroupKey(s),
         UNCHANGED disturbed,
         \A w \in Workers : AnswersFor(w)' => /\ AnswersFor(w) /\ cur'[w] = cur[w]
                                              /\ pc'[w] = pc[w] /\ verdict'[w] = verdict[w]
  PROVE  Queue!Next
<1> DEFINE W == {w \in Workers : ~AnswersFor(w)'}
<1>1. ASSUME NEW w \in W PROVE HandOf(w)' = 0 /\ AnswerOf(w)' = "none"
  BY <1>1 DEF HandOf, AnswerOf
<1>2. ASSUME NEW w \in Workers \ W
      PROVE  HandOf(w)' = HandOf(w) /\ AnswerOf(w)' = AnswerOf(w)
  BY <1>2 DEF HandOf, AnswerOf
<1>3. W \in SUBSET Workers
  OBVIOUS
<1> HIDE DEF W
<1> QED BY <1>1, <1>2, <1>3, QueueLose

\* .. of which those that write no row.
LEMMA QuietStep ==
  ASSUME UNCHANGED <<rows, disturbed>>,
         \A w \in Workers : InHand(w)' => /\ InHand(w) /\ cur'[w] = cur[w]
                                          /\ pc'[w] = pc[w] /\ verdict'[w] = verdict[w]
                                          /\ batch'[w][cur[w]] = batch[w][cur[w]]
  PROVE  Queue!Next
<1>1. \A s \in Rows : StatusOf(s)' = StatusOf(s) /\ GroupKey(s)' = GroupKey(s)
  BY RowSeenSame
<1>2. ASSUME NEW w \in Workers, AnswersFor(w)'
      PROVE  /\ AnswersFor(w) /\ cur'[w] = cur[w]
             /\ pc'[w] = pc[w] /\ verdict'[w] = verdict[w]
  BY <1>2 DEF AnswersFor, Holds, Pending, Visible, Terminal
<1> QED BY <1>1, <1>2, OnlyLoses

\* A handler that returned has said something.
Spoken == \A w \in Workers : pc[w] = "record" => verdict[w] # "none"

LEMMA SpokenStep ==
  ASSUME TypeOK, Spoken, [Next]_vars
  PROVE  Spoken'
<1> USE DEF Spoken, TypeOK
<1>1. CASE UNCHANGED <<pc, verdict>>
  BY <1>1
<1>2. ASSUME NEW w \in Workers, Working(w) PROVE Spoken'
  <2>1. CASE BeginPass(w) \/ Claim(w) \/ WorkerExits(w)
    BY <2>1 DEF BeginPass, Claim, WorkerExits
  <2>2. CASE StopBetweenMessages(w)
    BY <2>2 DEF StopBetweenMessages, LeavePass
  <2>3. ASSUME NEW s \in Rows, RenewAndHandle(w, s) \/ SkipLostLease(w, s) PROVE Spoken'
    BY <2>3 DEF RenewAndHandle, SkipLostLease, AfterMessage
  <2>4. ASSUME NEW v \in {"ok", "retry", "permanent"}, HandlerReturns(w, v) PROVE Spoken'
    BY <2>4 DEF HandlerReturns
  <2>5. CASE RecordOutcome(w)
    <3>1. pc'[w] \in {"idle", "batch"} /\ \A u \in Workers \ {w} : pc'[u] = pc[u] /\ verdict'[u] = verdict[u]
      BY <2>5 DEF RecordOutcome, AfterMessage
    <3> QED BY <3>1
  <2> QED BY <1>2, <2>1, <2>2, <2>3, <2>4, <2>5 DEF Working
<1>3. ASSUME NEW p \in Pools, CrashReplica(p) \/ StartReplica(p) PROVE Spoken'
  BY <1>3 DEF CrashReplica, StartReplica, ResetReplica
<1>4. ASSUME NEW w \in Workers, StoreErrorEndsPass(w) PROVE Spoken'
  BY <1>4 DEF StoreErrorEndsPass, LeavePass
<1>5. CASE Producing
  BY <1>1, <1>5, Zenon DEF Producing, Enqueue, CommitEnqueue, RollbackEnqueue, workerVars
<1>6. CASE Operating
  BY <1>1, <1>3, <1>4, <1>6, Zenon DEF Operating, Shutdown, Suspend, Resume, Revive, workerVars
<1>7. CASE Sweeping
  BY <1>1, <1>7, Zenon DEF Sweeping, SweepBegin, ReapCompleted, ReapDeadSelect, ReapDeadDelete,
     SweepAbandoned, workerVars
<1>8. CASE Tick \/ UNCHANGED vars
  BY <1>1, <1>8 DEF Tick, vars, workerVars
<1> QED BY <1>2, <1>5, <1>6, <1>7, <1>8 DEF Next

LEMMA StatusIsNext ==
  ASSUME TypeOK', NEW s \in Rows
  PROVE  /\ StatusOf(s)' = "unborn" <=> rows'[s].st \in {"unused", "open"}
         /\ StatusOf(s)' = "removed" <=> rows'[s].st = "gone"
         /\ StatusOf(s)' = "pending" <=> Pending(s)'
         /\ Visible(s)' /\ rows'[s].completedAt # NONE => StatusOf(s)' = "done"
         /\ Visible(s)' /\ rows'[s].completedAt = NONE /\ rows'[s].deadAt # NONE
              => StatusOf(s)' = "dead"
BY DEF TypeOK, RowType, StatusOf, Pending, Visible, Terminal

\* Hands are left alone by a step that only writes rows nobody holds.
LEMMA HandsLeftAlone ==
  ASSUME IInv, UNCHANGED workerVars, NEW M, \A s \in Rows : s \in M \/ rows'[s] = rows[s],
         \A w \in Workers, s \in Rows : s \in M => ~Holds(w, s) /\ ~Holds(w, s)'
  PROVE  \A w \in Workers : HandOf(w)' = HandOf(w) /\ AnswerOf(w)' = AnswerOf(w)
<1> SUFFICES ASSUME NEW w \in Workers
             PROVE  HandOf(w)' = HandOf(w) /\ AnswerOf(w)' = AnswerOf(w)
  OBVIOUS
<1>1. UNCHANGED <<pc, batch, cur, verdict>>
  BY DEF workerVars
<1>2. InHand(w)' <=> InHand(w)
  BY <1>1 DEF InHand
<1>3. InHand(w) => cur[w] \in Rows
  BY DEF IInv, InHandShape
<1>4. \A s \in Rows : Holds(w, s)' <=> Holds(w, s)
  BY <1>1 DEF Holds, Pending, Visible, Terminal
<1>5. AnswersFor(w)' <=> AnswersFor(w)
  <2>1. CASE InHand(w)
    <3>1. PICK s \in Rows : s = cur[w]
      BY <1>3, <2>1
    <3> QED BY <1>1, <1>2, <1>4, <3>1 DEF AnswersFor, Holds, Pending, Visible, Terminal
  <2>2. CASE ~InHand(w)
    BY <1>2, <2>2 DEF AnswersFor
  <2> QED BY <2>1, <2>2
<1> QED BY <1>1, <1>5, HandsSame

\* Nobody holds a row without a token for it.
LEMMA NoToken ==
  ASSUME IInv, NEW n \in Rows, rows[n].st \in {"unused", "open"}
  PROVE  \A w \in Workers : batch[w][n] = NONE /\ ~Holds(w, n)
BY DEF IInv, TokenOrder, Holds

LEMMA EnqueueRefines ==
  ASSUME IInv, TypeOK', NEW k \in Keys, NEW d \in Delays, Enqueue(k, d)
  PROVE  Queue!Next
<1>1. PICK n \in Rows : n = lastSeq + 1 /\ rows[n].st = "unused"
  BY BoundsAssumption DEF Enqueue, IInv, TypeOK, RowShape, Rows
<1>2. rows' = [rows EXCEPT ![n] = NewRow(k, now + d)] /\ UNCHANGED <<workerVars, disturbed>>
  BY <1>1 DEF Enqueue
<1>3. rows'[n].st = "open" /\ \A s \in Rows : s = n \/ rows'[s] = rows[s]
  <2>1. rows'[n] = NewRow(k, now + d) /\ \A s \in Rows : s = n \/ rows'[s] = rows[s]
    BY <1>2 DEF IInv, TypeOK
  <2>2. NewRow(k, now + d).st = "open"
    BY DEF NewRow, Blank
  <2> QED BY <2>1, <2>2
<1>4. \A w \in Workers : ~Holds(w, n) /\ ~Holds(w, n)'
  <2>1. UNCHANGED batch
    BY <1>2 DEF workerVars
  <2> QED BY <1>1, <2>1, NoToken DEF Holds
<1>5. \A s \in Rows : StatusOf(s)' = StatusOf(s) /\ GroupKey(s)' = GroupKey(s)
  <2>1. StatusOf(n) = "unborn" /\ StatusOf(n)' = "unborn"
    BY <1>1, <1>3, StatusIs, StatusIsNext DEF IInv
  <2>2. GroupKey(n) = {} /\ GroupKey(n)' = {}
    BY <1>1, <1>3 DEF GroupKey, Visible
  <2>3. \A s \in Rows : s # n => StatusOf(s)' = StatusOf(s) /\ GroupKey(s)' = GroupKey(s)
    BY <1>3, RowSeenSame
  <2> QED BY <2>1, <2>2, <2>3
<1>6. \A w \in Workers : HandOf(w)' = HandOf(w) /\ AnswerOf(w)' = AnswerOf(w)
  <2> DEFINE M == {n}
  <2>1. /\ \A s \in Rows : s \in M \/ rows'[s] = rows[s]
        /\ \A w \in Workers, s \in Rows : s \in M => ~Holds(w, s) /\ ~Holds(w, s)'
    BY <1>3, <1>4
  <2> HIDE DEF M
  <2> QED BY <1>2, <2>1, HandsLeftAlone
<1>7. UNCHANGED disturbed /\ {} \in SUBSET Workers
  BY <1>2
<1> QED BY <1>5, <1>6, <1>7, QueueLose

LEMMA CommitRefines ==
  ASSUME IInv, TypeOK', NEW n \in Rows, CommitEnqueue(n)
  PROVE  Queue!Next
<1>1. /\ rows[n].st = "open" /\ rows' = [rows EXCEPT ![n].st = "committed"]
      /\ disturbed' = IF \E b \in Rows : b > n /\ Visible(b) /\ SameGroup(b, n)
                      THEN disturbed \cup {n} ELSE disturbed
      /\ UNCHANGED workerVars
  BY DEF CommitEnqueue
<1>2. /\ rows'[n].st = "committed" /\ rows'[n].key = rows[n].key
      /\ rows'[n].completedAt = rows[n].completedAt /\ rows'[n].deadAt = rows[n].deadAt
      /\ \A s \in Rows : s = n \/ rows'[s] = rows[s]
  BY <1>1 DEF IInv, TypeOK, RowType
<1>3. rows[n].completedAt = NONE /\ rows[n].deadAt = NONE
  BY <1>1 DEF IInv, RowShape, Visible, Terminal
<1>4. \A w \in Workers : ~Holds(w, n) /\ ~Holds(w, n)'
  <2>1. UNCHANGED batch
    BY <1>1 DEF workerVars
  <2> QED BY <1>1, <2>1, NoToken DEF Holds
<1>5. StatusOf(n) = "unborn" /\ StatusOf(n)' = "pending"
  <2>1. Pending(n)'
    BY <1>2, <1>3 DEF Pending, Visible, Terminal
  <2> QED BY <1>1, <2>1, StatusIs, StatusIsNext DEF IInv
<1>6. PICK g \in Keys : g = GroupOf[rows[n].key]
  BY KeysAssumption DEF IInv, TypeOK, RowType
<1>7. GroupKey(n)' = {g}
  BY <1>2, <1>6 DEF GroupKey, Visible
<1>8. \A s \in Rows \ {n} : StatusOf(s)' = StatusOf(s) /\ GroupKey(s)' = GroupKey(s)
  BY <1>2, RowSeenSame
<1>9. \A b \in Rows : Visible(b) /\ SameGroup(b, n) <=> GroupKey(b) = {g}
  BY <1>6 DEF GroupKey, SameGroup
<1>10. disturbed' = IF \E b \in Rows : b > n /\ GroupKey(b) = {g}
                    THEN disturbed \cup {n} ELSE disturbed
  <2>1. (\E b \in Rows : b > n /\ Visible(b) /\ SameGroup(b, n))
          <=> \E b \in Rows : b > n /\ GroupKey(b) = {g}
    BY <1>9, Zenon
  <2> QED BY <1>1, <2>1, Zenon
<1>11. \A w \in Workers : HandOf(w)' = HandOf(w) /\ AnswerOf(w)' = AnswerOf(w)
  <2> DEFINE M == {n}
  <2>1. /\ \A s \in Rows : s \in M \/ rows'[s] = rows[s]
        /\ \A w \in Workers, s \in Rows : s \in M => ~Holds(w, s) /\ ~Holds(w, s)'
    BY <1>2, <1>4
  <2> HIDE DEF M
  <2> QED BY <1>1, <2>1, HandsLeftAlone
<1> QED BY <1>5, <1>7, <1>8, <1>10, <1>11, QueuePublish

LEMMA RollbackRefines ==
  ASSUME IInv, TypeOK', NEW n \in Rows, RollbackEnqueue(n)
  PROVE  Queue!Next
<1>1. /\ rows[n].st = "open" /\ rows' = [rows EXCEPT ![n] = Blank("gone")]
      /\ UNCHANGED <<workerVars, disturbed>>
  BY DEF RollbackEnqueue
<1>2. rows'[n].st = "gone" /\ \A s \in Rows : s = n \/ rows'[s] = rows[s]
  BY <1>1 DEF IInv, TypeOK, Blank
<1>3. \A w \in Workers : ~Holds(w, n) /\ ~Holds(w, n)'
  <2>1. UNCHANGED batch
    BY <1>1 DEF workerVars
  <2> QED BY <1>1, <2>1, NoToken DEF Holds
<1>4. StatusOf(n) = "unborn" /\ StatusOf(n)' = "removed"
  BY <1>1, <1>2, StatusIs, StatusIsNext DEF IInv
<1>5. /\ \A s \in Rows \ {n} : StatusOf(s)' = StatusOf(s)
      /\ \A s \in Rows : GroupKey(s)' = GroupKey(s)
  <2>1. GroupKey(n) = {} /\ GroupKey(n)' = {}
    BY <1>1, <1>2 DEF GroupKey, Visible
  <2> QED BY <1>2, <2>1, RowSeenSame
<1>6. \A w \in Workers : HandOf(w)' = HandOf(w) /\ AnswerOf(w)' = AnswerOf(w)
  <2> DEFINE M == {n}
  <2>1. /\ \A s \in Rows : s \in M \/ rows'[s] = rows[s]
        /\ \A w \in Workers, s \in Rows : s \in M => ~Holds(w, s) /\ ~Holds(w, s)'
    BY <1>2, <1>3
  <2> HIDE DEF M
  <2> QED BY <1>1, <2>1, HandsLeftAlone
<1> QED BY <1>1, <1>4, <1>5, <1>6, QueueWithdraw

\* A worker still answers for its row, as far as the row and its token are the same.
LEMMA AnswersSame ==
  ASSUME NEW v, NEW c, cur[v] = c, cur'[v] = c, InHand(v)' <=> InHand(v),
         Holds(v, c)' <=> Holds(v, c)
  PROVE  AnswersFor(v)' <=> AnswersFor(v)
BY DEF AnswersFor, Holds, Pending, Visible, Terminal

\* A claim takes rows over from workers that let their lease lapse, and gives
\* them to one that has not started on them.
LEMMA ClaimRefines ==
  ASSUME IInv, IInv', NEW w \in Workers, Claim(w)
  PROVE  Queue!Next
<1> DEFINE pick(t) == Lowest({s \in Rows : Claimable(s, t)}, Batch)
<1>0. PICK t \in Reading(w) :
        /\ rows' = [s \in Rows |-> IF s \in pick(t)
                                   THEN [rows[s] EXCEPT !.claimedAt = t] ELSE rows[s]]
        /\ batch' = [batch EXCEPT ![w] = [s \in Rows |-> IF s \in pick(t) THEN t ELSE NONE]]
        /\ pc' = [pc EXCEPT ![w] = IF pick(t) = {} THEN "idle" ELSE "batch"]
  BY DEF Claim
<1> DEFINE P == pick(t)
<1>p. \A s \in P : s \in Rows /\ Pending(s)
  BY DEF Lowest, Claimable
<1>b. /\ \A s \in Rows : batch'[w][s] = IF s \in P THEN t ELSE NONE
      /\ \A v \in Workers : v # w => batch'[v] = batch[v]
  BY <1>0 DEF IInv, TypeOK
<1>c. pc'[w] \in {"idle", "batch"} /\ \A v \in Workers : v # w => pc'[v] = pc[v]
  BY <1>0 DEF IInv, TypeOK
<1> HIDE DEF pick, P
<1>1. t \in Nat
  BY DEF Reading, IInv, TypeOK
<1>2. /\ \A s \in Rows : /\ rows'[s].st = rows[s].st /\ rows'[s].key = rows[s].key
                         /\ rows'[s].completedAt = rows[s].completedAt
                         /\ rows'[s].deadAt = rows[s].deadAt
                         /\ rows'[s].claimedAt = IF s \in P THEN t ELSE rows[s].claimedAt
      /\ UNCHANGED <<cur, verdict, disturbed>>
  BY <1>0 DEF Claim, RowType, P, IInv, TypeOK
<1>3. \A s \in Rows : StatusOf(s)' = StatusOf(s) /\ GroupKey(s)' = GroupKey(s)
  BY <1>2, RowSeenSame
<1>4. \A s \in P : Holds(w, s)'
  BY <1>1, <1>2, <1>b, <1>p DEF Holds, Pending, Visible, Terminal
<1>5. ASSUME NEW v \in Workers, AnswersFor(v)'
      PROVE  AnswersFor(v) /\ cur'[v] = cur[v] /\ pc'[v] = pc[v] /\ verdict'[v] = verdict[v]
  <2>1. v # w /\ InHand(v) /\ InHand(v)'
    BY <1>5, <1>c DEF AnswersFor, InHand
  <2>2. PICK c \in Rows : c = cur[v]
    BY <2>1 DEF IInv, InHandShape
  <2>3. Holds(v, c)' /\ cur'[v] = c
    BY <1>2, <1>5, <2>2 DEF AnswersFor, Holds, Pending, Visible, Terminal
  <2>4. c \notin P
    BY <1>4, <2>1, <2>3 DEF IInv, LeaseExclusive
  <2>5. Holds(v, c)' <=> Holds(v, c)
    BY <1>2, <1>b, <2>1, <2>4 DEF Holds, Pending, Visible, Terminal
  <2>6. AnswersFor(v)' <=> AnswersFor(v)
    BY <2>1, <2>2, <2>3, <2>5, AnswersSame
  <2> QED BY <1>2, <1>5, <1>c, <2>1, <2>6
<1> QED BY <1>2, <1>3, <1>5, OnlyLoses

\* Renewing the lease takes the message: nobody else holds it, before or after.
LEMMA RenewRefines ==
  ASSUME IInv, IInv', NEW w \in Workers, NEW n \in Rows, RenewAndHandle(w, n)
  PROVE  Queue!Next
<1>0. PICK t \in Reading(w) : /\ rows' = [rows EXCEPT ![n].claimedAt = t]
                              /\ batch' = [batch EXCEPT ![w][n] = t]
  BY DEF RenewAndHandle
<1>1. t \in Nat
  BY DEF Reading, IInv, TypeOK
<1>2. /\ \A s \in Rows : /\ rows'[s].st = rows[s].st /\ rows'[s].key = rows[s].key
                         /\ rows'[s].completedAt = rows[s].completedAt
                         /\ rows'[s].deadAt = rows[s].deadAt
                         /\ rows'[s].claimedAt = IF s = n THEN t ELSE rows[s].claimedAt
      /\ batch'[w][n] = t /\ \A v \in Workers : v # w => batch'[v] = batch[v]
  BY <1>0 DEF RowType, IInv, TypeOK
<1>3. /\ pc[w] = "batch" /\ Holds(w, n) /\ pc'[w] = "handling" /\ cur'[w] = n
      /\ \A v \in Workers : v # w => pc'[v] = pc[v] /\ cur'[v] = cur[v]
      /\ UNCHANGED <<verdict, disturbed>>
  BY DEF RenewAndHandle, IInv, TypeOK
<1>4. \A s \in Rows : StatusOf(s)' = StatusOf(s) /\ GroupKey(s)' = GroupKey(s)
  BY <1>2, RowSeenSame
<1>5. Holds(w, n)' /\ Pending(n) /\ Visible(n) /\ rows[n].claimedAt # NONE
  BY <1>1, <1>2, <1>3 DEF Holds, Pending, Visible, Terminal
<1>6. StatusOf(n) = "pending" /\ HandOf(w) = 0 /\ AnswerOf(w) = "none"
  BY <1>3, <1>5, StatusIs DEF IInv, HandOf, AnswerOf, AnswersFor, InHand
<1>7. n # 0
  BY DEF Rows
<1>8. ASSUME NEW v \in Workers, v # w
      PROVE  HandOf(v) # n /\ HandOf(v)' = HandOf(v) /\ AnswerOf(v)' = AnswerOf(v)
  <2>1. ~Holds(v, n) /\ ~Holds(v, n)'
    BY <1>3, <1>5, <1>8 DEF IInv, LeaseExclusive
  <2>2. HandOf(v) # n
    BY <1>7, <2>1 DEF HandOf, AnswersFor
  <2>3. AnswersFor(v)' <=> AnswersFor(v)
    <3>1. InHand(v)' <=> InHand(v)
      BY <1>3, <1>8 DEF InHand
    <3>2. CASE ~InHand(v)
      BY <3>1, <3>2 DEF AnswersFor
    <3>3. CASE InHand(v)
      <4>1. PICK c \in Rows : c = cur[v]
        BY <3>3 DEF IInv, InHandShape
      <4>2. cur'[v] = c
        BY <1>3, <1>8, <4>1
      <4>3. Holds(v, c)' <=> Holds(v, c)
        <5>1. CASE c = n
          BY <2>1, <5>1
        <5>2. CASE c # n
          BY <1>2, <1>8, <5>2 DEF Holds, Pending, Visible, Terminal
        <5> QED BY <5>1, <5>2
      <4> QED BY <3>1, <4>1, <4>2, <4>3, AnswersSame
    <3> QED BY <3>2, <3>3
  <2> QED BY <1>3, <1>8, <2>2, <2>3, HandsSame
<1>9. HandOf(w)' = n /\ AnswerOf(w)' = "none"
  <2>1. InHand(w)' /\ AnswersFor(w)'
    BY <1>3, <1>5 DEF AnswersFor, InHand, Holds, Pending, Visible, Terminal
  <2> QED BY <1>3, <2>1 DEF HandOf, AnswerOf
<1>10. ASSUME NEW b \in Rows, b < n, StatusOf(b) = "pending", GroupKey(b) = GroupKey(n)
       PROVE  b \in disturbed
  <2>1. Pending(b)
    BY <1>10, StatusIs DEF IInv
  <2>2. SameGroup(b, n)
    BY <1>5, <1>10, <2>1 DEF GroupKey, SameGroup, Pending
  <2> QED BY <1>5, <1>10, <2>1, <2>2 DEF IInv, HeadFirst
<1>11. /\ \A v \in Workers : HandOf(v) # n
       /\ \A v \in Workers \ {w} : HandOf(v)' = HandOf(v)
       /\ \A v \in Workers : AnswerOf(v)' = AnswerOf(v)
  BY <1>6, <1>7, <1>8, <1>9
<1> QED BY <1>3, <1>4, <1>6, <1>9, <1>10, <1>11, QueueTake

LEMMA ReturnRefines ==
  ASSUME IInv, NEW w \in Workers, NEW v \in {"ok", "retry", "permanent"}, HandlerReturns(w, v)
  PROVE  Queue!Next
<1>1. /\ pc[w] = "handling" /\ pc'[w] = "record" /\ verdict'[w] = v
      /\ \A u \in Workers : u # w => pc'[u] = pc[u] /\ verdict'[u] = verdict[u]
      /\ UNCHANGED <<rows, batch, cur, disturbed>>
  BY DEF HandlerReturns, IInv, TypeOK, queueVars
<1>2. \A s \in Rows : StatusOf(s)' = StatusOf(s) /\ GroupKey(s)' = GroupKey(s)
  BY <1>1, RowSeenSame
<1>3. ASSUME NEW u \in Workers PROVE AnswersFor(u)' <=> AnswersFor(u)
  <2>1. InHand(u)' <=> InHand(u)
    BY <1>1 DEF InHand
  <2> QED BY <1>1, <2>1 DEF AnswersFor, Holds, Pending, Visible, Terminal
<1>4. \A u \in Workers \ {w} : HandOf(u)' = HandOf(u) /\ AnswerOf(u)' = AnswerOf(u)
  BY <1>1, <1>3, HandsSame
<1>5. HandOf(w)' = HandOf(w) /\ AnswerOf(w) = "none"
  BY <1>1, <1>3 DEF HandOf, AnswerOf
<1>6. CASE AnswersFor(w)
  <2>1. HandOf(w) # 0 /\ AnswerOf(w)' = v
    <3>1. cur[w] \in Rows
      BY <1>6 DEF IInv, InHandShape, AnswersFor
    <3> QED BY <1>1, <1>3, <1>6, <3>1 DEF HandOf, AnswerOf, Rows
  <2> QED BY <1>1, <1>2, <1>4, <1>5, <2>1, QueueAnswer
<1>7. CASE ~AnswersFor(w)
  <2>1. \A u \in Workers : AnswersFor(u)' => /\ AnswersFor(u) /\ cur'[u] = cur[u]
                                             /\ pc'[u] = pc[u] /\ verdict'[u] = verdict[u]
    BY <1>1, <1>3, <1>7
  <2> QED BY <1>1, <1>2, <2>1, OnlyLoses
<1> QED BY <1>6, <1>7

\* What the statements of an outcome leave in the row.
LEMMA CompletedRow ==
  ASSUME NEW r \in RowType, NEW t \in Nat, NEW x, x = Completed(r, t)
  PROVE  x.st = r.st /\ x.key = r.key /\ x.claimedAt = NONE /\ x.completedAt # NONE
BY DEF Completed, RowType

LEMMA FailedRow ==
  ASSUME NEW r \in RowType, NEW t \in Nat, NEW backoff \in Nat, NEW v \in {"retry", "permanent"},
         NEW x, x = Failed(r, t, v, backoff)
  PROVE  /\ x.st = r.st /\ x.key = r.key /\ x.claimedAt = NONE /\ x.completedAt = r.completedAt
         /\ v = "permanent" => x.deadAt # NONE
<1>0. PICK u \in Nat : u = t + backoff
  OBVIOUS
<1>1. CASE r.attempts + 1 >= Cap(v)
  <2>1. x = [r EXCEPT !.attempts = @ + 1, !.claimedAt = NONE, !.deadAt = t]
    BY <1>1, Zenon DEF Failed
  <2> QED BY <2>1 DEF RowType
<1>2. CASE ~(r.attempts + 1 >= Cap(v))
  <2>1. x = [r EXCEPT !.attempts = @ + 1, !.claimedAt = NONE, !.nextAttempt = u]
    BY <1>0, <1>2, Zenon DEF Failed
  <2>2. v # "permanent"
    BY <1>2 DEF Cap, RowType
  <2> QED BY <2>1, <2>2 DEF RowType
<1> QED BY <1>1, <1>2

\* The fenced statement settles the message that is in hand; one that lost its
\* lease writes nothing.
LEMMA RecordRefines ==
  ASSUME IInv, IInv', Spoken, NEW w \in Workers, RecordOutcome(w)
  PROVE  Queue!Next
<1>0. PICK n \in Rows : n = cur[w] /\ batch[w][n] # NONE
  BY DEF RecordOutcome, IInv, InHandShape, InHand
<1>1. PICK t \in Reading(w), backoff \in Backoffs :
        rows' = IF ~Holds(w, n) THEN rows
                ELSE [rows EXCEPT ![n] = IF verdict[w] = "ok" THEN Completed(@, t)
                                         ELSE Failed(@, t, verdict[w], backoff)]
  BY <1>0 DEF RecordOutcome
<1>2. /\ pc[w] = "record" /\ pc'[w] \in {"idle", "batch"} /\ cur'[w] = 0
      /\ \A v \in Workers : v # w => /\ pc'[v] = pc[v] /\ cur'[v] = cur[v]
                                     /\ verdict'[v] = verdict[v] /\ batch'[v] = batch[v]
      /\ UNCHANGED disturbed
  BY DEF RecordOutcome, AfterMessage, IInv, TypeOK
<1>3. ~InHand(w)' /\ \A v \in Workers : v # w => (InHand(v)' <=> InHand(v))
  BY <1>2 DEF InHand
<1>4. CASE ~Holds(w, n)
  <2>1. UNCHANGED rows
    BY <1>1, <1>4
  <2> QED BY <1>2, <1>3, <2>1, QuietStep
<1>5. CASE Holds(w, n)
  <2>1. InHand(w) /\ AnswersFor(w)
    BY <1>0, <1>2, <1>5 DEF InHand, AnswersFor
  <2>2. PICK v \in {"ok", "retry", "permanent"} : v = verdict[w]
    BY <1>2 DEF IInv, TypeOK, Spoken
  <2>3. HandOf(w) = n /\ AnswerOf(w) = v /\ n # 0
    BY <1>0, <1>2, <2>1, <2>2 DEF HandOf, AnswerOf, Rows
  <2>4. PICK r \in RowType : r = rows[n]
    BY DEF IInv, TypeOK
  <2>5. Pending(n) /\ r.st = "committed" /\ r.completedAt = NONE /\ r.deadAt = NONE
    BY <1>5, <2>4 DEF Holds, Pending, Visible, Terminal
  <2>6. t \in Nat /\ backoff \in Nat
    BY BoundsAssumption DEF Reading, IInv, TypeOK
  <2>x. PICK x : x = rows'[n]
    OBVIOUS
  <2>7. /\ x = IF v = "ok" THEN Completed(r, t) ELSE Failed(r, t, v, backoff)
        /\ \A s \in Rows : s # n => rows'[s] = rows[s]
    BY <1>1, <1>5, <2>2, <2>4, <2>x DEF IInv, TypeOK
  <2>9. /\ x.st = r.st /\ x.key = r.key /\ x.claimedAt = NONE
        /\ v = "ok" => x.completedAt # NONE
        /\ v # "ok" => x.completedAt = NONE
        /\ v = "permanent" => x.deadAt # NONE
    <3>1. CASE v = "ok"
      <4>1. x = Completed(r, t)
        BY <2>7, <3>1
      <4> QED BY <2>6, <3>1, <4>1, CompletedRow
    <3>2. CASE v # "ok"
      <4>1. x = Failed(r, t, v, backoff) /\ v \in {"retry", "permanent"}
        BY <2>7, <3>2
      <4> QED BY <2>5, <2>6, <3>2, <4>1, FailedRow
    <3> QED BY <3>1, <3>2
  <2>10. StatusOf(n)' \in Queue!Outcomes(v)
    <3>1. Visible(n)'
      BY <2>5, <2>7, <2>x, <2>9 DEF Visible
    <3>2. CASE v = "ok"
      <4>1. StatusOf(n)' = "done"
        BY <2>7, <2>x, <2>9, <3>1, <3>2, StatusIsNext DEF IInv
      <4> QED BY <3>2, <4>1 DEF Queue!Outcomes
    <3>3. CASE v = "permanent"
      <4>1. StatusOf(n)' = "dead"
        BY <2>7, <2>x, <2>9, <3>1, <3>3, StatusIsNext DEF IInv
      <4> QED BY <3>3, <4>1 DEF Queue!Outcomes
    <3>4. CASE v = "retry"
      <4>1. rows'[n].deadAt = NONE => Pending(n)'
        BY <2>7, <2>x, <2>9, <3>1, <3>4 DEF Pending, Terminal
      <4>2. StatusOf(n)' \in {"pending", "dead"}
        BY <2>7, <2>x, <2>9, <3>1, <3>4, <4>1, StatusIsNext DEF IInv
      <4> QED BY <3>4, <4>2 DEF Queue!Outcomes
    <3> QED BY <3>2, <3>3, <3>4
  <2>11. \A s \in Rows \ {n} : StatusOf(s)' = StatusOf(s) /\ GroupKey(s)' = GroupKey(s)
    BY <2>7, <2>x, RowSeenSame
  <2>12. GroupKey(n)' = GroupKey(n)
    BY <2>4, <2>7, <2>x, <2>9 DEF GroupKey, Visible
  <2>13. HandOf(w)' = 0 /\ AnswerOf(w)' = "none"
    BY <1>3 DEF HandOf, AnswerOf, AnswersFor
  <2>14. ASSUME NEW u \in Workers, u # w
         PROVE  HandOf(u)' = HandOf(u) /\ AnswerOf(u)' = AnswerOf(u)
    <3>1. ~Holds(u, n) /\ ~Holds(u, n)'
      BY <1>5, <2>7, <2>x, <2>9, <2>14 DEF IInv, LeaseExclusive, Holds
    <3>2. AnswersFor(u)' <=> AnswersFor(u)
      <4>1. InHand(u)' <=> InHand(u)
        BY <1>3, <2>14
      <4>2. CASE ~InHand(u)
        BY <4>1, <4>2 DEF AnswersFor
      <4>3. CASE InHand(u)
        <5>1. PICK c \in Rows : c = cur[u]
          BY <4>3 DEF IInv, InHandShape
        <5>2. cur'[u] = c
          BY <1>2, <2>14, <5>1
        <5>3. Holds(u, c)' <=> Holds(u, c)
          <6>1. CASE c = n
            BY <3>1, <6>1
          <6>2. CASE c # n
            BY <1>2, <2>7, <2>x, <2>14, <6>2 DEF Holds, Pending, Visible, Terminal
          <6> QED BY <6>1, <6>2
        <5> QED BY <4>1, <5>1, <5>2, <5>3, AnswersSame
      <4> QED BY <4>2, <4>3
    <3> QED BY <1>2, <2>14, <3>2, HandsSame
  <2> QED BY <1>2, <2>3, <2>10, <2>11, <2>12, <2>13, <2>14, QueueSettle
<1> QED BY <1>4, <1>5

LEMMA ReviveRefines ==
  ASSUME IInv, IInv', NEW S \in SUBSET Rows, Revive(S)
  PROVE  Queue!Next
<1>0. rows \in [Rows -> RowType]
  BY DEF IInv, TypeOK
<1>1. /\ UNCHANGED workerVars /\ disturbed' = disturbed \cup S
      /\ \A s \in S : Visible(s) /\ rows[s].deadAt # NONE
  BY Zenon DEF Revive
<1>2. \A s \in Rows : s \notin S => rows'[s] = rows[s]
  BY Zenon DEF Revive
<1>3. \A s \in S : /\ rows'[s].st = rows[s].st /\ rows'[s].key = rows[s].key
                   /\ rows'[s].claimedAt = rows[s].claimedAt
                   /\ rows'[s].completedAt = rows[s].completedAt
                   /\ rows'[s].deadAt = NONE
  BY <1>0, ZenonT(30) DEF Revive, RowType
<1>4. \A s \in S : rows[s].claimedAt = NONE /\ rows[s].completedAt = NONE
  BY <1>1 DEF IInv, RowShape, EndsOnce, Terminal
<1>5. \A s \in S : StatusOf(s) = "dead"
  BY <1>1, <1>4, StatusIs DEF IInv
<1>6. \A s \in S : StatusOf(s)' = "pending"
  <2>1. \A s \in S : Pending(s)'
    BY <1>1, <1>3, <1>4 DEF Pending, Visible, Terminal
  <2> QED BY <2>1, StatusIsNext DEF IInv
<1>7. \A s \in Rows \ S : StatusOf(s)' = StatusOf(s) /\ GroupKey(s)' = GroupKey(s)
  BY <1>2, RowSeenSame
<1>8. \A s \in S : GroupKey(s)' = GroupKey(s)
  BY <1>3 DEF GroupKey, Visible
<1>9. \A w \in Workers : HandOf(w)' = HandOf(w) /\ AnswerOf(w)' = AnswerOf(w)
  <2>1. ASSUME NEW w \in Workers, NEW s \in S PROVE ~Holds(w, s) /\ ~Holds(w, s)'
    BY <1>3, <1>4 DEF Holds
  <2> QED BY <1>1, <1>2, <2>1, HandsLeftAlone
<1> QED BY <1>1, <1>5, <1>6, <1>7, <1>8, <1>9, QueueReplay

\* A sweep's DELETE removes the rows of its pick that are still there.
LEMMA DeleteRefines ==
  ASSUME IInv, TypeOK', NEW S \in SUBSET Rows, Delete(S), UNCHANGED <<workerVars, disturbed>>,
         \A s \in S : rows[s].st \in {"committed", "gone"} /\ (Pending(s) => s \in disturbed)
  PROVE  Queue!Next
<1> DEFINE M == {s \in S : rows[s].st = "committed"}
<1>1. /\ \A s \in S : rows'[s].st = "gone" /\ \A w \in Workers : ~Holds(w, s)'
      /\ \A s \in Rows : s \notin S => rows'[s] = rows[s]
  BY DEF Delete, Blank, Holds, Pending, Visible
<1>2. ASSUME NEW s \in M
      PROVE  /\ \/ StatusOf(s) \in {"done", "dead"}
                \/ StatusOf(s) = "pending" /\ s \in disturbed
             /\ StatusOf(s)' = "removed" /\ GroupKey(s)' = {}
  <2>1. s \in Rows /\ s \in S /\ Visible(s)
    BY DEF Visible
  <2>2. StatusOf(s)' = "removed" /\ GroupKey(s)' = {}
    BY <1>1, <2>1, StatusIsNext DEF GroupKey, Visible
  <2>3. CASE Pending(s)
    BY <2>1, <2>2, <2>3, StatusIs DEF IInv
  <2>4. CASE ~Pending(s)
    BY <2>1, <2>2, <2>4, StatusIs DEF IInv, Pending, Terminal
  <2> QED BY <2>3, <2>4
<1>3. ASSUME NEW s \in Rows \ M
      PROVE  StatusOf(s)' = StatusOf(s) /\ GroupKey(s)' = GroupKey(s)
  <2>1. CASE s \in S
    <3>1. rows[s].st = "gone" /\ rows'[s].st = "gone"
      BY <1>1, <2>1
    <3> QED BY <3>1, StatusIs, StatusIsNext DEF IInv, GroupKey, Visible
  <2>2. CASE s \notin S
    BY <1>1, <2>2, RowSeenSame
  <2> QED BY <2>1, <2>2
<1>4. ASSUME NEW w \in Workers
      PROVE  IF HandOf(w) \in M THEN HandOf(w)' = 0 /\ AnswerOf(w)' = "none"
             ELSE HandOf(w)' = HandOf(w) /\ AnswerOf(w)' = AnswerOf(w)
  <2>1. UNCHANGED <<pc, batch, cur, verdict>>
    BY DEF workerVars
  <2>2. InHand(w)' <=> InHand(w)
    BY <2>1 DEF InHand
  <2>3. CASE HandOf(w) \in M
    <3>1. HandOf(w) \in Rows
      BY <2>3
    <3>0. 0 \notin Rows
      BY BoundsAssumption DEF Rows
    <3>2. AnswersFor(w) /\ cur[w] \in S
      BY <2>3, <3>0, <3>1 DEF HandOf
    <3>3. PICK c \in S : c = cur[w]
      BY <3>2
    <3>4. ~AnswersFor(w)'
      BY <1>1, <2>1, <3>3 DEF AnswersFor, Holds, Pending, Visible, Terminal
    <3> QED BY <2>3, <3>4 DEF HandOf, AnswerOf
  <2>4. CASE HandOf(w) \notin M
    <3>1. AnswersFor(w)' <=> AnswersFor(w)
      <4>1. CASE ~InHand(w)
        BY <2>2, <4>1 DEF AnswersFor
      <4>2. CASE InHand(w)
        <5>1. PICK c \in Rows : c = cur[w]
          BY <4>2 DEF IInv, InHandShape
        <5>2. cur'[w] = c
          BY <2>1, <5>1
        <5>3. Holds(w, c)' <=> Holds(w, c)
          <6>1. CASE c \in S
            <7>1. ~Holds(w, c)
              BY <2>4, <4>2, <5>1, <6>1 DEF HandOf, AnswersFor, Holds, Pending, Visible
            <7> QED BY <1>1, <6>1, <7>1
          <6>2. CASE c \notin S
            BY <1>1, <2>1, <6>2 DEF Holds, Pending, Visible, Terminal
          <6> QED BY <6>1, <6>2
        <5> QED BY <2>2, <5>1, <5>2, <5>3, AnswersSame
      <4> QED BY <4>1, <4>2
    <3> QED BY <2>1, <2>4, <3>1, HandsSame
  <2> QED BY <2>3, <2>4
<1>5. M \in SUBSET Rows /\ UNCHANGED disturbed
  OBVIOUS
<1> HIDE DEF M
<1> QED BY <1>2, <1>3, <1>4, <1>5, QueueRemove

LEMMA WorkingRefines ==
  ASSUME IInv, IInv', Spoken, NEW w \in Workers, Working(w)
  PROVE  Queue!Next
<1> USE DEF IInv, TypeOK
<1>1. ASSUME BeginPass(w) \/ WorkerExits(w) PROVE Queue!Next
  <2>1. /\ UNCHANGED <<rows, disturbed, batch, cur, verdict>>
        /\ \A v \in Workers : InHand(v)' => InHand(v) /\ pc'[v] = pc[v]
    BY <1>1 DEF BeginPass, WorkerExits, queueVars, InHand
  <2> QED BY <2>1, QuietStep
<1>2. CASE StopBetweenMessages(w)
  <2>1. /\ UNCHANGED <<rows, disturbed>> /\ ~InHand(w)'
        /\ \A v \in Workers : v # w => /\ pc'[v] = pc[v] /\ cur'[v] = cur[v]
                                       /\ verdict'[v] = verdict[v] /\ batch'[v] = batch[v]
    BY <1>2 DEF StopBetweenMessages, LeavePass, queueVars, InHand
  <2> QED BY <2>1, QuietStep DEF InHand
<1>3. ASSUME NEW s \in Rows, SkipLostLease(w, s) PROVE Queue!Next
  <2>1. /\ UNCHANGED <<rows, disturbed, cur, verdict>> /\ ~InHand(w)'
        /\ \A v \in Workers : v # w => pc'[v] = pc[v] /\ batch'[v] = batch[v]
    BY <1>3 DEF SkipLostLease, AfterMessage, queueVars, InHand
  <2> QED BY <2>1, QuietStep DEF InHand
<1>4. ASSUME NEW s \in Rows, RenewAndHandle(w, s) PROVE Queue!Next
  BY <1>4, RenewRefines
<1>5. ASSUME NEW v \in {"ok", "retry", "permanent"}, HandlerReturns(w, v) PROVE Queue!Next
  BY <1>5, ReturnRefines
<1> QED BY <1>1, <1>2, <1>3, <1>4, <1>5, ClaimRefines, RecordRefines DEF Working

LEMMA OperatingRefines ==
  ASSUME IInv, IInv', Operating
  PROVE  Queue!Next
<1>1. ASSUME NEW p \in Pools, CrashReplica(p) \/ StartReplica(p) PROVE Queue!Next
  <2>1. /\ UNCHANGED <<rows, disturbed>>
        /\ \A v \in Workers : \/ ~InHand(v)'
                              \/ /\ pc'[v] = pc[v] /\ cur'[v] = cur[v]
                                 /\ verdict'[v] = verdict[v] /\ batch'[v] = batch[v]
    BY <1>1 DEF CrashReplica, StartReplica, ResetReplica, queueVars, InHand
  <2> QED BY <2>1, QuietStep DEF InHand
<1>2. ASSUME NEW w \in Workers, StoreErrorEndsPass(w) PROVE Queue!Next
  <2>1. /\ UNCHANGED <<rows, disturbed>> /\ ~InHand(w)'
        /\ \A v \in Workers : v # w => /\ pc'[v] = pc[v] /\ cur'[v] = cur[v]
                                       /\ verdict'[v] = verdict[v] /\ batch'[v] = batch[v]
    BY <1>2 DEF StoreErrorEndsPass, LeavePass, queueVars, InHand, IInv, TypeOK
  <2> QED BY <2>1, QuietStep DEF InHand
<1>3. ASSUME UNCHANGED <<rows, disturbed, workerVars>> PROVE Queue!Next
  BY <1>3, QuietStep DEF workerVars, InHand
<1>4. ASSUME NEW S \in SUBSET Rows, Revive(S) PROVE Queue!Next
  BY <1>4, ReviveRefines
<1> QED BY <1>1, <1>2, <1>3, <1>4, Zenon DEF Operating, Shutdown, Suspend, Resume, queueVars

LEMMA SweepingRefines ==
  ASSUME IInv, IInv', Sweeping
  PROVE  Queue!Next
<1>1. ASSUME UNCHANGED <<rows, disturbed, workerVars>> PROVE Queue!Next
  BY <1>1, QuietStep DEF workerVars, InHand
<1>2. CASE ReapCompleted
  <2>1. PICK S : S = Lowest(CompletedOlderThan(sweep.at - CompletedRetention), ReapBatch)
    OBVIOUS
  <2>2. S \in SUBSET Rows /\ \A s \in S : rows[s].st = "committed" /\ ~Pending(s)
    BY <2>1 DEF Lowest, CompletedOlderThan, Visible, Pending, Terminal
  <2>3. Delete(S) /\ UNCHANGED <<workerVars, disturbed>>
    BY <1>2, <2>1 DEF ReapCompleted
  <2> QED BY <2>2, <2>3, DeleteRefines DEF IInv
<1>3. CASE ReapDeadDelete
  <2>1. PICK S : S = sweep.picked
    OBVIOUS
  <2>2. S \in SUBSET Rows
    BY <2>1 DEF IInv, TypeOK
  <2>3. \A s \in S : rows[s].st \in {"committed", "gone"} /\ (Pending(s) => s \in disturbed)
    BY <2>1 DEF IInv, PickedShape
  <2>4. Delete(S) /\ UNCHANGED <<workerVars, disturbed>>
    BY <1>3, <2>1 DEF ReapDeadDelete
  <2> QED BY <2>2, <2>3, <2>4, DeleteRefines DEF IInv
<1> QED BY <1>1, <1>2, <1>3, Zenon
      DEF Sweeping, SweepBegin, ReapDeadSelect, SweepAbandoned, queueVars

LEMMA StepRefines ==
  ASSUME IInv, IInv', Spoken, [Next]_vars
  PROVE  Queue!Next
<1>1. CASE Producing
  BY <1>1, EnqueueRefines, CommitRefines, RollbackRefines DEF Producing, IInv
<1>2. CASE Tick \/ UNCHANGED vars
  <2>1. UNCHANGED <<rows, disturbed, pc, batch, cur, verdict>>
    BY <1>2 DEF Tick, vars, queueVars, workerVars
  <2> QED BY <2>1, QuietStep DEF InHand
<1> QED BY <1>1, <1>2, WorkingRefines, OperatingRefines, SweepingRefines DEF Next

LEMMA InitRefines == Init => Queue!Init
<1> SUFFICES ASSUME Init PROVE Queue!Init
  OBVIOUS
<1>1. \A s \in Rows : rows[s].st = "unused"
  BY DEF Init, Blank
<1>2. \A w \in Workers : ~AnswersFor(w)
  BY DEF Init, AnswersFor, InHand
<1>3. \A s \in Rows : StatusOf(s) = "unborn" /\ ~Visible(s)
  BY <1>1 DEF StatusOf, Visible
<1> QED BY <1>2, <1>3 DEF Init, Queue!Init, Queue!Messages, Rows

\* The outbox implements the delivery queue: with leases, batches, clocks, crashes,
\* store errors and sweeps, every step of the statements a worker, a producer, an
\* operator or the sweeper runs is one step of DeliveryQueue, so every message is in
\* at most one worker's hands, in its group's order, and only those hands end it.
THEOREM ImplementsQueue == Spec => QueueSpec
<1>1. Init => Spoken
  BY DEF Init, Spoken
<1>2. IInv /\ Spoken /\ [Next]_vars => Spoken'
  BY SpokenStep DEF IInv
<1>3. Spec => []Spoken
  BY <1>1, <1>2, Invariant, PTL DEF Spec
<1>4. IInv /\ IInv' /\ Spoken /\ [Next]_vars
        => Queue!Next
  BY StepRefines
<1>5. Spec => Queue!Init /\ [][Queue!Next]_Queue!vars
  BY <1>3, <1>4, InitRefines, Invariant, PTL DEF Spec
<1> QED BY <1>5 DEF QueueSpec, Queue!Spec

-----------------------------------------------------------------------------
(* A suspension stops the drain.                                           *)

\* ORDER BY sequence LIMIT n returns at most n rows: their ranks are different.
LEMMA LowestBound ==
  ASSUME NEW S \in SUBSET Nat, IsFiniteSet(S), NEW n \in Nat
  PROVE  IsFiniteSet(Lowest(S, n)) /\ Cardinality(Lowest(S, n)) <= n
<1> DEFINE Below(s) == {b \in S : b < s}
           L == Lowest(S, n)
           rank == [s \in L |-> Cardinality(Below(s))]
<1>1. ASSUME NEW s \in S PROVE IsFiniteSet(Below(s)) /\ Cardinality(Below(s)) \in Nat
  <2>1. Below(s) \in SUBSET S
    OBVIOUS
  <2> QED BY <2>1, FS_Subset, FS_CardinalityType
<1>2. L \subseteq S /\ \A s \in L : Cardinality(Below(s)) < n
  BY DEF Lowest
<1>3. ASSUME NEW a \in S, NEW b \in S, a < b
      PROVE  Cardinality(Below(a)) < Cardinality(Below(b))
  <2>0. a \in Nat /\ b \in Nat /\ \A x \in S : x \in Nat /\ (x < a => x < b)
    BY <1>3
  <2>1. Below(a) \in SUBSET Below(b) /\ a \in Below(b) /\ a \notin Below(a)
    <3>1. \A x \in Below(a) : x \in Below(b)
      BY <2>0
    <3>2. a \in Below(b)
      BY <1>3
    <3>3. ~(a < a)
      BY <2>0
    <3>4. a \notin Below(a)
      BY <3>3
    <3> QED BY <3>1, <3>2, <3>4
  <2>2. IsFiniteSet(Below(b)) /\ Cardinality(Below(a)) \in Nat /\ Cardinality(Below(b)) \in Nat
    BY <1>1
  <2> HIDE DEF Below
  <2>3. Cardinality(Below(a)) <= Cardinality(Below(b)) /\ Cardinality(Below(b)) # Cardinality(Below(a))
    BY <2>1, <2>2, FS_Subset
  <2> QED BY <2>2, <2>3
<1> HIDE DEF Below, L
<1>4. \A s \in L : rank[s] = Cardinality(Below(s)) /\ rank[s] \in 0 .. n - 1
  BY <1>1, <1>2
<1>5. rank \in [L -> 0 .. n - 1]
  BY <1>4
<1>6. ASSUME NEW a \in L, NEW b \in L, rank[a] = rank[b] PROVE a = b
  <2>1. a \in Nat /\ b \in Nat
    BY <1>2
  <2>2. ~(a < b) /\ ~(b < a)
    BY <1>1, <1>2, <1>3, <1>4, <1>6
  <2> QED BY <2>1, <2>2
<1>7. rank \in Injection(L, 0 .. n - 1)
  BY <1>5, <1>6 DEF Injection, IsInjective
<1> HIDE DEF rank
<1>8. IsFiniteSet(0 .. n - 1) /\ Cardinality(0 .. n - 1) = n
  BY FS_Interval
<1> QED BY <1>7, <1>8, FS_Injection DEF L

LEMMA BatchFinite ==
  ASSUME NEW B \in SUBSET Rows, NEW c
  PROVE  /\ IsFiniteSet(B) /\ Cardinality(B) \in Nat /\ Cardinality(B \ {c}) \in Nat
         /\ Cardinality(B \ {c}) = IF c \in B THEN Cardinality(B) - 1 ELSE Cardinality(B)
<1>1. IsFiniteSet(Rows)
  BY BoundsAssumption, FS_Interval DEF Rows
<1> QED BY <1>1, FS_Subset, FS_CardinalityType, FS_RemoveElement

\* What a worker may still start, by where it is.
LEMMA StartsLeftIs ==
  ASSUME TypeOK, NEW w \in Workers
  PROVE  /\ StartsLeft(w) \in Nat
         /\ InHand(w) => StartsLeft(w) = Cardinality(InBatch(w) \ {cur[w]})
         /\ pc[w] = "batch" => StartsLeft(w) = Cardinality(InBatch(w))
         /\ pc[w] = "checked" => StartsLeft(w) = Batch
         /\ pc[w] \in {"idle", "stopped"} => StartsLeft(w) = 0
<1>1. Cardinality(InBatch(w)) \in Nat /\ Cardinality(InBatch(w) \ {cur[w]}) \in Nat
  <2>1. InBatch(w) \in SUBSET Rows
    BY DEF InBatch
  <2> QED BY <2>1, BatchFinite
<1> QED BY <1>1, BoundsAssumption DEF StartsLeft, InHand, TypeOK

LEMMA StartsLeftIsNext ==
  ASSUME TypeOK', NEW w \in Workers
  PROVE  /\ StartsLeft(w)' \in Nat
         /\ InHand(w)' => StartsLeft(w)' = Cardinality(InBatch(w)' \ {cur'[w]})
         /\ pc'[w] = "batch" => StartsLeft(w)' = Cardinality(InBatch(w)')
         /\ pc'[w] = "checked" => StartsLeft(w)' = Batch
         /\ pc'[w] \in {"idle", "stopped"} => StartsLeft(w)' = 0
<1>1. Cardinality(InBatch(w)') \in Nat /\ Cardinality(InBatch(w)' \ {cur'[w]}) \in Nat
  <2>1. InBatch(w)' \in SUBSET Rows
    BY DEF InBatch
  <2> QED BY <2>1, BatchFinite
<1> QED BY <1>1, BoundsAssumption DEF StartsLeft, InHand, TypeOK

LEMMA SlotsFinite ==
  ASSUME NEW T \in SUBSET (Workers \X (1 .. Batch))
  PROVE  /\ IsFiniteSet(T) /\ Cardinality(T) \in Nat
         /\ Cardinality(T) <= Cardinality(Workers) * Batch
         /\ Cardinality(Workers) * Batch \in Nat
<1>1. IsFiniteSet(1 .. Batch) /\ Cardinality(1 .. Batch) = Batch /\ Batch \in Nat
  BY BoundsAssumption, FS_Interval
<1>2. /\ IsFiniteSet(Workers \X (1 .. Batch))
      /\ Cardinality(Workers \X (1 .. Batch)) = Cardinality(Workers) * Batch
  BY <1>1, PoolAssumption, FS_Product
<1>3. Cardinality(Workers \X (1 .. Batch)) \in Nat
  BY <1>2, FS_CardinalityType
<1> QED BY <1>2, <1>3, FS_Subset, FS_CardinalityType

\* In a step that gives no worker more to start, the promise is kept.
LEMMA SlotsShrink ==
  ASSUME TypeOK, TypeOK', DrainShape, fenced' => fenced,
         \A w \in Workers : StartsLeft(w)' <= StartsLeft(w),
         NEW d \in {0, 1}, fencedStarts' = fencedStarts + d,
         d = 1 => \E w \in Workers : /\ StartsLeft(w)' < StartsLeft(w)
                                     /\ StartsLeft(w) <= Batch
  PROVE  fenced' => fencedStarts' + Cardinality(Slots)' <= Cardinality(Workers) * Batch
<1> SUFFICES ASSUME fenced' PROVE fencedStarts' + Cardinality(Slots)' <= Cardinality(Workers) * Batch
  OBVIOUS
<1>1. PICK T : T = Slots
  OBVIOUS
<1>2. PICK U : U = Slots'
  OBVIOUS
<1>3. T \in SUBSET (Workers \X (1 .. Batch)) /\ U \in SUBSET (Workers \X (1 .. Batch))
  BY <1>1, <1>2 DEF Slots
<1>4. \A w \in Workers : StartsLeft(w) \in Nat /\ StartsLeft(w)' \in Nat
  BY StartsLeftIs, StartsLeftIsNext
<1>5. U \in SUBSET T
  <2>1. ASSUME NEW p \in U PROVE p \in T
    <3>1. PICK w \in Workers, i \in 1 .. Batch : p = <<w, i>>
      BY <1>3
    <3>2. i <= StartsLeft(w)'
      BY <1>2, <2>1, <3>1 DEF Slots
    <3>3. i <= StartsLeft(w)
      BY <1>4, <3>1, <3>2
    <3> QED BY <1>1, <3>1, <3>3 DEF Slots
  <2> QED BY <2>1
<1>6. fencedStarts + Cardinality(T) <= Cardinality(Workers) * Batch
  BY <1>1 DEF DrainShape
<1>7. /\ fencedStarts \in Nat /\ Cardinality(T) \in Nat /\ Cardinality(U) \in Nat
      /\ Cardinality(Workers) * Batch \in Nat /\ IsFiniteSet(T)
  BY <1>3, SlotsFinite DEF TypeOK
<1>8. Cardinality(U) <= Cardinality(T)
  BY <1>5, <1>7, FS_Subset
<1>9. CASE d = 0
  BY <1>2, <1>6, <1>7, <1>8, <1>9
<1>10. CASE d = 1
  <2>1. PICK w \in Workers : StartsLeft(w)' < StartsLeft(w) /\ StartsLeft(w) <= Batch
    BY <1>10
  <2>2. PICK i \in 1 .. Batch : i = StartsLeft(w)
    BY <1>4, <2>1, BoundsAssumption
  <2>3. <<w, i>> \in T
    BY <1>1, <2>2 DEF Slots
  <2>4. <<w, i>> \notin U
    <3>1. ~(i <= StartsLeft(w)')
      BY <1>4, <2>1, <2>2
    <3> QED BY <1>2, <3>1 DEF Slots
  <2>5. Cardinality(U) # Cardinality(T)
    BY <1>5, <1>7, <2>3, <2>4, FS_Subset
  <2> QED BY <1>2, <1>6, <1>7, <1>8, <1>10, <2>5
<1> QED BY <1>9, <1>10

LEMMA StartsLeftSame ==
  ASSUME NEW v, pc'[v] = pc[v], cur'[v] = cur[v], batch'[v] = batch[v]
  PROVE  InBatch(v)' = InBatch(v) /\ StartsLeft(v)' = StartsLeft(v)
<1>1. InBatch(v)' = InBatch(v)
  BY DEF InBatch
<1> QED BY <1>1 DEF StartsLeft, InHand

LEMMA EmptyBatch ==
  ASSUME NEW B, B = {}
  PROVE  Cardinality(B) = 0 /\ Cardinality(B) <= Batch
<1>1. Cardinality(B) = 0
  BY FS_EmptySet
<1> QED BY <1>1, BoundsAssumption

LEMMA DrainFrom ==
  ASSUME TypeOK, TypeOK', DrainShape, SuspensionStopsDrain, fenced' => fenced,
         BatchFits', \A w \in Workers : StartsLeft(w)' <= StartsLeft(w),
         NEW d \in {0, 1}, fencedStarts' = fencedStarts + d,
         d = 1 => fenced' /\ \E w \in Workers : /\ StartsLeft(w)' < StartsLeft(w)
                                                /\ StartsLeft(w) <= Batch
  PROVE  DrainShape' /\ SuspensionStopsDrain'
<1>1. fenced' => fencedStarts' + Cardinality(Slots)' <= Cardinality(Workers) * Batch
  BY SlotsShrink
<1>2. DrainShape'
  BY <1>1 DEF DrainShape
<1>3. PICK U : U = Slots'
  OBVIOUS
<1>4. /\ Cardinality(U) \in Nat /\ fencedStarts \in Nat /\ fencedStarts' \in Nat
      /\ Cardinality(Workers) * Batch \in Nat
  <2>1. U \in SUBSET (Workers \X (1 .. Batch))
    BY <1>3 DEF Slots
  <2> QED BY <2>1, SlotsFinite DEF TypeOK
<1>5. PICK q \in Nat : q = Cardinality(Workers) * Batch
  BY <1>4
<1>6. (fenced' => fencedStarts' + Cardinality(U) <= q) /\ fencedStarts <= q
  BY <1>1, <1>3, <1>5 DEF SuspensionStopsDrain
<1>7. ~fenced' => d = 0
  OBVIOUS
<1>8. fencedStarts' <= q
  BY <1>4, <1>6, <1>7
<1> QED BY <1>2, <1>5, <1>8 DEF SuspensionStopsDrain

\* A worker that drops rows of its batch, or leaves it, has less to start.
LEMMA DrainWorker ==
  ASSUME TypeOK, TypeOK', DrainShape, SuspensionStopsDrain, UNCHANGED <<fenced, fencedStarts>>,
         NEW w \in Workers,
         \A v \in Workers : v # w => pc'[v] = pc[v] /\ cur'[v] = cur[v] /\ batch'[v] = batch[v],
         NEW B, B = InBatch(w)', Cardinality(B) <= Batch, StartsLeft(w)' <= StartsLeft(w)
  PROVE  DrainShape' /\ SuspensionStopsDrain'
<1>0. BatchFits
  BY DEF DrainShape
<1>1. \A v \in Workers : v # w => InBatch(v)' = InBatch(v) /\ StartsLeft(v)' = StartsLeft(v)
  BY StartsLeftSame
<1>2. BatchFits'
  BY <1>0, <1>1 DEF BatchFits
<1>3. \A v \in Workers : StartsLeft(v) \in Nat
  BY StartsLeftIs
<1>4. \A v \in Workers : StartsLeft(v)' <= StartsLeft(v)
  BY <1>1, <1>3
<1>5. fencedStarts' = fencedStarts + 0
  BY DEF TypeOK
<1> QED BY <1>2, <1>4, <1>5, DrainFrom

LEMMA DrainStep ==
  ASSUME IInv, IInv', DrainShape, SuspensionStopsDrain, [Next]_vars
  PROVE  DrainShape' /\ SuspensionStopsDrain'
<1>0. TypeOK /\ TypeOK'
  BY DEF IInv
<1>f. BatchFits
  BY DEF DrainShape
<1>n. \A v \in Workers : StartsLeft(v) \in Nat /\ StartsLeft(v)' \in Nat
  BY <1>0, StartsLeftIs, StartsLeftIsNext
<1>1. ASSUME UNCHANGED <<pc, batch, cur, fencedStarts>>, fenced' => fenced
      PROVE  DrainShape' /\ SuspensionStopsDrain'
  <2>1. \A v \in Workers : InBatch(v)' = InBatch(v) /\ StartsLeft(v)' = StartsLeft(v)
    BY <1>1, StartsLeftSame
  <2>2. BatchFits'
    BY <1>f, <2>1 DEF BatchFits
  <2>3. \A v \in Workers : StartsLeft(v)' <= StartsLeft(v)
    BY <1>n, <2>1
  <2>4. fencedStarts' = fencedStarts + 0
    BY <1>0, <1>1 DEF TypeOK
  <2> QED BY <1>0, <1>1, <2>2, <2>3, <2>4, DrainFrom
\* Workers that have nothing left: they stopped, met an error or were killed.
<1>2. ASSUME NEW w \in Workers, StopBetweenMessages(w) \/ StoreErrorEndsPass(w)
      PROVE  DrainShape' /\ SuspensionStopsDrain'
  <2>1. /\ UNCHANGED <<fenced, fencedStarts>> /\ pc'[w] = "idle" /\ batch'[w] = NoBatch
        /\ \A v \in Workers : v # w => pc'[v] = pc[v] /\ cur'[v] = cur[v] /\ batch'[v] = batch[v]
    BY <1>0, <1>2 DEF StopBetweenMessages, StoreErrorEndsPass, LeavePass, TypeOK
  <2>2. InBatch(w)' = {}
    BY <2>1 DEF InBatch, NoBatch
  <2>3. StartsLeft(w)' = 0
    BY <1>0, <2>1, StartsLeftIsNext
  <2>4. StartsLeft(w)' <= StartsLeft(w)
    BY <1>n, <2>3
  <2> QED BY <1>0, <2>1, <2>2, <2>4, EmptyBatch, DrainWorker
<1>3. ASSUME NEW p \in Pools, CrashReplica(p) \/ StartReplica(p)
      PROVE  DrainShape' /\ SuspensionStopsDrain'
  <2>1. /\ UNCHANGED <<fenced, fencedStarts>>
        /\ \A v \in Workers : \/ pc'[v] = "idle" /\ batch'[v] = NoBatch
                              \/ pc'[v] = pc[v] /\ cur'[v] = cur[v] /\ batch'[v] = batch[v]
    BY <1>3 DEF CrashReplica, StartReplica, ResetReplica
  <2>2. ASSUME NEW v \in Workers, NEW B, B = InBatch(v)'
        PROVE  Cardinality(B) <= Batch /\ StartsLeft(v)' <= StartsLeft(v)
    <3>1. CASE pc'[v] = "idle" /\ batch'[v] = NoBatch
      <4>1. B = {}
        BY <2>2, <3>1 DEF InBatch, NoBatch
      <4>2. StartsLeft(v)' = 0
        BY <1>0, <3>1, StartsLeftIsNext
      <4> QED BY <1>n, <4>1, <4>2, EmptyBatch
    <3>2. CASE pc'[v] = pc[v] /\ cur'[v] = cur[v] /\ batch'[v] = batch[v]
      <4>1. InBatch(v)' = InBatch(v) /\ StartsLeft(v)' = StartsLeft(v)
        BY <3>2, StartsLeftSame
      <4> QED BY <1>f, <1>n, <2>2, <4>1 DEF BatchFits
    <3> QED BY <2>1, <3>1, <3>2
  <2>3. BatchFits' /\ \A v \in Workers : StartsLeft(v)' <= StartsLeft(v)
    BY <2>2 DEF BatchFits
  <2>4. fencedStarts' = fencedStarts + 0
    BY <1>0, <2>1 DEF TypeOK
  <2> QED BY <1>0, <2>1, <2>3, <2>4, DrainFrom
\* A pass begins only under a serving scope.
<1>4. ASSUME NEW w \in Workers, BeginPass(w) PROVE DrainShape' /\ SuspensionStopsDrain'
  <2>1. ~fenced' /\ UNCHANGED <<batch, fencedStarts>>
    BY <1>4 DEF BeginPass
  <2>2. \A v \in Workers : InBatch(v)' = InBatch(v)
    BY <2>1 DEF InBatch
  <2> QED BY <1>f, <2>1, <2>2 DEF DrainShape, SuspensionStopsDrain, BatchFits
<1>5. ASSUME NEW w \in Workers, WorkerExits(w) PROVE DrainShape' /\ SuspensionStopsDrain'
  <2>1. /\ pc'[w] = "stopped" /\ UNCHANGED <<batch, cur, fenced, fencedStarts>>
        /\ \A v \in Workers : v # w => pc'[v] = pc[v]
    BY <1>0, <1>5 DEF WorkerExits, TypeOK
  <2>2. InBatch(w)' = InBatch(w)
    BY <2>1 DEF InBatch
  <2>3. StartsLeft(w)' = 0
    BY <1>0, <2>1, StartsLeftIsNext
  <2>4. StartsLeft(w)' <= StartsLeft(w) /\ Cardinality(InBatch(w)) <= Batch
    BY <1>f, <1>n, <2>3 DEF BatchFits
  <2> QED BY <1>0, <2>1, <2>2, <2>4, DrainWorker
<1>6. ASSUME NEW w \in Workers, Claim(w) PROVE DrainShape' /\ SuspensionStopsDrain'
  <2> DEFINE pick(t) == Lowest({s \in Rows : Claimable(s, t)}, Batch)
  <2>1. PICK t \in Reading(w) :
          /\ batch' = [batch EXCEPT ![w] = [s \in Rows |-> IF s \in pick(t) THEN t ELSE NONE]]
          /\ pc' = [pc EXCEPT ![w] = IF pick(t) = {} THEN "idle" ELSE "batch"]
    BY <1>6 DEF Claim
  <2>2. PICK S : S = {s \in Rows : Claimable(s, t)}
    OBVIOUS
  <2>3. PICK P : P = Lowest(S, Batch)
    OBVIOUS
  <2>4. P = pick(t)
    BY <2>2, <2>3
  <2> HIDE DEF pick
  <2>5. S \in SUBSET Nat /\ IsFiniteSet(S) /\ S \subseteq Rows
    <3>1. S \in SUBSET Rows /\ Rows \subseteq Nat
      BY <2>2 DEF Rows
    <3> QED BY <3>1, BatchFinite
  <2>6. Cardinality(P) <= Batch /\ P \subseteq Rows
    BY <2>3, <2>5, LowestBound, BoundsAssumption DEF Lowest
  <2>7. t # NONE /\ t \in Nat
    BY <1>0 DEF Reading, TypeOK
  <2>8. \A s \in Rows : batch'[w][s] # NONE <=> s \in P
    BY <1>0, <2>1, <2>4, <2>7 DEF TypeOK
  <2>9. InBatch(w)' = P
    BY <2>6, <2>8 DEF InBatch
  <2>10. /\ pc[w] = "checked" /\ pc'[w] \in {"idle", "batch"} /\ UNCHANGED <<cur, fenced, fencedStarts>>
         /\ \A v \in Workers : v # w => pc'[v] = pc[v] /\ batch'[v] = batch[v]
    BY <1>0, <1>6, <2>1 DEF Claim, TypeOK
  <2>11. StartsLeft(w)' <= StartsLeft(w)
    <3>1. StartsLeft(w) = Batch /\ (StartsLeft(w)' = 0 \/ StartsLeft(w)' = Cardinality(P))
      BY <1>0, <2>9, <2>10, StartsLeftIs, StartsLeftIsNext
    <3> QED BY <1>n, <2>6, <3>1
  <2> QED BY <1>0, <2>6, <2>9, <2>10, <2>11, DrainWorker
<1>7. ASSUME NEW w \in Workers, NEW n \in Rows, RenewAndHandle(w, n)
      PROVE  DrainShape' /\ SuspensionStopsDrain'
  <2>1. PICK t \in Reading(w) : batch' = [batch EXCEPT ![w][n] = t]
    BY <1>7 DEF RenewAndHandle
  <2>2. t # NONE /\ batch[w][n] # NONE
    BY <1>0, <1>7 DEF Reading, TypeOK, RenewAndHandle, Holds
  <2>3. /\ pc[w] = "batch" /\ pc'[w] = "handling" /\ cur'[w] = n /\ UNCHANGED fenced
        /\ fencedStarts' = IF fenced THEN fencedStarts + 1 ELSE fencedStarts
        /\ \A v \in Workers : v # w => pc'[v] = pc[v] /\ cur'[v] = cur[v] /\ batch'[v] = batch[v]
        /\ \A s \in Rows : batch'[w][s] = IF s = n THEN t ELSE batch[w][s]
    BY <1>0, <1>7, <2>1 DEF RenewAndHandle, TypeOK
  <2>4. PICK B : B = InBatch(w)
    OBVIOUS
  <2>5. InBatch(w)' = B /\ B \in SUBSET Rows /\ n \in B
    BY <2>2, <2>3, <2>4 DEF InBatch
  <2>6. StartsLeft(w) = Cardinality(B) /\ StartsLeft(w)' = Cardinality(B \ {n})
    BY <1>0, <2>3, <2>4, <2>5, StartsLeftIs, StartsLeftIsNext DEF InHand
  <2>7. StartsLeft(w)' < StartsLeft(w) /\ StartsLeft(w) <= Batch
    <3>1. Cardinality(B) \in Nat /\ Cardinality(B \ {n}) = Cardinality(B) - 1 /\ Cardinality(B) <= Batch
      BY <1>f, <2>4, <2>5, BatchFinite DEF BatchFits
    <3> QED BY <2>6, <3>1
  <2>8. BatchFits' /\ \A v \in Workers : StartsLeft(v)' <= StartsLeft(v)
    <3>1. \A v \in Workers : v # w => InBatch(v)' = InBatch(v) /\ StartsLeft(v)' = StartsLeft(v)
      BY <2>3, StartsLeftSame
    <3>2. BatchFits'
      BY <1>f, <2>4, <2>5, <3>1 DEF BatchFits
    <3> QED BY <1>n, <2>7, <3>1, <3>2
  <2>9. PICK d \in {0, 1} : d = IF fenced THEN 1 ELSE 0
    OBVIOUS
  <2>10. fencedStarts' = fencedStarts + d /\ (d = 1 => fenced')
    BY <1>0, <2>3, <2>9 DEF TypeOK
  <2> QED BY <1>0, <2>3, <2>7, <2>8, <2>10, DrainFrom
<1>8. ASSUME NEW w \in Workers, NEW n \in Rows, SkipLostLease(w, n)
      PROVE  DrainShape' /\ SuspensionStopsDrain'
  <2>1. /\ pc[w] = "batch" /\ pc'[w] \in {"idle", "batch"} /\ UNCHANGED <<cur, fenced, fencedStarts>>
        /\ \A v \in Workers : v # w => pc'[v] = pc[v] /\ batch'[v] = batch[v]
        /\ \A s \in Rows : batch'[w][s] = IF s = n THEN NONE ELSE batch[w][s]
    BY <1>0, <1>8 DEF SkipLostLease, AfterMessage, TypeOK
  <2>2. PICK B : B = InBatch(w)
    OBVIOUS
  <2>3. InBatch(w)' = B \ {n} /\ B \in SUBSET Rows
    BY <2>1, <2>2 DEF InBatch
  <2>4. /\ Cardinality(B) \in Nat /\ Cardinality(B \ {n}) \in Nat
        /\ Cardinality(B \ {n}) <= Cardinality(B) /\ Cardinality(B) <= Batch
    <3>1. /\ Cardinality(B) \in Nat /\ Cardinality(B \ {n}) \in Nat
          /\ Cardinality(B \ {n}) = IF n \in B THEN Cardinality(B) - 1 ELSE Cardinality(B)
      BY <2>3, BatchFinite
    <3>2. Cardinality(B) <= Batch
      BY <1>f, <2>2 DEF BatchFits
    <3> QED BY <3>1, <3>2
  <2>5. StartsLeft(w)' <= StartsLeft(w)
    <3>1. /\ StartsLeft(w) = Cardinality(B)
          /\ StartsLeft(w)' = 0 \/ StartsLeft(w)' = Cardinality(B \ {n})
      BY <1>0, <2>1, <2>2, <2>3, StartsLeftIs, StartsLeftIsNext
    <3> QED BY <2>4, <3>1
  <2>6. Cardinality(B \ {n}) <= Batch
    BY <2>4, BoundsAssumption
  <2> QED BY <1>0, <2>1, <2>3, <2>5, <2>6, DrainWorker
<1>9. ASSUME NEW w \in Workers, NEW v \in {"ok", "retry", "permanent"}, HandlerReturns(w, v)
      PROVE  DrainShape' /\ SuspensionStopsDrain'
  <2>1. /\ InHand(w) /\ InHand(w)' /\ UNCHANGED <<batch, cur, fenced, fencedStarts>>
        /\ \A u \in Workers : u # w => pc'[u] = pc[u]
    BY <1>0, <1>9 DEF HandlerReturns, TypeOK, InHand
  <2>2. InBatch(w)' = InBatch(w)
    BY <2>1 DEF InBatch
  <2>3. StartsLeft(w)' = StartsLeft(w)
    BY <1>0, <2>1, <2>2, StartsLeftIs, StartsLeftIsNext
  <2>4. StartsLeft(w)' <= StartsLeft(w) /\ Cardinality(InBatch(w)) <= Batch
    BY <1>f, <1>n, <2>3 DEF BatchFits
  <2> QED BY <1>0, <2>1, <2>2, <2>4, DrainWorker
<1>10. ASSUME NEW w \in Workers, RecordOutcome(w) PROVE DrainShape' /\ SuspensionStopsDrain'
  <2>0. PICK n \in Rows : n = cur[w] /\ batch[w][n] # NONE
    BY <1>10 DEF RecordOutcome, IInv, InHandShape, InHand
  <2>1. /\ InHand(w) /\ pc'[w] \in {"idle", "batch"} /\ UNCHANGED <<fenced, fencedStarts>>
        /\ \A v \in Workers : v # w => pc'[v] = pc[v] /\ cur'[v] = cur[v] /\ batch'[v] = batch[v]
        /\ \A s \in Rows : batch'[w][s] = IF s = n THEN NONE ELSE batch[w][s]
    BY <1>0, <1>10, <2>0 DEF RecordOutcome, AfterMessage, TypeOK, InHand
  <2>2. PICK B : B = InBatch(w)
    OBVIOUS
  <2>3. InBatch(w)' = B \ {n} /\ B \in SUBSET Rows
    BY <2>1, <2>2 DEF InBatch
  <2>4. /\ Cardinality(B) \in Nat /\ Cardinality(B \ {n}) \in Nat
        /\ Cardinality(B \ {n}) <= Cardinality(B) /\ Cardinality(B) <= Batch
    <3>1. /\ Cardinality(B) \in Nat /\ Cardinality(B \ {n}) \in Nat
          /\ Cardinality(B \ {n}) = IF n \in B THEN Cardinality(B) - 1 ELSE Cardinality(B)
      BY <2>3, BatchFinite
    <3>2. Cardinality(B) <= Batch
      BY <1>f, <2>2 DEF BatchFits
    <3> QED BY <3>1, <3>2
  <2>5. StartsLeft(w) = Cardinality(B \ {n})
    BY <1>0, <2>0, <2>1, <2>2, StartsLeftIs
  <2>6. StartsLeft(w)' <= StartsLeft(w)
    <3>1. StartsLeft(w)' = 0 \/ StartsLeft(w)' = Cardinality(B \ {n})
      BY <1>0, <2>1, <2>3, StartsLeftIsNext
    <3> QED BY <2>4, <2>5, <3>1
  <2>7. Cardinality(B \ {n}) <= Batch
    BY <2>4, BoundsAssumption
  <2> QED BY <1>0, <2>1, <2>3, <2>6, <2>7, DrainWorker
\* A suspension starts the count again, with a batch for each worker.
<1>11. CASE Suspend
  <2>1. fencedStarts' = 0 /\ UNCHANGED batch
    BY <1>11 DEF Suspend, workerVars
  <2>2. PICK U : U = Slots'
    OBVIOUS
  <2>3. U \in SUBSET (Workers \X (1 .. Batch))
    BY <2>2 DEF Slots
  <2>4. /\ Cardinality(U) \in Nat /\ Cardinality(U) <= Cardinality(Workers) * Batch
        /\ Cardinality(Workers) * Batch \in Nat
    BY <2>3, SlotsFinite
  <2>5. \A v \in Workers : InBatch(v)' = InBatch(v)
    BY <2>1 DEF InBatch
  <2>6. BatchFits'
    BY <1>f, <2>5 DEF BatchFits
  <2> QED BY <2>1, <2>2, <2>4, <2>6 DEF DrainShape, SuspensionStopsDrain
<1>12. CASE Producing
  BY <1>1, <1>12, Zenon DEF Producing, Enqueue, CommitEnqueue, RollbackEnqueue, workerVars
<1>13. ASSUME NEW w \in Workers, Working(w) PROVE DrainShape' /\ SuspensionStopsDrain'
  BY <1>2, <1>4, <1>5, <1>6, <1>7, <1>8, <1>9, <1>10, <1>13 DEF Working
<1>14. CASE Operating
  BY <1>1, <1>2, <1>3, <1>11, <1>14, Zenon DEF Operating, Shutdown, Resume, Revive, workerVars
<1>15. CASE Sweeping
  BY <1>1, <1>15, Zenon DEF Sweeping, SweepBegin, ReapCompleted, ReapDeadSelect, ReapDeadDelete,
     SweepAbandoned, workerVars
<1>16. CASE Tick \/ UNCHANGED vars
  BY <1>1, <1>16 DEF Tick, vars, workerVars
<1> QED BY <1>12, <1>13, <1>14, <1>15, <1>16 DEF Next

\* A suspended scope is drained no further than one batch of each worker: the serving
\* state is read at the start of a pass, so what is started under the fence was
\* claimed by a pass that began before it, and a claim's LIMIT is its batch.
THEOREM DrainBounded == Spec => []SuspensionStopsDrain
<1>1. Init => DrainShape /\ SuspensionStopsDrain
  <2> SUFFICES ASSUME Init PROVE DrainShape /\ SuspensionStopsDrain
    OBVIOUS
  <2>1. \A w \in Workers : InBatch(w) = {}
    BY DEF Init, InBatch, NoBatch
  <2>2. Slots \in SUBSET (Workers \X (1 .. Batch))
    BY DEF Slots
  <2>3. Cardinality(Workers) * Batch \in Nat /\ 0 <= Batch /\ Cardinality({}) = 0
    BY <2>2, SlotsFinite, FS_EmptySet, BoundsAssumption
  <2>4. BatchFits /\ ~fenced
    BY <2>1, <2>3 DEF Init, BatchFits
  <2> QED BY <2>3, <2>4 DEF Init, DrainShape, SuspensionStopsDrain
<1>2. IInv /\ IInv' /\ DrainShape /\ SuspensionStopsDrain /\ [Next]_vars
        => (DrainShape /\ SuspensionStopsDrain)'
  BY DrainStep
<1> QED BY <1>1, <1>2, Invariant, PTL DEF Spec

=============================================================================
