------------------------------- MODULE Outbox -------------------------------
(***************************************************************************)
(* The transactional outbox of ironauth-store: one scope's rows of the     *)
(* table outbox_messages for one consumer, the producers that insert them, *)
(* the worker pools that lease and handle them, the operator's replay of   *)
(* dead letters and the retention sweeper.                                 *)
(*                                                                         *)
(* A row is identified by the sequence it was given at INSERT.  Every SQL  *)
(* statement (or row-locked transaction) is one action; what the code does *)
(* between two statements (await a pool connection, run a handler) is a    *)
(* place where any other action may happen.                                *)
(*                                                                         *)
(* The clock is read before a statement is sent and used by the statement, *)
(* so a statement executed at "now" carries a reading taken at any moment  *)
(* since the worker's previous step, at most MaxStall ago.                 *)
(***************************************************************************)
EXTENDS Integers, FiniteSets

CONSTANTS
  Keys,           \* idempotency keys producers enqueue under
  GroupOf,        \* GroupOf[k]: the ordering_key of the message with key k
  Pools,          \* OutboxWorkerPool instances (one per replica)
  Workers,        \* worker tasks, of all the pools
  PoolOf,         \* PoolOf[w]: the pool worker w belongs to
  Lease,          \* WorkerSettings.visibility_timeout
  Batch,          \* WorkerSettings.batch, the claim's LIMIT
  MaxAttempts,    \* RetryPolicy.max_attempts
  Backoffs,       \* delays next_attempt_micros may add (base, doubling, jitter)
  Delays,         \* not_before - now at an enqueue (0: due at once)
  CompletedRetention,   \* RetentionSettings.completed_retention
  DeadRetention,  \* RetentionSettings.dead_letter_retention, NONE = forever
  ReapBatch,      \* RetentionSettings.batch
  MaxStall,       \* bound: how old a clock reading may be when it is used
  MaxRows,        \* bound: rows ever inserted
  MaxTime,        \* bound: the clock's last value
  MaxFaults       \* bound: crashes, errors, stops, suspensions and replays

NONE == -1                       \* SQL NULL in a timestamp column
Rows == 1 .. MaxRows

ASSUME KeysAssumption == Keys # {} /\ GroupOf \in [Keys -> Keys]
ASSUME PoolAssumption == PoolOf \in [Workers -> Pools] /\ IsFiniteSet(Workers)
ASSUME BoundsAssumption ==
  /\ Lease \in Nat /\ Batch \in Nat /\ MaxAttempts \in Nat \ {0}
  /\ Backoffs \subseteq Nat \ {0} /\ Backoffs # {}
  /\ Delays \subseteq Nat
  /\ CompletedRetention \in Nat /\ DeadRetention \in Nat \cup {NONE}
  /\ ReapBatch \in Nat /\ MaxStall \in Nat
  /\ MaxRows \in Nat /\ MaxTime \in Nat /\ MaxFaults \in Nat

VARIABLES
  now,        \* the wall clock all replicas share
  rows,       \* the table: rows[s] is the row with sequence s
  lastSeq,    \* the last sequence handed out
  fenced,     \* the environment's serving state is Suspended
  pc,         \* where each worker task is
  batch,      \* batch[w][s]: the lease token w was handed for row s, or NONE
  cur,        \* the row w is handling, 0 if none
  verdict,    \* what w's handler returned
  since,      \* the oldest clock reading w's next statement may carry
  stopping,   \* the pools whose stop flag is set
  sweep,      \* the retention sweeper: its position and the rows picked
  faults,     \* faults spent so far
  disturbed,  \* history: rows that committed under a visible successor of
              \* their group, or that were revived
  fencedStarts \* history: handlers started in the current suspension

queueVars  == <<rows, lastSeq, disturbed>>
workerVars == <<pc, batch, cur, verdict, since>>
vars == <<now, queueVars, fenced, workerVars, stopping, sweep, faults, fencedStarts>>

-----------------------------------------------------------------------------
(* Rows and what the statements select.                                    *)

\* A row that does not exist (any more, or yet): "open" is an uncommitted
\* INSERT, "gone" a rolled back or deleted row.
Blank(st) == [st |-> st, key |-> CHOOSE k \in Keys : TRUE, attempts |-> 0,
              nextAttempt |-> 0, claimedAt |-> NONE,
              completedAt |-> NONE, deadAt |-> NONE]

NewRow(k, due) == [Blank("open") EXCEPT !.key = k, !.nextAttempt = due]

Visible(s)  == rows[s].st = "committed"
Terminal(s) == rows[s].completedAt # NONE \/ rows[s].deadAt # NONE
SameGroup(a, b) == GroupOf[rows[a].key] = GroupOf[rows[b].key]

\* completed_at IS NULL AND dead_lettered_at IS NULL, of a visible row.
Pending(s) == Visible(s) /\ ~Terminal(s)

\* Mutants of Claimable: a claim that ignores the leases of others, one whose
\* lease is over one instant early, one without the head-of-group test, one
\* whose head blocks its group only while it is leased, and one that never
\* takes a lapsed lease over.
ClaimableIgnoringLease(s, t) ==
  /\ Pending(s) /\ rows[s].nextAttempt <= t
  /\ \A b \in Rows : b < s /\ Pending(b) => ~SameGroup(b, s)
ClaimableEarly(s, t) ==
  /\ Pending(s) /\ rows[s].nextAttempt <= t
  /\ rows[s].claimedAt = NONE \/ rows[s].claimedAt <= t - Lease
  /\ \A b \in Rows : b < s /\ Pending(b) => ~SameGroup(b, s)
ClaimableAnywhere(s, t) ==
  /\ Pending(s) /\ rows[s].nextAttempt <= t
  /\ rows[s].claimedAt = NONE \/ rows[s].claimedAt < t - Lease
ClaimableBehindLease(s, t) ==
  /\ Pending(s) /\ rows[s].nextAttempt <= t
  /\ rows[s].claimedAt = NONE \/ rows[s].claimedAt < t - Lease
  /\ \A b \in Rows : b < s /\ Pending(b) /\ rows[b].claimedAt # NONE => ~SameGroup(b, s)
ClaimableNeverLapsed(s, t) ==
  /\ Pending(s) /\ rows[s].nextAttempt <= t /\ rows[s].claimedAt = NONE
  /\ \A b \in Rows : b < s /\ Pending(b) => ~SameGroup(b, s)

\* The WHERE clause of claim at clock reading t: due, not under a live lease,
\* and with no pending row of its group before it.
Claimable(s, t) ==
  /\ Pending(s)
  /\ rows[s].nextAttempt <= t
  /\ rows[s].claimedAt = NONE \/ rows[s].claimedAt < t - Lease
  /\ \A b \in Rows : b < s /\ Pending(b) => ~SameGroup(b, s)

\* ORDER BY sequence LIMIT n
Lowest(S, n) == {s \in S : Cardinality({b \in S : b < s}) < n}

\* WHERE id = .. AND claimed_at = <token> AND both terminal columns NULL:
\* the fence of renew_lease, complete and fail.
Holds(w, s) == Pending(s) /\ batch[w][s] # NONE /\ rows[s].claimedAt = batch[w][s]

InBatch(w) == {s \in Rows : batch[w][s] # NONE}
NoBatch == [s \in Rows |-> NONE]
Reading(w) == since[w] .. now
SweepDone == [pc |-> "idle", at |-> 0, picked |-> {}]
PoolStopping(w) == PoolOf[w] \in stopping

-----------------------------------------------------------------------------
Init ==
  /\ now = 0
  /\ rows = [s \in Rows |-> Blank("unused")]
  /\ lastSeq = 0
  /\ fenced = FALSE
  /\ pc = [w \in Workers |-> "idle"]
  /\ batch = [w \in Workers |-> NoBatch]
  /\ cur = [w \in Workers |-> 0]
  /\ verdict = [w \in Workers |-> "none"]
  /\ since = [w \in Workers |-> 0]
  /\ stopping = {}
  /\ sweep = SweepDone
  /\ faults = 0
  /\ disturbed = {}
  /\ fencedStarts = 0

-----------------------------------------------------------------------------
(* Producers: an enqueue is an INSERT in the caller's transaction.         *)

\* enqueue_outbox_in_tx_at: the sequence is assigned here, the row becomes
\* visible only at the commit.  A key whose row is in the table raises (or,
\* with ON CONFLICT DO NOTHING, inserts nothing): no state changes.
Enqueue(k, delay) ==
  /\ lastSeq < MaxRows
  /\ \A s \in Rows : rows[s].st \in {"open", "committed"} => rows[s].key # k
  /\ lastSeq' = lastSeq + 1
  /\ rows' = [rows EXCEPT ![lastSeq + 1] = NewRow(k, now + delay)]
  /\ UNCHANGED <<now, fenced, workerVars, stopping, sweep, faults, disturbed, fencedStarts>>

CommitEnqueue(s) ==
  /\ rows[s].st = "open"
  /\ rows' = [rows EXCEPT ![s].st = "committed"]
  /\ disturbed' = IF \E b \in Rows : b > s /\ Visible(b) /\ SameGroup(b, s)
                  THEN disturbed \cup {s} ELSE disturbed
  /\ UNCHANGED <<now, lastSeq, fenced, workerVars, stopping, sweep, faults, fencedStarts>>

RollbackEnqueue(s) ==
  /\ rows[s].st = "open"
  /\ rows' = [rows EXCEPT ![s] = Blank("gone")]
  /\ UNCHANGED <<now, lastSeq, fenced, workerVars, stopping, sweep, faults, disturbed, fencedStarts>>

-----------------------------------------------------------------------------
(* Workers: run_once_until, statement by statement.                        *)

\* Where a worker goes when it is done with one message of batch b.
AfterMessage(b) == IF \E s \in Rows : b[s] # NONE THEN "batch" ELSE "idle"

\* Worker w leaves its pass: what is left of the batch keeps its lease.
LeavePass(w) ==
  /\ pc' = [pc EXCEPT ![w] = "idle"]
  /\ batch' = [batch EXCEPT ![w] = NoBatch]
  /\ cur' = [cur EXCEPT ![w] = 0]
  /\ verdict' = [verdict EXCEPT ![w] = "none"]
  /\ since' = [since EXCEPT ![w] = now]

\* Mutants of BeginPass: without the serving-state check, and without the stop
\* flag.
BeginPassFenced(w) ==
  /\ pc[w] = "idle" /\ ~PoolStopping(w)
  /\ pc' = [pc EXCEPT ![w] = "checked"]
  /\ since' = [since EXCEPT ![w] = now]
  /\ UNCHANGED <<now, queueVars, fenced, batch, cur, verdict, stopping, sweep, faults, fencedStarts>>
BeginPassStopping(w) ==
  /\ pc[w] = "idle" /\ ~fenced
  /\ pc' = [pc EXCEPT ![w] = "checked"]
  /\ since' = [since EXCEPT ![w] = now]
  /\ UNCHANGED <<now, queueVars, fenced, batch, cur, verdict, stopping, sweep, faults, fencedStarts>>

\* The pool's loop wakes (a poll interval or a signal), finds its stop flag
\* clear and reads the serving state: a fenced scope is left alone.
BeginPass(w) ==
  /\ pc[w] = "idle" /\ ~PoolStopping(w)
  /\ ~fenced
  /\ pc' = [pc EXCEPT ![w] = "checked"]
  /\ since' = [since EXCEPT ![w] = now]
  /\ UNCHANGED <<now, queueVars, fenced, batch, cur, verdict, stopping, sweep, faults, fencedStarts>>

\* claim: one statement picks the heads and stamps claimed_at, the token.
Claim(w) ==
  /\ pc[w] = "checked"
  /\ \E t \in Reading(w) :
       LET picked == Lowest({s \in Rows : Claimable(s, t)}, Batch)
       IN /\ rows' = [s \in Rows |-> IF s \in picked
                                     THEN [rows[s] EXCEPT !.claimedAt = t] ELSE rows[s]]
          /\ batch' = [batch EXCEPT ![w] = [s \in Rows |-> IF s \in picked THEN t ELSE NONE]]
          /\ pc' = [pc EXCEPT ![w] = IF picked = {} THEN "idle" ELSE "batch"]
  /\ since' = [since EXCEPT ![w] = now]
  /\ UNCHANGED <<now, lastSeq, fenced, cur, verdict, stopping, sweep, faults, disturbed, fencedStarts>>

\* The stop flag is read before each message: the rest of the batch is left.
StopBetweenMessages(w) ==
  /\ pc[w] = "batch" /\ PoolStopping(w)
  /\ LeavePass(w)
  /\ UNCHANGED <<now, queueVars, fenced, stopping, sweep, faults, fencedStarts>>

\* renew_lease on a message still ours: re-stamp it and call the handler.
RenewAndHandle(w, s) ==
  /\ pc[w] = "batch" /\ ~PoolStopping(w)
  /\ Holds(w, s)
  /\ \E t \in Reading(w) :
       /\ rows' = [rows EXCEPT ![s].claimedAt = t]
       /\ batch' = [batch EXCEPT ![w][s] = t]
  /\ pc' = [pc EXCEPT ![w] = "handling"]
  /\ cur' = [cur EXCEPT ![w] = s]
  /\ since' = [since EXCEPT ![w] = now]
  /\ fencedStarts' = IF fenced THEN fencedStarts + 1 ELSE fencedStarts
  /\ UNCHANGED <<now, lastSeq, fenced, verdict, stopping, sweep, faults, disturbed>>

\* renew_lease on a message another worker re-claimed or ended: skip it.
SkipLostLease(w, s) ==
  /\ pc[w] = "batch" /\ ~PoolStopping(w)
  /\ s \in InBatch(w) /\ ~Holds(w, s)
  /\ batch' = [batch EXCEPT ![w][s] = NONE]
  /\ pc' = [pc EXCEPT ![w] = AfterMessage(batch'[w])]
  /\ since' = [since EXCEPT ![w] = now]
  /\ UNCHANGED <<now, queueVars, fenced, cur, verdict, stopping, sweep, faults, fencedStarts>>

\* The consumer's handler returns Ok, a retryable error (a caught panic is
\* one) or a permanent error.
HandlerReturns(w, v) ==
  /\ pc[w] = "handling"
  /\ pc' = [pc EXCEPT ![w] = "record"]
  /\ verdict' = [verdict EXCEPT ![w] = v]
  /\ since' = [since EXCEPT ![w] = now]
  /\ UNCHANGED <<now, queueVars, fenced, batch, cur, stopping, sweep, faults, fencedStarts>>

\* complete
Completed(r, t) == [r EXCEPT !.completedAt = t, !.claimedAt = NONE]

\* fail: count the attempt; at the cap dead-letter, else schedule a retry.
Cap(v) == IF v = "permanent" THEN 1 ELSE MaxAttempts

\* Mutant: one attempt too many.
FailedLate(r, t, v, backoff) ==
  IF r.attempts + 1 > Cap(v)
    THEN [r EXCEPT !.attempts = @ + 1, !.claimedAt = NONE, !.deadAt = t]
    ELSE [r EXCEPT !.attempts = @ + 1, !.claimedAt = NONE, !.nextAttempt = t + backoff]

Failed(r, t, v, backoff) ==
  IF r.attempts + 1 >= Cap(v)
    THEN [r EXCEPT !.attempts = @ + 1, !.claimedAt = NONE, !.deadAt = t]
    ELSE [r EXCEPT !.attempts = @ + 1, !.claimedAt = NONE, !.nextAttempt = t + backoff]

\* Mutant: the outcome's statement does not compare the lease token.
RecordOutcomeUnfenced(w) ==
  /\ pc[w] = "record"
  /\ LET s == cur[w]
     IN /\ \E t \in Reading(w), backoff \in Backoffs :
             rows' = IF ~Pending(s) THEN rows
                     ELSE [rows EXCEPT ![s] = IF verdict[w] = "ok" THEN Completed(@, t)
                                              ELSE Failed(@, t, verdict[w], backoff)]
        /\ batch' = [batch EXCEPT ![w][s] = NONE]
  /\ pc' = [pc EXCEPT ![w] = AfterMessage(batch'[w])]
  /\ cur' = [cur EXCEPT ![w] = 0]
  /\ verdict' = [verdict EXCEPT ![w] = "none"]
  /\ since' = [since EXCEPT ![w] = now]
  /\ UNCHANGED <<now, lastSeq, fenced, stopping, sweep, faults, disturbed, fencedStarts>>

\* The outcome is written if the lease is still w's, and dropped otherwise.
RecordOutcome(w) ==
  /\ pc[w] = "record"
  /\ LET s == cur[w]
     IN /\ \E t \in Reading(w), backoff \in Backoffs :
             rows' = IF ~Holds(w, s) THEN rows
                     ELSE [rows EXCEPT ![s] = IF verdict[w] = "ok" THEN Completed(@, t)
                                              ELSE Failed(@, t, verdict[w], backoff)]
        /\ batch' = [batch EXCEPT ![w][s] = NONE]
  /\ pc' = [pc EXCEPT ![w] = AfterMessage(batch'[w])]
  /\ cur' = [cur EXCEPT ![w] = 0]
  /\ verdict' = [verdict EXCEPT ![w] = "none"]
  /\ since' = [since EXCEPT ![w] = now]
  /\ UNCHANGED <<now, lastSeq, fenced, stopping, sweep, faults, disturbed, fencedStarts>>

\* A database error between two statements ends the pass; the loop goes on.
StoreErrorEndsPass(w) ==
  /\ faults < MaxFaults /\ faults' = faults + 1
  /\ pc[w] \in {"checked", "batch", "record"}
  /\ LeavePass(w)
  /\ UNCHANGED <<now, queueVars, fenced, stopping, sweep, fencedStarts>>

\* The loop finds its stop flag set: the task ends.
WorkerExits(w) ==
  /\ pc[w] = "idle" /\ PoolStopping(w)
  /\ pc' = [pc EXCEPT ![w] = "stopped"]
  /\ UNCHANGED <<now, queueVars, fenced, batch, cur, verdict, since, stopping, sweep, faults, fencedStarts>>

-----------------------------------------------------------------------------
(* Pools, the operator, the sweeper and the clock.                         *)

\* OutboxWorkerPool::shutdown (or drop) sets the flag its workers read.
Shutdown(p) ==
  /\ faults < MaxFaults /\ faults' = faults + 1
  /\ p \notin stopping
  /\ stopping' = stopping \cup {p}
  /\ UNCHANGED <<now, queueVars, fenced, workerVars, sweep, fencedStarts>>

ResetReplica(p) ==
  /\ LET mine == {w \in Workers : PoolOf[w] = p}
         reset(f, v) == [w \in Workers |-> IF w \in mine THEN v ELSE f[w]]
     IN /\ pc' = reset(pc, "idle") /\ batch' = reset(batch, NoBatch)
        /\ cur' = reset(cur, 0) /\ verdict' = reset(verdict, "none")
        /\ since' = reset(since, now)
  /\ stopping' = stopping \ {p}

\* The replica is killed and starts again: what its tasks held in memory is
\* lost, the rows and their leases are not.
CrashReplica(p) ==
  /\ faults < MaxFaults /\ faults' = faults + 1
  /\ ResetReplica(p)
  /\ UNCHANGED <<now, queueVars, fenced, sweep, fencedStarts>>

\* A replica whose workers have all exited starts again.
StartReplica(p) ==
  /\ p \in stopping /\ \A w \in Workers : PoolOf[w] = p => pc[w] = "stopped"
  /\ ResetReplica(p)
  /\ UNCHANGED <<now, queueVars, fenced, sweep, faults, fencedStarts>>

\* An operator suspends the environment (fences the scope) or resumes it.
Suspend ==
  /\ faults < MaxFaults /\ faults' = faults + 1
  /\ ~fenced /\ fenced' = TRUE
  /\ fencedStarts' = 0
  /\ UNCHANGED <<now, queueVars, workerVars, stopping, sweep>>

Resume ==
  /\ fenced /\ fenced' = FALSE
  /\ UNCHANGED <<now, queueVars, workerVars, stopping, sweep, faults, fencedStarts>>

\* revive_dead_lettered: the ordering_key and since filters select S.
Revive(S) ==
  /\ faults < MaxFaults /\ faults' = faults + 1
  /\ S # {} /\ \A s \in S : Visible(s) /\ rows[s].deadAt # NONE
  /\ rows' = [s \in Rows |-> IF s \in S
                THEN [rows[s] EXCEPT !.deadAt = NONE, !.attempts = 0, !.nextAttempt = now]
                ELSE rows[s]]
  /\ disturbed' = disturbed \cup S
  /\ UNCHANGED <<now, lastSeq, fenced, workerVars, stopping, sweep, fencedStarts>>

\* sweep_scope_until finds the scope serving and reap_once reads the clock.  A
\* sweeper configured with a batch of 0 removes nothing: its passes are left out.
SweepBegin ==
  /\ sweep.pc = "idle" /\ ~fenced /\ ReapBatch > 0
  /\ sweep' = [pc |-> "completed", at |-> now, picked |-> {}]
  /\ UNCHANGED <<now, queueVars, fenced, workerVars, stopping, faults, fencedStarts>>

Delete(S) == rows' = [s \in Rows |-> IF s \in S THEN Blank("gone") ELSE rows[s]]

\* Mutant of CompletedOlderThan: a retention keyed on the age of the row.
OlderThan(cutoff) == {s \in Rows : Visible(s) /\ rows[s].nextAttempt <= cutoff}

\* completed_at IS NOT NULL AND completed_at <= cutoff.  No statement
\* rewrites a completed row, so picking and deleting are one step.
CompletedOlderThan(cutoff) ==
  {s \in Rows : Visible(s) /\ rows[s].completedAt # NONE /\ rows[s].completedAt <= cutoff}
ReapCompleted ==
  /\ sweep.pc = "completed"
  /\ Delete(Lowest(CompletedOlderThan(sweep.at - CompletedRetention), ReapBatch))
  /\ sweep' = IF DeadRetention = NONE THEN SweepDone ELSE [sweep EXCEPT !.pc = "dead"]
  /\ UNCHANGED <<now, lastSeq, fenced, workerVars, stopping, faults, disturbed, fencedStarts>>

\* reap_dead_lettered is DELETE .. WHERE id IN (SELECT ..) under READ
\* COMMITTED.  The sub-select runs on the statement's snapshot and takes no
\* row lock; a row changed since then is deleted all the same, because only
\* its id is compared again.  Selecting and deleting are therefore two steps.
DeadOlderThan(cutoff) ==
  {s \in Rows : Visible(s) /\ rows[s].deadAt # NONE /\ rows[s].deadAt <= cutoff}
ReapDeadSelect ==
  /\ sweep.pc = "dead"
  /\ sweep' = [sweep EXCEPT !.pc = "delete",
                 !.picked = Lowest(DeadOlderThan(sweep.at - DeadRetention), ReapBatch)]
  /\ UNCHANGED <<now, queueVars, fenced, workerVars, stopping, faults, fencedStarts>>

ReapDeadDelete ==
  /\ sweep.pc = "delete"
  /\ Delete(sweep.picked)
  /\ sweep' = SweepDone
  /\ UNCHANGED <<now, lastSeq, fenced, workerVars, stopping, faults, disturbed, fencedStarts>>

\* A database error or the end of the process leaves the pass unfinished.
SweepAbandoned ==
  /\ faults < MaxFaults /\ faults' = faults + 1
  /\ sweep.pc # "idle" /\ sweep' = SweepDone
  /\ UNCHANGED <<now, queueVars, fenced, workerVars, stopping, fencedStarts>>

Later(a, b) == IF a >= b THEN a ELSE b
Tick ==
  /\ now < MaxTime
  /\ now' = now + 1
  /\ since' = [w \in Workers |-> Later(since[w], now + 1 - MaxStall)]
  /\ UNCHANGED <<queueVars, fenced, pc, batch, cur, verdict, stopping, sweep, faults, fencedStarts>>

-----------------------------------------------------------------------------
Producing == \/ \E k \in Keys, d \in Delays : Enqueue(k, d)
             \/ \E s \in Rows : CommitEnqueue(s) \/ RollbackEnqueue(s)

Working(w) == \/ BeginPass(w) \/ Claim(w) \/ StopBetweenMessages(w)
              \/ \E s \in Rows : RenewAndHandle(w, s) \/ SkipLostLease(w, s)
              \/ \E v \in {"ok", "retry", "permanent"} : HandlerReturns(w, v)
              \/ RecordOutcome(w) \/ WorkerExits(w)

Operating == \/ \E p \in Pools : Shutdown(p) \/ CrashReplica(p) \/ StartReplica(p)
             \/ \E w \in Workers : StoreErrorEndsPass(w)
             \/ Suspend \/ Resume
             \/ \E S \in SUBSET Rows : Revive(S)

Sweeping == SweepBegin \/ ReapCompleted \/ ReapDeadSelect \/ ReapDeadDelete \/ SweepAbandoned

Next == Producing \/ (\E w \in Workers : Working(w)) \/ Operating \/ Sweeping \/ Tick

Spec == Init /\ [][Next]_vars

(* Fairness: a worker task is scheduled, handlers return, the database      *)
(* answers in the end, a suspended scope is resumed and a stopped replica   *)
(* started again.  For liveness the clock advances only while a pending row *)
(* waits for it and no worker has a message to deal with, that is, handlers *)
(* finish within their lease.                                               *)
TimelyTick ==
  /\ Tick
  /\ \E s \in Rows : Pending(s)
  /\ \A s \in Rows : ~Claimable(s, now)
  /\ \A w \in Workers : pc[w] \in {"idle", "checked", "stopped"}

TimelyNext == Producing \/ (\E w \in Workers : Working(w)) \/ Operating \/ Sweeping \/ TimelyTick

Fairness == /\ \A w \in Workers : WF_vars(Working(w))
            /\ \A p \in Pools : WF_vars(StartReplica(p))
            /\ WF_vars(Resume) /\ WF_vars(TimelyTick)

LiveSpec == Init /\ [][TimelyNext]_vars /\ Fairness

-----------------------------------------------------------------------------
(* Properties.                                                             *)

Instants == Nat \cup {NONE}

RowType == [st : {"unused", "open", "committed", "gone"}, key : Keys, attempts : Nat,
            nextAttempt : Nat, claimedAt : Instants, completedAt : Instants, deadAt : Instants]

\* The type of the state.
TypeOK ==
  /\ now \in Nat
  /\ rows \in [Rows -> RowType]
  /\ lastSeq \in 0 .. MaxRows
  /\ fenced \in BOOLEAN
  /\ pc \in [Workers -> {"idle", "checked", "batch", "handling", "record", "stopped"}]
  /\ batch \in [Workers -> [Rows -> Instants]]
  /\ cur \in [Workers -> Rows \cup {0}]
  /\ verdict \in [Workers -> {"none", "ok", "retry", "permanent"}]
  /\ since \in [Workers -> Nat]
  /\ stopping \subseteq Pools
  /\ sweep \in [pc : {"idle", "completed", "dead", "delete"}, at : Nat, picked : SUBSET Rows]
  /\ faults \in Nat
  /\ disturbed \subseteq Rows
  /\ fencedStarts \in Nat

\* A handler is running, or has returned and its outcome is not written yet.
InHand(w) == pc[w] \in {"handling", "record"}

\* The handler of w has outlived the lease it was started under.
Overrun(w) == now > batch[w][cur[w]] + Lease

\* The lease token is a fence: two workers never both hold the token that is
\* stamped on a pending row, so of two workers that were ever handed a row only
\* one can renew it, complete it or fail it.
LeaseExclusive ==
  \A v, w \in Workers, s \in Rows : Holds(v, s) /\ Holds(w, s) => v = w

\* A lease is lost only by outliving it: a worker with a message in hand still
\* holds its row, or has overrun its lease, or the row was replayed under it
\* (a revived row may be deleted by a sweep that had already picked it).
LostOnlyByOverrun ==
  \A w \in Workers : InHand(w) => Holds(w, cur[w]) \/ Overrun(w) \/ cur[w] \in disturbed

\* Head of group first: while a pending row waits, no later row of its group has
\* been leased, attempted or ended, unless the earlier one became visible after
\* the later one or was revived.
HeadFirst ==
  \A a, b \in Rows :
    /\ a < b /\ Pending(a) /\ Visible(b) /\ SameGroup(a, b)
    /\ rows[b].claimedAt # NONE \/ rows[b].attempts > 0 \/ Terminal(b)
    => a \in disturbed

\* Two messages of one group are in hand at once only when a handler outlived
\* its lease or the group's order was disturbed.
GroupSerial ==
  \A v, w \in Workers :
    /\ v # w /\ InHand(v) /\ InHand(w)
    /\ Visible(cur[v]) /\ Visible(cur[w]) /\ SameGroup(cur[v], cur[w])
    => Overrun(v) \/ Overrun(w) \/ cur[v] \in disturbed \/ cur[w] \in disturbed

\* A suspension stops the drain: the serving state is read before the claim, so
\* the handlers started while the scope is fenced are at most one batch of each
\* worker, however long it lasts.
SuspensionStopsDrain == fencedStarts <= Cardinality(Workers) * Batch

\* No row ends twice, and a row is dead only after at least one counted attempt.
EndsOnce ==
  \A s \in Rows : /\ rows[s].completedAt = NONE \/ rows[s].deadAt = NONE
                  /\ rows[s].deadAt # NONE => rows[s].attempts > 0
                  /\ Pending(s) => rows[s].attempts < MaxAttempts

\* A message that was committed and not yet ended is never deleted, unless it
\* was replayed.
NothingDropped ==
  [][\A s \in Rows : Pending(s) /\ rows'[s].st = "gone" => s \in disturbed]_vars

\* Every committed message is handled to an end: completed or dead-lettered,
\* through crashes, lost leases, store errors, shutdowns and suspensions.
EventuallyEnds == \A s \in Rows : Pending(s) ~> ~Pending(s)

\* A shutdown ends: every worker of the pool exits (or the replica is killed).
ShutdownEnds ==
  \A p \in Pools : p \in stopping ~>
    (p \notin stopping \/ \A w \in Workers : PoolOf[w] = p => pc[w] = "stopped")

-----------------------------------------------------------------------------
(* The queue the outbox implements.                                        *)

\* A worker answers for the row in its hand as long as the lease is its own.
AnswersFor(w) == InHand(w) /\ Holds(w, cur[w])

StatusOf(s) ==
  CASE rows[s].st \in {"unused", "open"} -> "unborn"
    [] rows[s].st = "gone" -> "removed"
    [] OTHER -> IF rows[s].completedAt # NONE THEN "done"
                ELSE IF rows[s].deadAt # NONE THEN "dead" ELSE "pending"

Queue == INSTANCE DeliveryQueue WITH
  Last   <- MaxRows,
  Groups <- Keys,
  status <- [s \in Rows |-> StatusOf(s)],
  group  <- [s \in Rows |-> IF Visible(s) THEN {GroupOf[rows[s].key]} ELSE {}],
  hand   <- [w \in Workers |-> IF AnswersFor(w) THEN cur[w] ELSE 0],
  answer <- [w \in Workers |-> IF AnswersFor(w) /\ pc[w] = "record" THEN verdict[w] ELSE "none"],
  late   <- disturbed

\* The outbox is the queue: whatever the leases, clocks, crashes and statement
\* interleavings do, each step is a step of DeliveryQueue or invisible in it.
QueueSpec == Queue!Spec

-----------------------------------------------------------------------------
(* What a comment of the source states and the code does not give.        *)

\* The sweeper removes ended rows and "removes nothing else, ever".
SweepsOnlyEnded == [][\A s \in Rows : Pending(s) => rows'[s].st # "gone"]_vars

-----------------------------------------------------------------------------
(* The inductive strengthening the proofs of OutboxProofs rest on.         *)

\* A row without a commit is clean, an ended row carries no lease, and the
\* sequences above the last one handed out are unused.
RowShape ==
  \A s \in Rows :
    /\ Visible(s) \/ (rows[s].claimedAt = NONE /\ rows[s].attempts = 0 /\ ~Terminal(s))
    /\ Terminal(s) => rows[s].claimedAt = NONE
    /\ s > lastSeq => rows[s].st = "unused"

\* No stamp and no token is ahead of the clock its holder has read.
ClockOrder ==
  /\ \A s \in Rows : rows[s].claimedAt <= now /\ rows[s].deadAt <= now
  /\ \A w \in Workers : since[w] <= now /\ \A s \in Rows : batch[w][s] <= since[w]

\* Tokens only grow: one handed out for a row is below every later stamp on it.
TokenOrder ==
  \A w \in Workers, s \in Rows :
    batch[w][s] # NONE =>
      /\ rows[s].st \in {"committed", "gone"}
      /\ rows[s].claimedAt # NONE => batch[w][s] <= rows[s].claimedAt
      /\ Pending(s) /\ rows[s].claimedAt = NONE => batch[w][s] < rows[s].nextAttempt
      /\ rows[s].deadAt # NONE => batch[w][s] < rows[s].deadAt

\* LostOnlyByOverrun for every row of a batch, not only the one in hand.
LeaseLost ==
  \A w \in Workers, s \in Rows :
    batch[w][s] # NONE => Holds(w, s) \/ now > batch[w][s] + Lease \/ s \in disturbed

InHandShape == \A w \in Workers : InHand(w) => cur[w] \in Rows /\ batch[w][cur[w]] # NONE

\* What a sweep has picked was dead when picked; it is pending only if revived.
PickedShape ==
  \A s \in sweep.picked : rows[s].st \in {"committed", "gone"} /\ (Pending(s) => s \in disturbed)

\* The handlers a worker may still start before it reads the serving state again.
StartsLeft(w) == CASE pc[w] = "checked" -> Batch
                   [] pc[w] = "batch" -> Cardinality(InBatch(w))
                   [] InHand(w) -> Cardinality(InBatch(w) \ {cur[w]})
                   [] OTHER -> 0

\* No batch is longer than the claim's LIMIT, and in a suspension the handlers
\* started and those that may still be started fit in one batch of each worker.
BatchFits == \A w \in Workers : Cardinality(InBatch(w)) <= Batch
Slots == {p \in Workers \X (1 .. Batch) : p[2] <= StartsLeft(p[1])}
DrainShape ==
  BatchFits /\ (fenced => fencedStarts + Cardinality(Slots) <= Cardinality(Workers) * Batch)

IInv == /\ TypeOK /\ RowShape /\ ClockOrder /\ TokenOrder /\ LeaseLost /\ InHandShape
        /\ PickedShape /\ LeaseExclusive /\ HeadFirst /\ EndsOnce
=============================================================================
