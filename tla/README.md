# IronAuth: a TLA+ verification project

IronAuth is an OpenID Connect identity server written in Rust: a store layer over PostgreSQL
(`crates/ironauth-store`), the protocol endpoints (`crates/ironauth-oidc`), a management API and its background
workers (`crates/ironauth-admin`), and libraries around them. Any number of replicas run against one database; the
server keeps almost no state of its own, so what is hard about it is what concurrent transactions, workers and
clocks do to the rows they share.

This directory holds TLA+ models of those parts, the TLC configurations that check them on small instances, and
TLAPS proofs, for every value of the constants, of the safety properties the runs check. In this file `R` stands for
`src/crates/ironauth-store/src/repository.rs` and `O` for `src/crates/ironauth-store/src/outbox.rs`.
`PROJECT.json` is the index: every component of the system with its status, the runs, the mutations each property
is known to detect, the source lines behind each definition, the hazards and the findings.

| module | what it is |
|---|---|
| `DeliveryQueue` | the abstract queue: what a producer and a handler may rely on; no leases, clocks, sequences or attempts |
| `Outbox` | the transactional outbox: producers, leases, workers, retries, dead letters, replay, retention; implements `DeliveryQueue` |
| `OutboxProofs` | proofs of its safety properties and of the refinement |
| `TokenGrants` | sessions, codes, refresh families and every path that ends them |
| `TokenGrantsProofs` | proofs of its safety invariants |
| `EventFeed` | the event feed: append lock, commit order, visibility watermark, cursor readers, pruning |
| `SessionFanout` | from the end of a session to relying parties and event streams, over `DeliveryQueue` |
| `MessageLedger` | outbound messages: limit, claim, failover, resend, over `DeliveryQueue` |
| `PolledGrants` | the device grant and CIBA |
| `SigningKeys` | key rotation by several replicas with cached key sets |
| `ScimPush` | outbound SCIM provisioning: backfill, tail, checkpoints |
| `HashingPool` | the password-hashing pool: fair queue, worker threads, shutdown |
| `SessionFanoutProofs`, `MessageLedgerProofs`, `PolledGrantsProofs`, `SigningKeysProofs`, `ScimPushProofs` | proofs of the safety properties of the module each is named after |
| `FeedAndPoolProofs` | the same for `EventFeed` and `HashingPool`, which share no definition: each part cites its own module and its own assumption only |
| `MC*` + `MC*.cfg` | instances for TLC, one module per component |

`Outbox` implements `DeliveryQueue`, and `SessionFanout` and `MessageLedger` are built on `DeliveryQueue`: what they
show of their handlers rests on the abstract queue only, not on how the outbox achieves it. Both sides are theorems:
`ImplementsQueue` of `OutboxProofs` says that the outbox does nothing but steps of the queue, and `FollowsQueue` of
`SessionFanoutProofs` and of `MessageLedgerProofs` that those two never ask for another step.

To repeat the checks: `tlc -config MCOutbox.cfg MCOutbox` (likewise for the others), `tlapm OutboxProofs.tla`.

## 1. Inventory

### Where the state is, and who touches it

All durable state is in PostgreSQL. Transactions run at READ COMMITTED; a statement works on the snapshot of its
own start, waits for a row another transaction has locked, and then re-evaluates its WHERE clause on that row only.
A request of the protocol or the management API is a handful of transactions with checks in between, so two
requests interleave at every transaction boundary and, through row locks and snapshots, inside transactions. The
time is read in the application (`ironauth-env`) and passed to the statements.

Components interact in three ways. *Calls*: the endpoints call the repositories of the store. *Shared rows*: a
session row is read by logins, exchanges, refreshes and revocations at once. *Messages*: a mutation enqueues an outbox
row in its own transaction, and a worker of any replica later handles it (back-channel logout, webhooks, shared
signals, delivery of messages, scheduled jobs).

### Components

| component | state | operations | what is hard | what makes it correct |
|---|---|---|---|---|
| transactional outbox | `outbox_messages` | enqueue, claim, renew, complete, fail, revive, reap; worker loop, shutdown | lease against handler, commit order against sequence order, crash in the middle of a batch, replay against sweep | fenced outcomes, head-of-group order, nothing lost, everything ends |
| sessions, codes, refresh families | `sessions`, `client_sessions`, `grants`, `authorization_codes`, `refresh_families`, `refresh_tokens` | login/rotate, issue, redeem, open, refresh, revoke one/many/all, block, delete | openings race ends, concurrent refreshes and exchanges, grace windows | no orphaned family, no fork, single use, one audit row, one event per end |
| event feed, audit chain | `outbox_messages` (broadcast), audit rows | append under an advisory lock, page by cursor, reap | visibility order against cursor order | a reader misses nothing; the chain is unbroken |
| session-end fan-out, SSF, webhooks | outbox rows, endpoint state | fan out, deliver, disable an endpoint | at-least-once with a receiver that changes | every relying party is told or dead-lettered |
| device grant, CIBA | request rows | poll, approve, deny, redeem | approval races poll races expiry | one redemption, slow-down monotone |
| signing-key rotation | key rows and the published set | stage, promote, retire, timer | several replicas, caches of the key set | a token stays verifiable until it expires |
| message ledger | delivery rows, suppression, rates | claim, send, fail over, feedback | late feedback after failover | one terminal state, no send to a suppressed address |
| hot state, tiered cache | per-process and shared cache | get, put, invalidate | fill races invalidation | bounded staleness |
| quota, hashing pool | buckets; permits and a queue | acquire, refill; admit, shed | saturation, arithmetic at the edge | never over the limit, no lost permit |
| migration and import runs, SCIM push, log shipper, scheduled workers | checkpoints and cursors | step, resume, retry | crash between work and checkpoint | no skip, no regress |
| single-use replay stores, idempotency keys, recovery, one-time codes | rows with a unique key or a consumed flag, attempt counters | spend, verify, count | two spends, counter at the limit | at most one success |
| tenant and environment lifecycle, rekey, replication | serving state, wrapped keys, applied position | suspend, delete, promote, rekey, apply | fence against work in flight | fenced scopes stop, resumable re-encryption |
| journey engine | compiled flow and its cursor | validate, compile, evaluate | - | the interpreter agrees with the definition |

The remaining parts (endpoints without state of their own, federation and SAML, cryptography and encodings, SCIM
parsing, hooks sandbox, configuration and plumbing, screening, importers, UI, SDKs) are pure transformation, I/O or
third-party engines. `PROJECT.json` lists all of them with the reason each is left out.

The hazards, each at its line, are in `PROJECT.json`; every property below is aimed at one or more of them.

## 2. Plan

The outbox and the token grants came first: nearly every other asynchronous behaviour rides on the first, and the
second is what an identity server is for. Then, in this order:

1. **Event feed.** Done (`EventFeed`, section 5).
2. **Session-end fan-out.** Done (`SessionFanout`, section 6).
3. **Device authorization and CIBA.** Done (`PolledGrants`, section 7).
4. **Signing-key rotation.** Done (`SigningKeys`, section 8).
5. **Message ledger.** Done (`MessageLedger`, section 9).
6. **Hot state and tiered cache**: staleness of a filled entry against its invalidation. Open; `EventFeed` has the
   readers of the invalidations, not what they do with them.
7. **Quota and hashing pool.** The pool is done (`HashingPool`, section 11). Open: the layered buckets, whose
   arithmetic is on floating-point numbers and would be modelled over integers as operators against a reference.
8. **Runs and cursors.** SCIM push is done (`ScimPush`, section 10). Open: imports, migrations, log shipping,
   webhooks, scheduled workers.
9. **Single-use stores**: replay stores, idempotency keys, recovery and one-time codes with attempt counters; the
   audit chain. Open.
10. **Tenant and environment lifecycle**, rekeying and replication. Open.
11. **Journey engine** as pure operators. Open.

The refinement of an abstract queue by `Outbox` is done and proved. Every invariant and action property of the runs
is a theorem, but for `CaughtUpIsSynced` (section 10); so is what holds in place of a documented claim that fails, the
ceiling of a stream (sections 6 and 12). An offset between the clocks of the replicas is still to be added to `Outbox`.

Each component's module ends with the inductive strengthening its proofs rest on, as a conjunction `IInv` of named
parts. `IInv` was checked by TLC on small instances before it was proved; the proof modules have a lemma per action, and
the theorems follow from `IInv`.

## 3. The outbox (`Outbox.tla`)

### Correspondence

A row of `rows` is a row of `outbox_messages` of one scope and one consumer; its index is the sequence the INSERT
was given. `Enqueue` is the INSERT inside the producer's transaction, `CommitEnqueue` and `RollbackEnqueue` its end,
so a lower sequence can become visible after a higher one. The worker loop is split at each statement and each
await:

| action | code |
|---|---|
| `BeginPass`, `Claim` | the serving-state check of a pass, then the claim statement (due, lease absent or over, head of its group, lowest sequences first) |
| `RenewAndHandle`, `SkipLostLease`, `StopBetweenMessages` | before each message of the batch: stop flag, `renew_lease`, handler started or message skipped |
| `HandlerReturns`, `RecordOutcome` | the handler's verdict (including a panic, which counts as a failure), then `complete` or `fail` fenced on the token |
| `StoreErrorEndsPass`, `WorkerExits` | an error ends the pass with the rest still leased; a stopping worker leaves |
| `Shutdown`, `CrashReplica`, `StartReplica` | pool shutdown, loss of a process, start of a new one |
| `Suspend`, `Resume`, `Revive` | environment fence, and the operator's replay of dead letters |
| `SweepBegin`, `ReapCompleted`, `ReapDeadSelect`, `ReapDeadDelete`, `SweepAbandoned` | the retention sweeper; the dead-letter delete is two steps because it matches only the id that its sub-select found |

The clock is read before a statement waits for a connection, so each statement carries a reading between the
worker's previous step and now, at most `MaxStall` old. The batch is handled in any order (the claim's RETURNING has
no ORDER BY). The three variables `disturbed`, `fencedStarts` and `faults` are history and bounds; no action's guard
but the fault budget reads them. Claims use SKIP LOCKED and are atomic here: a row another claim is taking is simply
not taken. The read side (depth, listings) is left out.

### What the runs show

- **outbox_lease** (about 556 thousand states up to symmetry): two replicas with a worker each, two messages of one
  group, a lease of 1, readings up to 1 old, two attempts, one fault, time up to 2. `LeaseExclusive` (the token is a
  fence), `LostOnlyByOverrun` (only a handler that outlives its lease loses it), `HeadFirst` and `GroupSerial` (group
  order, with the exact exceptions), `EndsOnce` (the attempt cap is exact), `SuspensionStopsDrain` (what still starts
  after a suspension is at most one batch of each worker), and `QueueSpec`. Time 2 is enough for claim, lapse, takeover
  and a late outcome of the first holder; one group of two is the smallest in which order can be broken.
- **outbox_liveness** (about 177 thousand states): one replica, a batch of two messages of one group, the sweeper with
  a retention of 1 for completed rows and 0 for dead letters. `EventuallyEnds` (every committed message is completed or
  dead-lettered), `ShutdownEnds`, through one fault of any kind, and `NothingDropped` (retention deletes nothing
  undelivered that was not replayed). No symmetry is used. Time up to 6 leaves room for two attempts of both messages,
  the backoffs and one lapsed lease; behaviours stop there, not before the queue is empty. Two replicas contend in the
  safety run only.

`QueueSpec` is the refinement: `Outbox` implements `DeliveryQueue` with `StatusOf` for the status of a message (a row that
is not visible is unborn or withdrawn), `GroupOf` for its group, `AnswersFor` (the row whose lease token a worker still
holds) for the hands it is in, and `disturbed` for the messages published late or replayed. A producer of the queue may
publish several messages in one transaction, as the fan-out does; the outbox's rows become visible one at a time. It is how a lease, a clock
and a token become one fact: a message is in one worker's hands at a time, and only that worker's answer counts. It
also says that a completed message is never taken again, whatever is replayed or swept.

Fairness (`LiveSpec`): weak fairness of each worker (a tokio task that is ready is polled, and the poll interval wakes
it when a wake signal is lost), of the start of a replica (the supervisor restarts it), and of the operator's resume
(a scope that stays suspended for ever drains nothing, by design). Time advances fairly, and only while a pending row
waits for it and no worker has a message in hand: handlers finish within their lease, the documented precondition of
`visibility_timeout`. Without it `EventuallyEnds` is false, and a hazard says so: two workers taking turns on a
handler that always overruns never count an attempt.

### What is proved

`OutboxProofs` proves `Spec => []P` for `TypeOK`, `LeaseExclusive`, `LostOnlyByOverrun`, `HeadFirst`, `GroupSerial` and
`EndsOnce`, for all sets of keys and pools, every finite set of workers and all values of the bounds. The assumptions
are those of the module: natural numbers, positive backoffs, at least one attempt.

None of these is inductive alone. `LeaseExclusive` needs that a claim writes a stamp above every token still in some
worker's hand (`TokenOrder`): on a leased row the claim's reading is beyond the old stamp plus the lease; on a row that
was failed or revived, the token of the last holder is below `nextAttempt` (or below the death that the revival
undoes), and the claim's reading is not. That stamps and tokens never run ahead of the readings they are compared with
is `ClockOrder`. `LostOnlyByOverrun` is proved for every row of a batch, not only for the one in hand (`LeaseLost`),
because a row waits in the batch while its neighbours are handled; `PickedShape` says that a sweep deletes a pending
row only when it was revived. `HeadFirst` needs that rows which are not visible carry no lease and no attempt
(`RowShape`), and `GroupSerial` follows from `HeadFirst` and `LeaseLost`. `IInv` is the conjunction; it was
model-checked before it was proved. The proof has a lemma per action.

Three more results rest on `IInv`:

- `NothingLost`: the action property `NothingDropped`. The only deletes are the rollback of a row that was never visible
  and the two sweeps; `PickedShape` covers the one that deletes by id what an earlier statement selected.
- `ImplementsQueue`: the refinement `QueueSpec`. Initial states map to initial states of `DeliveryQueue`; a lemma per
  action shows that its step is a step of the queue or a stutter. A claim that takes over a lapsed lease is `Lose` of the
  old holder, whose token no longer matches; the message is taken when `RenewAndHandle` starts its handler. Only `Spoken` (a
  handler that returned has a verdict) is needed besides `IInv`.
- `DrainBounded`: `SuspensionStopsDrain`. In a suspension the handlers already started and the `Slots`, the starts each worker
  still has before it reads the serving state again (`StartsLeft`), together fit in one batch per worker (`DrainShape`),
  because no claim takes more than `Batch` rows (`BatchFits`). A start moves one unit from the second to the first. This
  is where the set of workers has to be finite.

Only model-checked: the two liveness properties. `TypeOK` is proved and not in a run.

## 4. Sessions, codes and refresh families (`TokenGrants.tla`)

### Correspondence

The state is one scope's rows: `user` (the part of the lifecycle state that sessions depend on), `sess`, `sid`
(`client_sessions`), `grant` (a grant with its authorization code), `fam` (its refresh family), `tok` (refresh tokens)
and `events` (session-ended rows enqueued in the transactions). Each process is one request in flight; `pc` says
between which of its transactions or statements it is, `job` what it remembers. Row locks are not a variable:
`Holds(p, s)` derives them from `pc` and `job`, and a guard that mentions `Locked` is a statement that waits.

| actions | code |
|---|---|
| `Login`, `RotateLock`, `RotateCommit` | `establish_session` and `rotate_inner`: state read, `FOR UPDATE` of the prior session, then a first login, a carry of the same user's families onto the new session, or the end of another user's session |
| `IssueCode` | a code bound to the live session |
| `StartExchange`, `CommitSid`, `ConsumeCode`, `MissCode` | binding checks, `ensure_sid`, the conditional UPDATE that consumes the code, and the classification of a loser (late reuse revokes grant and family) |
| `OpenLock`, `OpenCommit` | `lock_bound_session_live`, then family and first token |
| `StartRefresh`, `RedeemRead`, `RedeemRotate`, `RedeemSuperseded` | lookup, status checks and row lock of the redeem, rotation of a live leaf, grace or reuse of a superseded one |
| `RevokeSessions` | logout, revoke of one or of many, soft or hard |
| `SweepStart`, `SweepCommit` | the user-wide paths: revoke all, block or disable, delete; the UPDATE works on the snapshot of its start and re-checks the rows it waited for |
| `Reactivate`, `RevokeFamily`, `Lapse`, `Abort`, `Tick` | unblock, RFC 7009 revocation, expiry, refusal or rollback, clock |

Abstractions. A transaction becomes visible at its last step. The expiry of codes, tokens and families and every
policy refusal is `Abort`; the expiry of a session is `Lapse`, because a session that has expired is unusable but its row is not ended.
Clock readings of a redeem are taken before its row lock and may be older than the winner's. Grants without a
session (device flow, legacy rows) and columns that no transition reads are left out. A grant has one code and
at most one family. `Tick` and the bounds on tokens, time and lapses are the only limits.

### What the runs show

- **grants** (about 2.1 million states up to symmetry): two users, two sessions, one grant, three token rows, two requests
  in flight, a grace window of 1 and time up to 1, so that a retry can land inside or beyond it; blocks and hard
  revocations; one session may expire. `NoOrphan`, `SameSubject`, `EventPerEnd`, `SingleLeaf`, `CodeOnce`, `ReuseOnce`. Two
  sessions are a rotation, or a stranger's login, around one opening; two requests are a race; three token rows are a
  root and two successors, the least with which a family can fork. The VIEW leaves out the two columns that no action
  and no property of the run reads (`sid`, and which session replaced an ended one). All six are proved for
  every instance; the run is there to confirm that the model reaches the races.

Deadlock is not checked in this run: once every session id is used and every row is revoked there is nothing left
to do, which is a legitimate end of a bounded instance. All properties are safety properties; no fairness is assumed.
Users, sessions, grants and requests are never compared except for equality, so the symmetry is sound.

### What is proved

`TokenGrantsProofs` proves `Spec => []P` for the six properties of the run, `TypeOK` and `LockDiscipline` (one transaction at
a time holds a session's row, and the session does not end meanwhile), for any sets of users,
sessions, clients, grants and requests and any bounds. The only assumptions are that the bounds are naturals and
that NONE is none of the values.

`NoOrphan` is the main one. A family could be orphaned by an opening that commits after its session ended, or by a
cascade that misses it. The opening holds the row from its check to its commit and every end waits for the row
(`LockDiscipline`). The cascades find families by session or by subject; both are complete because every family is
anchored on a session of its own grant's subject (`RowShape`) and because the snapshot of a user-wide revocation
holds only sessions of that user (`JobShape`). A carry moves families only while it holds the prior session, so no
opening can be in the middle of adding one. `SingleLeaf` and `ReuseOnce` rest on the conditional UPDATEs, `CodeOnce` on
the fact that a process past the gate has a consumed code (`JobShape`) and a family exists only for a consumed code
(`RowShape`). The lemmas `OneMoves`, `OneFinishes` and `RowsAlone` carry what the other processes remember across a step, so
each action's lemma argues only about the rows it writes.

## 5. The event feed (`EventFeed.tla`)

Cursor consumers (the management feed, hot-state invalidations, SCIM push) read `outbox_messages` by position. A row has
three orders: its sequence, drawn at INSERT; the transaction id, drawn at the first write; and its commit. The model has
all three, with row versions: an UPDATE by the drain gives the row the updater's id as `xmin`.

| actions | code |
|---|---|
| `BeginWrite`, `Insert`, `Commit`, `Rollback` | a producer's transaction; an event's INSERT takes the append lock of the scope and holds it to the end (`take_event_append_lock`) |
| `Update`, `Reap` | claims and endings of the drain; the deletes of the retention sweeps |
| `CheckWindow`, `ReadPage` | `events_page_after`: the check of the retained window and, in another transaction, the page behind the watermark `xmin < pg_snapshot_xmin` |

PostgreSQL's part (ids, snapshots, row locks) is external and modelled from the statements. The run **event_feed** (45
thousand states) has one reader, pages of one row, three rows and three transactions: the smallest instance in which two
rows and an unrelated transaction disagree in all three orders. `EventsInCommitOrder`: events commit in sequence order.
`Accounted`: a cursor passes a row only if it was served, announced as missed, rolled back, pruned, or inverted (below).
`EventuallyPassed`: every committed row is passed or deleted, if readers poll and transactions end; a connection that is
lost is rolled back by the server.

`FeedAndPoolProofs` proves `TypeCorrect`, `CommitOrder` (`EventsInCommitOrder`) and `NothingUnaccounted` (`Accounted`) for any number
of rows, transactions and readers and any page size. `LockShape` carries the first: the transaction of an open event row
holds the append lock, so every event that commits does so above those that have. `TxShape` and `RowShape` say that the
sequence has no gaps and that an open row is the one row of a running transaction, so that a commit or a rollback changes
that row only. `GoneShape` says that a row is gone because it was rolled back or reaped, and that one reaped above a cursor is
remembered for it: a page that passes it has a reason. `EventuallyPassed` is only model-checked.

## 6. Session-end fan-out (`SessionFanout.tla`)

The composition of the end of a session with delivery. `End` flips the row and enqueues `session_ended` in one
transaction; `Rotate` carries the client sessions; `JoinRead` and `JoinCommit` are `ensure_sid`, which takes no lock. The
handlers of the four consumers are split at each transaction:

| actions | code |
|---|---|
| `ReadParticipants`, `CheckStreams`, `EnqueueAll` | the fan-out of one session: participants, the trigger where a stream retains, one transaction for all rows |
| `Post` | a logout token minted with the payload's jti and sent |
| `ReadStreams`, `CountOwed`, `QueueSet`, `EnqueuePush` | the trigger of the shared-signals streams; count and insert are two steps because the statement counts on its snapshot |
| `Push`, `Acknowledge`, `SetStatus` | delivery by push or by poll, and the stream's status; disabling drops what is owed |
| `Take`, `Report`, `Settle`, `Overrun`, `Crash`, `StoreError`, `Replay`, `Reap` | the queue: a handler that was too slow runs on and has its effects all the same |

The run **session_fanout** (186 thousand states): two sessions of one browser, one relying party, one stream, a worker
per consumer, one change of the stream and one fault. `NoLogoutLost` and `NoSignalLost`: who had joined has been told, or a
message that leads there is in the queue or, for the delivery itself, a dead letter; `OneToken`: one jti for one delivery
until retention has removed the row; `EventuallyTold`. Fairness: each worker (its loop polls for ever and calls have
timeouts). Two sessions make a rotation with a relying party that joins around it; one fault of each kind is tried at
each step.

`SessionFanoutProofs` proves `TypeCorrect`, `LogoutKept` (`NoLogoutLost`), `SingleToken` (`OneToken`) and `SignalKept` (`NoSignalLost`) for
any workers, streams, ceilings and faults and any finite sets of sessions (numbered in the order they are created) and
relying parties. The main part is `Finished`: what a message must have led to before it may be completed. It holds of
every message that is done, of a worker's answer when that is `ok` (`HandShape`), and of a handler that is about to say so
(`TaskShape`), including one that has overrun and runs on with the message in other hands. `EndShape`: an ended session is
fanned out, or its message is pending. `BodyShape` and `TableShape` say that each row is what one producer wrote and that
idempotency keys are unique, which gives one jti for a delivery (`TokenShape`); `SessionShape` that the browser has one
session at a time and a rotation carries who had joined. The queue enters only through the actions of `DeliveryQueue`, and
`FollowsQueue` states the composition: every step of the system is one of that queue's, where the rows of one
transaction are one publication and a step that leaves the queue alone is the loss of nothing.

The ceiling on what a stream owes is exceeded when two trigger workers count before either inserts (section 12).
`CeilingOvershoot` proves by how much: at most one token for each trigger worker beyond the first (`OwedNearCeiling`, for a
finite set of workers). It needs `CeilingShape`: the tokens a stream owes and the workers that found room and have not
inserted yet (`Inserting`) together stay within that bound, because the last of them to count saw fewer than the ceiling and
at most the other workers stand between their count and their insert. `CeilingAlone` follows: with one worker for the triggers
`OwedWithinCeiling` itself holds. `CeilingShape` was checked with two trigger workers. `EventuallyTold` is only model-checked.

## 7. Device grant and CIBA (`PolledGrants.tla`)

One row per flow, polled by token-endpoint requests, decided by people on pages they opened earlier. `PollDevice` is one
transaction under FOR UPDATE; CIBA's poll is a CTE that reads without a lock and then updates, hence `SnapshotCiba` and
`UpdateCiba`. `EnsureSid` (device) and `Details`, `CheckSubject` (CIBA) are the checks before the tokens, `Redeem` the
flip. `Submit`, `WrongCode`, `Decide` are the pages; `SignIn`, `Logout`, `Fence`,
`Reinstate`, `RevokeGrant` what happens to people meanwhile. Clock readings may be `MaxStall` old when used.

CIBA is modelled in poll mode, the only one the server serves. `decide_with_event` would enqueue a ping for a client
registered for ping mode, but no production code registers one and nothing consumes the message (`CibaPingConsumer` has
no caller: `ironauth-oidc/src/discovery.rs:649-663` says so), so neither the message nor its consumer is in the model.

The run **polled_grants** (1.4 million states up to symmetry): two users, one flow of either kind, two requests, time up
to 3 with flows that live for 2. `OneApprovalOneIssue`, `DecisionStands` (only the transitions of the source's table happen,
so a code that was locked out is never approved), `FencedGetsNothing`, `DevicePolledApart`. All are safety properties; no
fairness. The assumption
`MaxStall <= Increment` says that a reading is not older than the slow-down step: with older readings `DevicePolledApart`
fails. Two requests are a race for the flip; two users are one who approves and one who must not get the tokens.

`PolledGrantsProofs` proves `TypeCorrect` and all four properties, for any sets of users, flows and requests: `SingleIssue`,
`DecisionKept` (the action property), `FenceHolds`, `DevicePace`. `FlowShape` ties what was issued to the state of
the row: once, for a redeemed flow, to the person who approved. `RequestShape` says what a request that was let through can
still rely on when it comes back: its flow was approved and can only have been redeemed or expired since. `Overtaken` is
the exact exception of the fence: a request past its check is about an active subject, or the fence came after the check.
`Paced` is needed for the pace: however far a stale reading sets `last_polled_at` back, the interval has grown by at least as
much, which is where `MaxStall <= Increment` is used.

## 8. Signing keys (`SigningKeys.tla`)

`ListForPass` and `ListForBreak` read the clock and the table; `Seed`, `Promote`, `BreakSeed`, `BreakWithdraw` are the
statements that follow, none of which compares what it writes with what was listed; `Abandon` is any failure in
between. `Load`, `Sign`, `Fetch` are the replicas with their cached entries and the relying parties with their cached
documents. `Head`, `Outgoing`, `SeedDue`, `Activation`, `Signer`, `Published` are the pure decisions of the code.

The run **signing_keys** (1.7 million states): two jobs, two replicas, one relying party, cadence 5, lead 4, a document
lifetime of 1, an entry lifetime of 2, readings up to 1 old, three keys, one break-glass call, time up to 10: two
rotations and a break-glass in one behaviour. `TokensVerifiable`: a live token of a scheduled key is in every document
in use; `SignerAlways`. The relations between the policy's times are assumed (`PolicyAssumption`): the configuration's
comments ask for them, its validation enforces only part. `AdminScale` is 1, the documented unit, in this run; the
code's value is 1000 and is the subject of **break_glass_units** (section 12). With 1000 and one job the two invariants
still hold: the key that should have gone is still published.

`SigningKeysProofs` proves `TypeCorrect`, `AlwaysVerifiable` (`TokensVerifiable`) and `AlwaysSigner` (`SignerAlways`) for any number of
jobs, replicas and relying parties, any unit of the break-glass call and all times that satisfy `PolicyAssumption`: the
lead covers the two caches and a stale reading and is shorter than the cadence; the buffer covers an entry's lifetime
and a stale reading; lifetime and buffer cover an entry's lifetime and two stale readings (two jobs can be behind by one each).
`TableShape` orders the times of the rows. Since no statement compares what it writes with what was listed, `JobShape`
says what of a list is still so when it is used, and `OverlapShape` that two jobs which retire the same key do so in the
same stretch of time. `EntryShape` and `DocShape` say how old a cached entry and a cached document are and which keys are in
them all the same, `TokenShape` until when a live token's key is published.

What break-glass promises, `BreakGlassWithdraws`, is false of the code in two ways (section 12), and no theorem is about it.

## 9. Message ledger (`MessageLedger.tla`)

`Enqueue` counts, collapses and inserts under the recipient's advisory lock, with a reading older than the lock. The
delivery handler is `ClaimRow`, `Compose`, `Send` (once per provider, failing over), `Resolve` or `Release`, then the
queue's `Report` and `Settle`. `ResendRead` and `ResendCommit` are the operator's resend, which moves the row to a new
generation and enqueues a job for it. Every statement may fail, or commit and lose its answer.

The run **messages** (1.6 million states up to symmetry): two workers, two messages to one recipient, two providers, one
resend, one fault. `OneMailAsRecorded`: however often a job is handled, at most one acceptance of each generation is
reported to a worker, and the row says what was reported of the generation it is at. A provider that cannot be reached
and one that accepts a message and whose answer is lost look the same to the code (`ProviderUnavailable`), which goes on
to the next provider: `unheard` counts the latter, so the recipient is mailed at most once more than answers were lost.
`PendingIsQueued` and `RateHolds`, each with one exact exception (section 12). There is at least one provider because
`validate_messaging` refuses an empty list; limits count per kind, as every producer is configured. `Suppress` has no
caller in the code yet.

`MessageLedgerProofs` proves `TypeCorrect`, `OneMail` (`OneMailAsRecorded`), `PendingQueued` (`PendingIsQueued`), `RateBudget`
(`RateHolds`) and the composition `FollowsQueue`, for any number of workers, messages, providers, resends and faults. `ClaimShape` carries the first: a generation
is claimed by one handler only, which was told of an acceptance only if it says so, and nobody was told of one of a later
generation. For the
second, a pending row has a job that is `Live`: no handler which holds it can complete it without a claim (`LiveShape`;
`HandShape` says whose hands a job is in). The third rests on `RateShape`, each row was inserted with room in its window: the
last row of a window without an inversion has counted all the others of it (`WindowCounted`). `FollowsQueue` needs one
invariant more, `Addressed`: a row keeps the recipient it was inserted with, so that a resend's job too has a group.

## 10. SCIM push (`ScimPush.tla`)

`Tick`, `BeginBackfill`, `Due`, `Get` are the scheduler's reads; `ReadPage`, `Decide`, `Push`, `RecordLink`, `RecordProgress`,
`RecordRefusal`, `Handover`, `Checkpoint`, `RecordFailure` a pass, statement by statement; `Crash` loses what a worker had
in memory. Link, scope and body of a subject are read as one step. A group's body names the members that have a live link
and are in scope at that moment (`Named`, from `build_group`); the downstream keeps them (`refs`). Who belongs to a group is
fixed: a change of membership is an event of the group, `Change`.

Retention deletes events by age (`Prune`), whoever has not read them. A page then starts beyond them, or, when the row the
pass read last is gone with all before it, `events_page_after` may answer `Gone` (`MayBeGone`: whether it does depends on rows
of other scopes, so both are possible). `Gone` is a permanent failure of the pass; the cursor stays and nothing in the code
restarts the backfill, so the connection is `Stranded`.

- **scim_push** (576 thousand states): one scheduler, two users and a group they belong to, pages of two, two events, one
  fault (a failed, refused or unanswered push, a crash, or a deleted event). `CaughtUpIsSynced`: when nothing is left to
  read, the downstream holds of each subject what the directory holds, and of each group the members the directory has.
  The exceptions are named: subjects that were refused, that two passes handled at once, that the backfill skipped, or
  whose event was deleted unread; who left while the link was lost; and a member whose event came after the group's.
  `EventuallyCaughtUp`: the connection catches up for good, unless it is stranded. Fairness: the scheduler keeps ticking
  and a pause lapses. It is checked with one scheduler, because two can keep invalidating each other's progress for ever.
- **scim_replicas** (2.9 million states up to symmetry): two schedulers on one connection from its first backfill on,
  pages of one, so that they stand at different places of one collection, or in different collections. `NoEventLost`:
  every event up to the cursor was dealt with by some pass, or deleted before the cursor had come to it; `CursorNeverBack`:
  no late checkpoint undoes another's; `BackfillSkipsNobody`: nobody is left out but those below a position that a pass of
  the other collection wrote (`skipped`). This run has no faults and its VIEW leaves out what the downstream holds and the
  histories that only `CaughtUpIsSynced` mentions, none of which an action reads; the theorems below have both.

`ScimPushProofs` has two inductive invariants, both for any number of schedulers. `IInv` gives `TypeCorrect`, `NoEventIsLost`
(`NoEventLost`) and `CursorMonotone` (`CursorNeverBack`): a tail pass deals with the events after its base in order and without
a gap but those deleted unread (`TailShape`, `PruneShape`), the row's columns are filled in the order of its states
(`ConnShape`), and a checkpoint takes effect only on the base the pass started from. `BackfillInv` adds what
`BackfillComplete` (`BackfillSkipsNobody`) needs: `Enumerated` says that a subject which was there all along was dealt with or
is in `skipped`; it holds below the row's position and of the collections before it (`RowShape`), and of what a pass has
behind it in its own collection (`BackfillShape`). A pass therefore never writes a position with a gap below it in its own
collection, whichever of two passes writes last; in the other collection it may, and those are the subjects of `skipped`.

Only model-checked: `EventuallyCaughtUp`, and `CaughtUpIsSynced`, which was checked with two schedulers as well (9.7 million
states, too long for a run kept here).

## 11. The hashing pool (`HashingPool.tla`)

`Submit` is `submit` and `FairQueue::push`, `Notify` the `notify_one` after the mutex was released, `Cancel` a request that
goes away, `Look` and `Park` the worker's loop, `Run` and `Panic` the job, `Flag`, `NotifyAll`, `Join` the drop of the pool.
What runs under the mutex is one step, except that a worker which found nothing holds it from its look at the flag until
it waits: that gap is where a signal would be lost. The counters are variables of their own, as in the code, apart
from the sub-queues they count. Calls of one key are numbered in the order they are made, which loses nothing. A call
refused by the quota engine never reaches the pool. The drop waits for the calls that borrow the pool.

The run **hashing_pool** (224 thousand states): two workers, tenant A with three calls from two environments, B with
two, depths 2, 2 and 4, two faults. `ShedForOwnFill`: a call is shed for what its own environment or tenant has in the
queue, or in a flood of two other tenants; `NoHeadOfLine`: a waiting sub-queue has one turn and every job taken from
another brings it nearer; `EveryWaitEnds`: a call is answered while a worker lives, and the drop returns. The bound over
all tenants is reached only with six calls; that instance (1.06 million states) passes too, in more than five minutes.
Fairness: threads run. A mutex that is not fair is enough, because the calls are finitely many. The module's `PoolInit`,
`PoolNext`, `PoolSpec` and `PoolTypeOK` are named so that one proof module can extend it together with `EventFeed`.

`FeedAndPoolProofs` proves `PoolTypeCorrect`, `OwnFill` (`ShedForOwnFill`) and `FairTurn` (`NoHeadOfLine`) for any finite set of calls,
any keys and worker threads, and any depths with `2 * PerTenant <= Global` (the two fan-out constants of the code). `PoolInv` has three
parts besides the types. `SubShape`: what waits in a sub-queue is a call of its key, once. `CountShape`: the counters, which the
code keeps apart from the sub-queues, are the numbers of queued calls, and no
tenant is beyond its depth. `TurnShape`: each sub-queue that is not empty has one
turn, and no other has. `OwnFill` then is a count: a pool that is full while one tenant is below its bound and another within
its own holds calls of a third, since `(PerTenant - 1) + PerTenant < Global`.

In the runs of sections 5 to 11 deadlock is not checked: a bounded instance in which everything has happened may stop.
Each of these modules defines a `TypeOK`, which is not in its run; it is proved. `EveryWaitEnds` is only model-checked.

## 12. Findings

One run is expected to fail: TLC exhibits a behaviour of the code that its documentation excludes.

- **break_glass_units**: the management surface passes microseconds times 1000 to `break_glass`, so the compromised key
  is retired and expired in the far future and goes on signing and being published.

### Further disagreements met while modelling

The properties named here are defined in the modules, below the ones that hold; TLC refutes each with the constants of
the component's run unless others are given.

Outbox:

- `SweepsOnlyEnded`: the dead-letter sweep selects ids and deletes by id in one statement (R:28750); a replay that
  commits while the delete waits makes the message pending, and it is deleted undelivered (O:1440-1442).
- A claim hands a message out again once its lease is over, so two messages of one group can be handled together when a
  handler outlives its lease (`GroupSerial` states the exact exception). R:27603-27605 speaks of the "STRONG form".
- A replay makes an earlier message claimable while a later one of its group is in hand or done (`HeadFirst`, exception
  `disturbed`); compare R:25430-25431 and R:28352.
- A handler that always outlives its lease, with two workers taking turns, never has an attempt counted.
- Reaping a completed row frees its idempotency key: a producer that repeats the enqueue later delivers it again. The
  retention window documents it.

Sessions and grants:

- `FencedHasNoSession`: the lifecycle check of a login and its rotation are two transactions
  (`ironauth-oidc/src/interaction.rs:592` against 583-585), and the cascade of a block works on its own snapshot.
- `SidBound`: `ensure_sid` reads the session without locking it (R:29617 against R:29593-29596).
- `SweepEndsAll`: a revoke-all that waits for a row under rotation skips the prior session and has never seen the
  successor (R:24147 against R:24077-24079).
- A redeem checks the session in its SELECT and rotates in a later statement; a logout that commits in between does not
  stop that one refresh (R:16554-16556). The successor belongs to a revoked family, by `NoOrphan`.
- A hard kill reaches grants through their families (R:24770-24791, R:29447), so a consumed grant whose family was never
  opened keeps its access tokens (R:24081-24083).
- An offline family takes no lock on the session. When it opens across a rotation it stays on the superseded session
  (R:23716-23723, R:24652-24656). `NoOrphan` is therefore about session-bound families only.
- Rotation's read of the prior session tests no expiry (R:24574), and two bulk revokes may name sessions in opposite
  orders (R:24030): the latter deadlock ends as a rollback, `Abort`.

Event feed:

- `NoSilentGap`: the window check and the page are two transactions, so a prune between them is not announced; R:26447-26453
  says that silent gaps are forbidden.
- A row whose transaction drew its id before, and its sequence after, those of another lets a page jump over the
  other (`inverted` in `Accounted`). R:28130-28137 documents it.

Fan-out:

- `DisabledOwesNothing`: a trigger that read the stream before it was disabled queues a token after (R:88841-88846: "the
  two can never disagree").
- `OwedWithinCeiling`: two trigger workers count on their snapshots and both insert (R:88111-88114). Needs a second
  worker for the triggers and, because a behaviour of the model ends few sessions, four faults. `CeilingOvershoot` bounds
  the excess and `CeilingAlone` excludes it for a single worker.
- One event reaches at most 512 streams (`MAX_STREAMS_PER_EVENT`); the rest is cut without a retry.

Device grant and CIBA:

- `CibaPolledApart`: two CIBA polls that read the same snapshot are both on time (R:77600-77603 against R:77618-77682).
- The device redemption checks neither the expiry nor the grant again, and the approval not the session; the slow-down
  interval has no upper bound; a failed CIBA redemption need not be "another redemption winning the race".

Signing keys:

- Two timers that seed at the same time leave twin successors with the same `activate_at` (`rotation_timer.rs:7-14`).
- Break-glass is two transactions, and a promotion that listed before overwrites the expiry of the key it withdrew:
  nothing keeps a timer's pass and an operator's call apart, so `BreakGlassWithdraws` fails in the documented unit too.
- An error in one environment ends the pass for those after it. The operator's `advance` uses the default policy and a
  lifetime of 3600; after a scaled `advance` the pending successor keeps the timer from ever seeding again.

Messages:

- `MailedOnce`: a lost answer is `ProviderUnavailable` (`ironauth-admin/src/message_http_provider.rs:24-29`, 119-124;
  `message_http_channel.rs:52-55`; `message_smtp_channel.rs:57-61`), and the code fails over (`message_delivery.rs:120-130`) or
  retries (`message_consumer.rs:298-308`), so one generation can be mailed twice. `message_consumer.rs:103-105` calls
  that "the exact harm the claim exists to prevent", and says that the arms after the delivery do not release.
- `PendingAlwaysQueued`: worker A overruns, B loses the claim and completes the job, A releases: a `pending` row without
  a job, which resend refuses. R:26858: "`pending` is already queued and will be delivered".
- `RateAlways`: a row stamped later than the producer's reading is not counted (R:26944 against R:27095-27105).
- A retry that finds the row claimed finds it `sending`, which is resendable (`ironauth-admin/src/messages.rs:294-296`).
- Suppression is not checked again at delivery.

SCIM push:

- `DepartedIsWithdrawn`: a subject pushed without its link being recorded, which then leaves, stays active downstream
  (`scim_push_worker.rs:23-26`).
- `SkipsNobodyAtAll`: progress is written without comparing the collection (R:85982; compare R:86019-86020), so with two
  schedulers a late worker of the users' half moves the groups' position, and groups below it are skipped.
- `ReferenceAppears`: a member that is linked after its group was sent is not named until the next event of the group;
  `scim_push_directory.rs:326-328` says that "the reference appears once the person does".
- A connection whose position was pruned, or that meets `Gone` although it has missed nothing (R:28022-28032), fails every
  tick from then on. `scim_push_worker.rs:326-328` leaves it to an operator "whether to re-enumerate", but
  `restart_backfill` has no caller outside the tests.
- After two refusals in a row the pass expects one failure more than the row counts, its checkpoint misses, and the pass
  is recorded as a store failure with a pause (`scim_push_worker.rs:785-807`). A backfill that loses a race ends the
  same way, and two replicas' backfills can keep invalidating each other.
- A push in flight can bring back a subject that another worker has withdrawn.

Hashing pool:

- "An idle tenant is NEVER shed for a noisy tenant's fill" (`hashing_pool.rs:35`): two tenants at their bound fill the
  pool (8 + 8 of 16), and a third, idle one is shed. `ShedForOwnFill` states what holds: one tenant alone cannot.
- A worker that panics is not replaced. When all are gone, the calls that wait get no error (`hashing_pool.rs:39-41`:
  worker faults "are typed `HashRejection` errors the caller surfaces").

Met while reading, in parts that are not modelled: the log shipper's cursor passes a row that commits late with an
older `occurred_at` (R:52330); a stream that is caught up can be refused for ever as a retention gap (R:52365-52393), and
that check and the read are two statements; pruning an interior position of the audit chain, and verifying it in two
transactions, report differences that are not tampering; `apply_invalidations` checkpoints a cold flush before the flush
(`hot_state.rs`; no caller).

## 13. Limits

- One scope at a time. Scopes share no row in the modelled tables except through the database itself.
- PostgreSQL is assumed to do what READ COMMITTED promises; `Abort` stands for every rollback, including deadlock
  victims.
- One clock. Readings go stale, but the clocks of two replicas do not drift apart.
- Cryptography, encodings and the network are not modelled; a handler is any verdict at any time.
- Only model-checked, on the instances above: the liveness properties (`EventuallyEnds`, `ShutdownEnds`, `EventuallyPassed`,
  `EventuallyTold`, `EventuallyCaughtUp`, `EveryWaitEnds`), because liveness under fairness is out of the prover's reach, and
  `CaughtUpIsSynced`.
- Not modelled: the open items of the plan, and the parts `PROJECT.json` lists as pure transformation, I/O or
  third-party engines. They are most of the source by lines; what is modelled is where rows are shared.
