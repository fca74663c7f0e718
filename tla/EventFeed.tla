----------------------------- MODULE EventFeed -----------------------------
(***************************************************************************)
(* The ordered event feed of one scope: outbox_messages read by position   *)
(* instead of by claim.  Producers write rows inside transactions of their *)
(* own, the drain and the retention sweeper change and delete rows, and    *)
(* cursor consumers page through the table behind a visibility watermark.  *)
(*                                                                         *)
(* A row's sequence is handed out at INSERT, a transaction's xid at its    *)
(* first write, and the row is visible from COMMIT: the three orders may   *)
(* all differ.  An UPDATE writes a new version of the row, whose xmin is   *)
(* the xid of the updating transaction.  Postgres is external; what it     *)
(* does is modelled from the statements the code sends it.                 *)
(***************************************************************************)
EXTENDS Integers, Sequences, FiniteSets

CONSTANTS
  Readers,    \* cursor consumers of the feed
  Limit,      \* rows a page may hold
  MaxRows,    \* bound: rows ever inserted in the scope
  MaxXid      \* bound: transactions that write

ASSUME FeedAssumption == Limit \in Nat \ {0} /\ MaxRows \in Nat /\ MaxXid \in Nat

Rows == 1 .. MaxRows
Xids == 1 .. MaxXid

\* "event": consumer webhook.event, the only one whose insert takes the append
\* lock.  "delivery": every other claimed consumer.  "broadcast": read by
\* cursor only, never claimed (hot-state invalidations).
Kinds == {"event", "delivery", "broadcast"}

VARIABLES
  tx,         \* tx[x]: the transaction with xid x, and the row it writes (0: none)
  lastXid,    \* the last transaction id handed out
  lastSeq,    \* the last sequence handed out
  rows,       \* rows[s]: the newest committed version, or the open insert
  appendLock, \* the transaction that holds the scope's advisory lock, 0 if none
  cursor,     \* cursor[r]: the sequence r has read through
  pc,         \* "idle", or "checked" between a page's two transactions
  commits,    \* history: the event rows, in the order they committed
  served,     \* history: the rows r was handed
  told,       \* history: the rows r was told it may have missed, or that were
              \* gone when it asked for the beginning of what is retained
  inverted,   \* history: rows passed over unsettled below a settled row
  pruned      \* history: rows deleted before r's page reached them

feed    == <<tx, lastXid, lastSeq, rows, appendLock, commits>>
reading == <<cursor, pc, served, told, inverted>>
vars    == <<feed, reading, pruned>>

Running(x)  == tx[x].st = "running"
Visible(s)  == rows[s].st = "committed"
Present(s)  == rows[s].st \in {"open", "committed"}

\* The transaction x is writing s at the moment, and holds its row lock.
Writes(x, s) == Running(x) /\ tx[x].row = s

-----------------------------------------------------------------------------
Init ==
  /\ tx = [x \in Xids |-> [st |-> "new", row |-> 0]]
  /\ lastXid = 0
  /\ lastSeq = 0
  /\ rows = [s \in Rows |-> [st |-> "unused", kind |-> "event", xmin |-> 0, ended |-> FALSE]]
  /\ appendLock = 0
  /\ cursor = [r \in Readers |-> 0]
  /\ pc = [r \in Readers |-> "idle"]
  /\ commits = <<>>
  /\ served = [r \in Readers |-> {}]
  /\ told = [r \in Readers |-> {}]
  /\ inverted = [r \in Readers |-> {}]
  /\ pruned = [r \in Readers |-> {}]

-----------------------------------------------------------------------------
(* Transactions: known from their first write on, and named by the xid it  *)
(* draws.                                                                  *)

\* The first write of transaction x, of row s (0: of something else).
FirstWrite(x, s) ==
  /\ x \in Xids /\ x = lastXid + 1
  /\ lastXid' = x
  /\ tx' = [tx EXCEPT ![x] = [st |-> "running", row |-> s]]

\* A transaction whose first write is not to the outbox: the domain row its event
\* will ride with, or another database's work altogether.
BeginWrite(x) ==
  /\ FirstWrite(x, 0)
  /\ UNCHANGED <<rows, lastSeq, appendLock, commits, reading, pruned>>

\* Mutant: the lock left to append_event, so that the ordinary enqueue of an
\* event goes without.
TakesLockNever(k) == FALSE

\* take_event_append_lock: only an event row waits for the scope's lock, which
\* is held to the end of the transaction.
TakesLock(k) == k = "event"

\* enqueue_outbox_in_tx: the lock, then the INSERT, which draws the sequence and,
\* where it is the first write, the xid.
Insert(x, k) ==
  /\ lastSeq < MaxRows
  /\ TakesLock(k) => appendLock = 0
  /\ lastSeq' = lastSeq + 1
  /\ rows' = [rows EXCEPT ![lastSeq + 1] =
                [st |-> "open", kind |-> k, xmin |-> x, ended |-> FALSE]]
  /\ appendLock' = IF TakesLock(k) THEN x ELSE appendLock
  /\ \/ FirstWrite(x, lastSeq + 1)
     \/ /\ Running(x) /\ tx[x].row = 0
        /\ tx' = [tx EXCEPT ![x].row = lastSeq + 1]
        /\ UNCHANGED lastXid
  /\ UNCHANGED <<commits, reading, pruned>>

\* A claim, a lease renewal, or an ending written by the drain: an UPDATE of the
\* row, in a transaction of its own.  A second one waits for the row lock.
Update(x, s) ==
  /\ Visible(s) /\ rows[s].kind # "broadcast" /\ ~rows[s].ended
  /\ \A y \in Xids : ~Writes(y, s)
  /\ FirstWrite(x, s)
  /\ UNCHANGED <<rows, lastSeq, appendLock, commits, reading, pruned>>

\* COMMIT or ROLLBACK: the transaction's end, which releases the lock.
EndTx(x, st) ==
  /\ Running(x)
  /\ tx' = [tx EXCEPT ![x].st = st]
  /\ appendLock' = IF appendLock = x THEN 0 ELSE appendLock
  /\ UNCHANGED <<lastXid, lastSeq, reading, pruned>>

\* What the transaction wrote becomes the visible version; an UPDATE may have
\* been the one that ended the row.
Commit(x) ==
  /\ EndTx(x, "committed")
  /\ LET s == tx[x].row IN
     \/ s = 0 /\ UNCHANGED <<rows, commits>>
     \/ /\ s # 0 /\ rows[s].st = "open"
        /\ rows' = [rows EXCEPT ![s].st = "committed"]
        /\ commits' = IF rows[s].kind = "event" THEN Append(commits, s) ELSE commits
     \/ /\ s # 0 /\ Visible(s)
        /\ \E e \in BOOLEAN : rows' = [rows EXCEPT ![s].xmin = x, ![s].ended = e]
        /\ UNCHANGED commits

\* A failed write, or a lost connection: an insert leaves no row, an update
\* leaves the old version.
Rollback(x) ==
  /\ EndTx(x, "aborted")
  /\ rows' = [s \in Rows |-> IF s = tx[x].row /\ rows[s].st = "open"
                             THEN [rows[s] EXCEPT !.st = "gone"] ELSE rows[s]]
  /\ UNCHANGED commits

\* reap_completed and reap_dead_lettered delete ended rows, reap_broadcast any
\* broadcast row of enough age; none waits for the readers.
Reap(s) ==
  /\ Visible(s)
  /\ rows[s].ended \/ rows[s].kind = "broadcast"
  /\ \A x \in Xids : ~Writes(x, s)
  /\ rows' = [rows EXCEPT ![s].st = "gone"]
  /\ pruned' = [r \in Readers |-> IF s > cursor[r] THEN pruned[r] \cup {s} ELSE pruned[r]]
  /\ UNCHANGED <<tx, lastXid, lastSeq, appendLock, commits, reading>>

-----------------------------------------------------------------------------
(* A page is read in two transactions: the window check, then the rows.    *)

Retained == {s \in Rows : Visible(s)}

\* Mutant: resuming after the oldest retained row instead of before it.
ResumeAtOldest(oldest) == oldest

\* The cursor a consumer adopts when it is told Gone: just below the oldest
\* retained row (oldest_cursor of the feed, resume_at of a cold flush).
ResumeAt(oldest) == oldest - 1

\* Mutant: a window check without the + 1 of the cursor's own successor, so
\* that a consumer which has missed nothing is told Gone.
AgedOutInclusive(r, oldest) == cursor[r] > 0 /\ oldest >= cursor[r] + 1

\* events_page_after: a cursor past the beginning with nothing retained at or
\* next to it has aged out.
AgedOut(r, oldest) == cursor[r] > 0 /\ oldest > cursor[r] + 1

\* SELECT MIN(sequence), committed before the rows are read.
CheckWindow(r) ==
  /\ pc[r] = "idle"
  /\ \/ /\ Retained = {}
        /\ pc' = [pc EXCEPT ![r] = "checked"]
        /\ UNCHANGED <<cursor, told, inverted>>
     \/ \E oldest \in Retained :
          /\ \A s \in Retained : oldest <= s
          /\ \/ /\ ~AgedOut(r, oldest)
                /\ pc' = [pc EXCEPT ![r] = "checked"]
                /\ UNCHANGED <<cursor, told, inverted>>
             \/ /\ AgedOut(r, oldest)
                /\ cursor' = [cursor EXCEPT ![r] = ResumeAt(oldest)]
                /\ told' = [told EXCEPT ![r] = @ \cup (cursor[r] + 1) .. (oldest - 1)]
                /\ UNCHANGED <<pc, inverted>>
  /\ UNCHANGED <<feed, served, pruned>>

\* xmin < pg_snapshot_xmin: the row's version is older than every transaction
\* still running, in this scope or anywhere else.
Settled(s) == Visible(s) /\ \A x \in Xids : Running(x) => rows[s].xmin < x

After(r) == {s \in Rows : s > cursor[r] /\ Settled(s)}

\* ORDER BY sequence LIMIT n
Page(r) == {s \in After(r) : Cardinality({u \in After(r) : u < s}) < Limit}

\* The rows below the page's last one that the page leaves out, though they are
\* there or will be: written later, by xid, than a row that was served.
PassedOver(r) == {s \in Rows : s > cursor[r] /\ Present(s) /\ s \notin Page(r)
                     /\ \E u \in Page(r) : s < u /\ rows[u].xmin < rows[s].xmin}

\* events_after, and the next cursor the consumer stores: the page's last row, or
\* the cursor it came with.
ReadPage(r) ==
  /\ pc[r] = "checked"
  /\ pc' = [pc EXCEPT ![r] = "idle"]
  /\ \/ /\ Page(r) = {}
        /\ UNCHANGED <<cursor, served, inverted>>
     \/ \E last \in Page(r) :
          /\ \A s \in Page(r) : s <= last
          /\ cursor' = [cursor EXCEPT ![r] = last]
          /\ served' = [served EXCEPT ![r] = @ \cup Page(r)]
          /\ inverted' = [inverted EXCEPT ![r] = @ \cup PassedOver(r)]
  /\ told' = [told EXCEPT ![r] = IF cursor[r] = 0 THEN @ \cup pruned[r] ELSE @]
  /\ UNCHANGED <<feed, pruned>>

-----------------------------------------------------------------------------
Next ==
  \/ \E x \in Xids :
       \/ BeginWrite(x) \/ Commit(x) \/ Rollback(x)
       \/ \E k \in Kinds : Insert(x, k)
       \/ \E s \in Rows : Update(x, s)
  \/ \E s \in Rows : Reap(s)
  \/ \E r \in Readers : CheckWindow(r) \/ ReadPage(r)

\* Consumers keep polling, and every transaction ends: a connection that is
\* gone is rolled back by the server.
Fairness ==
  /\ \A r \in Readers : WF_vars(CheckWindow(r)) /\ WF_vars(ReadPage(r))
  /\ \A x \in Xids : WF_vars(Commit(x) \/ Rollback(x))

Spec == Init /\ [][Next]_vars /\ Fairness

-----------------------------------------------------------------------------
(* Properties.                                                             *)

TxType  == [st : {"new", "running", "committed", "aborted"}, row : 0 .. MaxRows]
RowType == [st : {"unused", "open", "committed", "gone"}, kind : Kinds, xmin : 0 .. MaxXid, ended : BOOLEAN]

\* The type of the state.
TypeOK ==
  /\ tx \in [Xids -> TxType]
  /\ lastXid \in 0 .. MaxXid
  /\ lastSeq \in 0 .. MaxRows
  /\ rows \in [Rows -> RowType]
  /\ appendLock \in 0 .. MaxXid
  /\ cursor \in [Readers -> 0 .. MaxRows]
  /\ pc \in [Readers -> {"idle", "checked"}]
  /\ commits \in Seq(Rows)
  /\ served \in [Readers -> SUBSET Rows]
  /\ told \in [Readers -> SUBSET Rows]
  /\ inverted \in [Readers -> SUBSET Rows]
  /\ pruned \in [Readers -> SUBSET Rows]

\* Event rows commit in the order of their sequences, whatever else the
\* transactions wrote and whenever they began: the append lock of
\* take_event_append_lock is held from the INSERT to the COMMIT.
EventsInCommitOrder ==
  \A i, j \in 1 .. Len(commits) : i < j => commits[i] < commits[j]

\* The transaction that inserted s was rolled back.
RolledBack(s) == rows[s].st = "gone" /\ \E x \in Xids : tx[x].row = s /\ tx[x].st = "aborted"

\* A consumer's cursor passes no row without a reason: every row at or below it
\* was served to it, or announced as possibly missed, or rolled back, or was
\* deleted before the page reached it, or lost its place to a row with a higher
\* sequence and an older xid.  (events_page_after, events_after and the cursors
\* the consumers store.)
Accounted ==
  \A r \in Readers, s \in Rows :
    s <= cursor[r] =>
      \/ s \in served[r] \cup told[r] \cup pruned[r] \cup inverted[r]
      \/ RolledBack(s)

\* Nothing is pruned in silence: a row that was deleted before a consumer with
\* a position read it is one the consumer was told of.
NoSilentGap ==
  \A r \in Readers : \A s \in pruned[r] :
    s <= cursor[r] => s \in told[r] \cup served[r]

\* The feed is never stuck: each row that commits is eventually behind every
\* cursor, or deleted, as long as transactions end (events_after's watermark
\* waits for the oldest one).
EventuallyPassed ==
  \A r \in Readers, s \in Rows :
    Visible(s) ~> (cursor[r] >= s \/ ~Visible(s))

-----------------------------------------------------------------------------
(* The inductive strengthening: what the transactions and the rows agree on *)
(* in every state, from which the safety properties follow.                *)

\* A running transaction's row is there, and no other one is writing it.
TxShape ==
  /\ \A x \in Xids : x > lastXid => tx[x].st = "new"
  /\ \A x \in Xids : Running(x) /\ tx[x].row # 0 => Present(tx[x].row)
  /\ \A x, y \in Xids :
       Running(x) /\ Running(y) /\ tx[x].row = tx[y].row /\ tx[x].row # 0 => x = y

\* The sequence is dense, and an open row belongs to the transaction that inserts it.
RowShape ==
  /\ \A s \in Rows : rows[s].st = "unused" <=> s > lastSeq
  /\ \A s \in Rows : rows[s].st = "open" => rows[s].xmin \in Xids /\ Writes(rows[s].xmin, s)

OpenEvent(s) == rows[s].st = "open" /\ rows[s].kind = "event"

\* The transaction of an open event row holds the lock, so that what committed did
\* so below it.
LockShape ==
  /\ \A s \in Rows : OpenEvent(s) => appendLock = rows[s].xmin
  /\ \A i \in 1 .. Len(commits) :
       /\ commits[i] <= lastSeq
       /\ \A s \in Rows : OpenEvent(s) => commits[i] < s

\* A row is gone because it was rolled back or reaped, and one reaped above a cursor
\* is remembered for it.
GoneShape ==
  /\ \A r \in Readers : cursor[r] <= lastSeq
  /\ \A s \in Rows : rows[s].st = "gone" =>
       RolledBack(s) \/ \A r \in Readers : s <= cursor[r] \/ s \in pruned[r]

IInv == TypeOK /\ TxShape /\ RowShape /\ LockShape /\ GoneShape /\ EventsInCommitOrder /\ Accounted
=============================================================================
