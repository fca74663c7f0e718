--------------------------- MODULE MessageLedger ---------------------------
(***************************************************************************)
(* Outbound messages: the ledger row, its delivery jobs, the worker that   *)
(* claims the row and walks the providers, the operator's resend, and the  *)
(* limit on what one recipient is sent.                                    *)
(*                                                                         *)
(* Jobs travel through DeliveryQueue, the queue that Outbox implements.  A *)
(* job may be handled again while an earlier handler of it still runs; the *)
(* ledger row, claimed under a generation, decides who may mail.  Every    *)
(* transaction of a handler is a step of its own.                          *)
(***************************************************************************)
EXTENDS Integers, FiniteSets

CONSTANTS
  Recipients, Kinds,
  MessageIds,    \* 1 .. n: ledger rows, in the order of their commit
  Workers,
  Operators,     \* resend calls that may be in flight together
  Providers,     \* how many channels are configured, in failover order
  Limit, Window, \* RateBudget, counted per kind as every producer configures it
  DedupWindow,   \* width of the collapse window
  MaxStall,      \* age of the producer's clock reading when its transaction counts
  MaxResends,    \* bound: resends of one message
  Last,          \* bound: jobs ever enqueued
  MaxTime,       \* bound
  MaxFaults      \* bound: crashes, overruns, errors, lost answers, replays and sweeps

\* Providers > 0: validate_messaging refuses delivery without one.
ASSUME LedgerAssumption ==
  /\ IsFiniteSet(MessageIds) /\ MessageIds = 1 .. Cardinality(MessageIds)
  /\ Providers \in Nat \ {0} /\ Limit \in Nat \ {0}
  /\ Window \in Nat \ {0} /\ DedupWindow \in Nat \ {0}
  /\ {MaxStall, MaxResends, Last, MaxTime, MaxFaults} \subseteq Nat

VARIABLES
  status, group, hand, answer, late,   \* the queue, see DeliveryQueue
  body,        \* body[j]: the message and the attempt job j is keyed on
  row,         \* the table messages
  suppressed,  \* the table message_suppressions
  task,        \* task[w]: the handler w is running
  asking,      \* asking[o]: the message a resend in flight has passed its reads for, else 0
  now, faults,
  mailed,      \* history: mailed[m][g], how often a provider accepted generation g of m
               \* and said so
  unheard,     \* history: how often one accepted it and its answer was lost
  orphaned     \* history: rows released by a worker that had lost the job

queue == <<status, group, hand, answer, late>>
vars  == <<queue, body, row, suppressed, task, asking, now, faults, mailed, unheard, orphaned>>

Q == INSTANCE DeliveryQueue WITH Groups <- Recipients

Generations == 0 .. MaxResends
NoRow  == [state |-> "none", to |-> "none", kind |-> "none", at |-> 0, gen |-> 0]
NoTask == [pc |-> "idle", job |-> 0, gen |-> 0, next |-> 1]
NoJob  == [msg |-> 0, attempt |-> 0]

Rows   == {m \in MessageIds : row[m].state # "none"}
Mine(w) == body[task[w].job].msg
Goto(w, pc) == task' = [task EXCEPT ![w].pc = pc]
Fault  == faults < MaxFaults /\ faults' = faults + 1

Init ==
  /\ Q!Init
  /\ body = [j \in Q!Messages |-> NoJob]
  /\ row = [m \in MessageIds |-> NoRow]
  /\ suppressed = {}
  /\ task = [w \in Workers |-> NoTask]
  /\ asking = [o \in Operators |-> 0]
  /\ now = 0 /\ faults = 0
  /\ mailed = [m \in MessageIds |-> [g \in Generations |-> 0]]
  /\ unheard = [m \in MessageIds |-> [g \in Generations |-> 0]]
  /\ orphaned = {}

Tick ==
  /\ now < MaxTime
  /\ now' = now + 1
  /\ UNCHANGED <<queue, body, row, suppressed, task, asking, faults, mailed, unheard, orphaned>>

\* The job of one delivery attempt, keyed on both and ordered by recipient.
QueueJob(m, attempt, r) ==
  LET j == 1 + Cardinality({i \in Q!Messages : status[i] # "unborn"}) IN
  /\ j <= Last
  /\ Q!Publish(j, r)
  /\ body' = [body EXCEPT ![j] = [msg |-> m, attempt |-> attempt]]

-----------------------------------------------------------------------------
(* The producers.                                                          *)

\* Mutant: the window one instant too short.
InShortWindow(sent, at) == at - Window + 1 < sent /\ sent <= at

\* The window is (now - window, now], bounded at both ends.
InWindow(sent, at) == at - Window < sent /\ sent <= at

\* Rows of the same recipient and kind inside the window of the reading.
Counted(r, k, at) ==
  {m \in Rows : row[m].to = r /\ row[m].kind = k /\ InWindow(row[m].at, at)}

Collapses(r, k, at) ==
  \E m \in Rows : row[m].to = r /\ row[m].kind = k
                    /\ row[m].at \div DedupWindow = at \div DedupWindow

\* MessageRepo::enqueue: the advisory lock of the recipient makes check and insert
\* one step, and `at`, the producer's reading, is older than the lock.  A refusal
\* and a collapse write nothing.
Enqueue(r, k, at) ==
  LET m == 1 + Cardinality(Rows) IN
  /\ m \in MessageIds /\ at >= 0
  /\ r \notin suppressed
  /\ Cardinality(Counted(r, k, at)) < Limit
  /\ ~Collapses(r, k, at)
  /\ row' = [row EXCEPT ![m] = [state |-> "pending", to |-> r, kind |-> k, at |-> at, gen |-> 0]]
  /\ QueueJob(m, 0, r)
  /\ UNCHANGED <<suppressed, task, asking, now, faults, mailed, unheard, orphaned>>

\* suppress, which takes no lock.  (No code calls it yet.)
Suppress(r) ==
  /\ r \notin suppressed
  /\ suppressed' = suppressed \cup {r}
  /\ UNCHANGED <<queue, body, row, task, asking, now, faults, mailed, unheard, orphaned>>

-----------------------------------------------------------------------------
(* A worker of the pool and MessageDeliveryConsumer::handle.               *)

Take(w, j) ==
  /\ task[w].pc = "idle"
  /\ Q!Take(w, j)
  /\ task' = [task EXCEPT ![w] = [NoTask EXCEPT !.pc = "start", !.job = j]]
  /\ UNCHANGED <<body, row, suppressed, asking, now, faults, mailed, unheard, orphaned>>

\* claim_for_delivery: the winner learns its generation; the loser is done.
ClaimRow(w) ==
  LET m == Mine(w) IN
  /\ task[w].pc = "start"
  /\ IF row[m].state = "pending"
     THEN /\ row' = [row EXCEPT ![m].state = "sending"]
          /\ \/ /\ task' = [task EXCEPT ![w].pc = "prepare", ![w].gen = row[m].gen]
                /\ UNCHANGED faults
             \/ Goto(w, "retry") /\ Fault          \* committed, and the answer lost
     ELSE Goto(w, "ok") /\ UNCHANGED <<row, faults>>
  /\ UNCHANGED <<queue, body, suppressed, asking, now, mailed, unheard, orphaned>>

\* The recipient is opened and the message composed, or refused by the composer.
Compose(w) ==
  /\ task[w].pc = "prepare"
  /\ Goto(w, "send") \/ Goto(w, "refused")
  /\ UNCHANGED <<queue, body, row, suppressed, asking, now, faults, mailed, unheard, orphaned>>

\* deliver, next_step: a provider that is unavailable passes the message on to the
\* next one, and the last one to the release; a rejection is final.  A timeout and a
\* broken connection are "unavailable" as well, also when the provider had taken the
\* message by then.
Send(w) ==
  /\ task[w].pc = "send"
  /\ \/ /\ mailed' = [mailed EXCEPT ![Mine(w)][task[w].gen] = @ + 1]
        /\ Goto(w, "accepted")
        /\ UNCHANGED <<unheard, faults>>
     \/ Goto(w, "rejected") /\ UNCHANGED <<mailed, unheard, faults>>
     \/ /\ IF task[w].next < Providers
           THEN task' = [task EXCEPT ![w].next = @ + 1]
           ELSE Goto(w, "release")
        /\ \/ UNCHANGED <<unheard, faults>>
           \/ Fault /\ unheard' = [unheard EXCEPT ![Mine(w)][task[w].gen] = @ + 1]
        /\ UNCHANGED mailed
  /\ UNCHANGED <<queue, body, row, suppressed, asking, now, orphaned>>

\* Mutant: the generation is not compared.
OwnsAny(m, g) == row[m].state \in {"pending", "sending"}

Owns(m, g) == row[m].state \in {"pending", "sending"} /\ row[m].gen = g

\* resolve.  A row that is no longer the worker's is left alone, and only a refusal
\* by the composer is retried for it.
Resolve(w) ==
  LET m == Mine(w)  owns == Owns(m, task[w].gen) IN
  /\ task[w].pc \in {"accepted", "rejected", "refused"}
  /\ row' = IF owns THEN [row EXCEPT ![m].state = IF task[w].pc = "accepted" THEN "sent" ELSE "failed"]
                    ELSE row
  /\ \/ Goto(w, IF owns \/ task[w].pc # "refused" THEN "ok" ELSE "retry") /\ UNCHANGED faults
     \/ Goto(w, "retry") /\ Fault          \* committed, and the answer lost
  /\ UNCHANGED <<queue, body, suppressed, asking, now, mailed, unheard, orphaned>>

\* Mutant: an outage of all providers ends the job.
OutageEndsJob == "ok"

AfterRelease == "retry"

\* release_claim, the same whether it changed the row, did not or failed.
Release(w) ==
  LET m == Mine(w)  owns == row[m].state = "sending" /\ row[m].gen = task[w].gen IN
  /\ task[w].pc = "release"
  /\ row' = IF owns THEN [row EXCEPT ![m].state = "pending"] ELSE row
  /\ orphaned' = IF owns /\ hand[w] # task[w].job THEN orphaned \cup {m} ELSE orphaned
  /\ Goto(w, AfterRelease)
  /\ UNCHANGED <<queue, body, suppressed, asking, now, faults, mailed, unheard>>

\* A statement fails and changes nothing.  Before the providers were asked, the
\* claim is released.
StoreError(w) ==
  /\ Fault
  /\ \/ task[w].pc = "prepare" /\ Goto(w, "release")
     \/ task[w].pc \in {"start", "accepted", "rejected", "refused", "release"} /\ Goto(w, "retry")
  /\ UNCHANGED <<queue, body, row, suppressed, asking, now, mailed, unheard, orphaned>>

\* The handler returns; a worker that no longer has the job drops its answer.
Report(w) ==
  /\ task[w].pc \in {"ok", "retry"}
  /\ IF hand[w] = task[w].job THEN Q!Answer(w, task[w].pc) ELSE UNCHANGED queue
  /\ task' = [task EXCEPT ![w] = NoTask]
  /\ UNCHANGED <<body, row, suppressed, asking, now, faults, mailed, unheard, orphaned>>

Settle(w) ==
  /\ Q!Settle(w)
  /\ UNCHANGED <<body, row, suppressed, task, asking, now, faults, mailed, unheard, orphaned>>

\* The lease passes to others while the handler goes on ..
Overrun(w) ==
  /\ Fault /\ hand[w] # 0
  /\ Q!Lose({w})
  /\ UNCHANGED <<body, row, suppressed, task, asking, now, mailed, unheard, orphaned>>

\* .. or the process dies.
Crash(w) ==
  /\ Fault /\ (hand[w] # 0 \/ task[w].pc # "idle")
  /\ Q!Lose({w})
  /\ task' = [task EXCEPT ![w] = NoTask]
  /\ UNCHANGED <<body, row, suppressed, asking, now, mailed, unheard, orphaned>>

-----------------------------------------------------------------------------
(* The operator and retention.                                             *)

\* The payload of an attempt lives on its job.
Retained(m, attempt) ==
  \E j \in Q!Messages :
    status[j] \in {"pending", "done", "dead"} /\ body[j] = [msg |-> m, attempt |-> attempt]

\* resend_in_tx reads the row, the suppression and the payload ..
ResendRead(o, m) ==
  /\ asking[o] = 0 /\ m \in Rows
  /\ row[m].to \notin suppressed
  /\ Retained(m, row[m].gen)
  /\ asking' = [asking EXCEPT ![o] = m]
  /\ UNCHANGED <<queue, body, row, suppressed, task, now, faults, mailed, unheard, orphaned>>

\* .. and moves the row if it is failed or sending, with a job of its own.
ResendCommit(o) ==
  LET m == asking[o] IN
  /\ m # 0
  /\ asking' = [asking EXCEPT ![o] = 0]
  /\ IF row[m].state \in {"failed", "sending"}
     THEN /\ row[m].gen < MaxResends
          /\ row' = [row EXCEPT ![m].state = "pending", ![m].gen = @ + 1]
          /\ QueueJob(m, row[m].gen + 1, row[m].to)
     ELSE UNCHANGED <<queue, body, row>>
  /\ UNCHANGED <<suppressed, task, now, faults, mailed, unheard, orphaned>>

\* revive_dead_lettered
Replay(j) ==
  /\ Fault /\ status[j] = "dead"
  /\ Q!Replay({j})
  /\ UNCHANGED <<body, row, suppressed, task, asking, now, mailed, unheard, orphaned>>

\* Completed jobs are reaped; dead letters are kept unless configured otherwise.
Reap(j) ==
  /\ Fault /\ status[j] = "done"
  /\ Q!Remove({j})
  /\ UNCHANGED <<body, row, suppressed, task, asking, now, mailed, unheard, orphaned>>

-----------------------------------------------------------------------------
Handle(w) == ClaimRow(w) \/ Compose(w) \/ Send(w) \/ Resolve(w) \/ Release(w) \/ Report(w) \/ Settle(w)

Next ==
  \/ Tick
  \/ \E r \in Recipients : Suppress(r) \/
       \E k \in Kinds, at \in (now - MaxStall) .. now : Enqueue(r, k, at)
  \/ \E w \in Workers : Handle(w) \/ StoreError(w) \/ Overrun(w) \/ Crash(w)
       \/ \E j \in Q!Messages : Take(w, j)
  \/ \E o \in Operators : ResendCommit(o) \/ \E m \in MessageIds : ResendRead(o, m)
  \/ \E j \in Q!Messages : Replay(j) \/ Reap(j)

Spec == Init /\ [][Next]_vars

-----------------------------------------------------------------------------
(* Properties.                                                             *)

RowType  == [state : {"none", "pending", "sending", "sent", "failed"},
             to : Recipients \cup {"none"}, kind : Kinds \cup {"none"},
             at : 0 .. MaxTime, gen : Generations]
JobType  == [msg : MessageIds \cup {0}, attempt : Generations]
TaskType == [pc : {"idle", "start", "prepare", "send", "accepted", "rejected", "refused",
                   "release", "ok", "retry"},
             job : 0 .. Last, gen : Generations, next : 1 .. Providers]

\* The type of the state.
TypeOK ==
  /\ status \in [Q!Messages -> {"unborn", "pending", "done", "dead", "removed"}]
  /\ hand \in [Workers -> 0 .. Last] /\ answer \in [Workers -> {"none", "ok", "retry"}]
  /\ row \in [MessageIds -> RowType]
  /\ body \in [Q!Messages -> JobType]
  /\ task \in [Workers -> TaskType]
  /\ asking \in [Operators -> MessageIds \cup {0}]
  /\ mailed \in [MessageIds -> [Generations -> Nat]]
  /\ unheard \in [MessageIds -> [Generations -> Nat]]
  /\ now \in 0 .. MaxTime
  /\ suppressed \subseteq Recipients /\ orphaned \subseteq MessageIds

\* "At-least-once delivery of the JOB must not become at-least-once delivery of the
\* MAIL": however often a job is handled, by however many workers at once, the mails of
\* a generation are at most one more than the answers of providers that were lost.  And
\* what the operator reads is what the workers were told about the generation the row
\* is at: sent means that a provider said it took it, failed and pending that none did,
\* also when workers of earlier generations report late.
OneMailAsRecorded ==
  /\ \A m \in MessageIds, g \in Generations : mailed[m][g] <= 1
  /\ \A m \in Rows :
       /\ row[m].state = "sent" => mailed[m][row[m].gen] = 1
       /\ row[m].state \in {"failed", "pending"} => mailed[m][row[m].gen] = 0

\* A pending row has a job that will deliver it, or a dead letter an operator can
\* replay, except when it was released by a worker whose lease had passed to another:
\* that one lost the claim and completed the job.
PendingIsQueued ==
  \A m \in Rows \ orphaned :
    row[m].state = "pending" =>
      \E j \in Q!Messages : body[j].msg = m /\ status[j] \in {"pending", "dead"}

\* The rows of m's recipient and kind from the Window instants that end with m's.
SameWindow(m) ==
  {i \in Rows : /\ row[i].to = row[m].to /\ row[i].kind = row[m].kind
                /\ row[m].at - row[i].at \in 0 .. Window - 1}

\* A window holds at most Limit messages of a recipient and a kind, except where two
\* of them were committed against the order of their producers' clock readings: a
\* row stamped later than the reading is not counted.
RateHolds ==
  \A m \in Rows :
    LET I == SameWindow(m) IN
    \/ Cardinality(I) <= Limit
    \/ \E i, j \in I : i < j /\ row[i].at > row[j].at

-----------------------------------------------------------------------------
(* The inductive strengthening: how rows, jobs and handlers agree in every *)
(* state, from which the safety properties follow.                         *)

\* Rows are numbered densely, and jobs, handlers and resends are about rows there are.
LedgerShape ==
  /\ \E n \in 0 .. Cardinality(MessageIds) : Rows = 1 .. n
  /\ \A j \in Q!Messages : status[j] # "unborn" => body[j].msg \in Rows
  /\ \A w \in Workers : task[w].pc # "idle" =>
       task[w].job \in Q!Messages /\ status[task[w].job] # "unborn"
  /\ \A o \in Operators : asking[o] # 0 => asking[o] \in Rows

\* A job in hand is pending and in one worker's hands, whose handler runs or has answered.
HandShape ==
  /\ \A w \in Workers : hand[w] # 0 =>
       /\ hand[w] \in Q!Messages /\ status[hand[w]] = "pending"
       /\ answer[w] = "none" => task[w].job = hand[w] /\ task[w].pc # "idle"
       /\ answer[w] # "none" => task[w].pc = "idle"
  /\ \A w \in Workers : hand[w] = 0 => answer[w] = "none"
  /\ \A v, w \in Workers : hand[v] = hand[w] /\ hand[v] # 0 => v = w

\* The steps between a won claim and what the handler does with it.
Claimed(w) == task[w].pc \in {"prepare", "send", "accepted", "rejected", "refused", "release"}

\* A generation is claimed by one handler, which has mailed it only if it says so; a
\* claim on the generation the row is at shows on the row; later ones are not mailed.
ClaimShape ==
  /\ \A v, w \in Workers :
       Claimed(v) /\ Claimed(w) /\ Mine(v) = Mine(w) /\ task[v].gen = task[w].gen => v = w
  /\ \A w \in Workers : Claimed(w) =>
       /\ task[w].gen <= row[Mine(w)].gen
       /\ task[w].gen = row[Mine(w)].gen => row[Mine(w)].state = "sending"
       /\ mailed[Mine(w)][task[w].gen] = IF task[w].pc = "accepted" THEN 1 ELSE 0
  /\ \A m \in MessageIds, g \in Generations : m \notin Rows \/ g > row[m].gen => mailed[m][g] = 0

\* Job j will bring its message to a claim: no handler that holds it can complete it.
Live(j) ==
  /\ status[j] \in {"pending", "dead"}
  /\ \A w \in Workers : hand[w] = j =>
       answer[w] = "retry" \/ (answer[w] = "none" /\ task[w].pc \in {"start", "retry"})

\* A pending row has a live job.
LiveShape ==
  \A m \in Rows \ orphaned :
    row[m].state = "pending" => \E j \in Q!Messages : body[j].msg = m /\ Live(j)

\* What stood before row m in the window of its reading.
Before(m) ==
  {i \in Rows : /\ i < m /\ row[i].to = row[m].to /\ row[i].kind = row[m].kind
                /\ InWindow(row[i].at, row[m].at)}

\* Each row was inserted with room in its window.
RateShape == \A m \in Rows : Cardinality(Before(m)) < Limit

IInv == /\ TypeOK /\ LedgerShape /\ HandShape /\ ClaimShape /\ LiveShape /\ RateShape
        /\ OneMailAsRecorded

\* A row is addressed, so its jobs have a group of the queue.
Addressed == \A m \in Rows : row[m].to \in Recipients

-----------------------------------------------------------------------------
(* What comments of the source state and the code does not give.           *)

\* "`pending` is already queued and will be delivered."
PendingAlwaysQueued ==
  \A m \in Rows :
    row[m].state = "pending" =>
      \E j \in Q!Messages : body[j].msg = m /\ status[j] \in {"pending", "dead"}

\* No burst passes a budget of one, as RateHolds but without its exception.
RateAlways == \A m \in Rows : Cardinality(SameWindow(m)) <= Limit

\* "Releasing AFTER a provider has seen the message would re-offer it and mail the
\* recipient twice, which is the exact harm the claim exists to prevent."
MailedOnce == \A m \in MessageIds, g \in Generations : mailed[m][g] + unheard[m][g] <= 1
=============================================================================
