---------------------------- MODULE HashingPool ----------------------------
(***************************************************************************)
(* The password-hashing pool: calls that push jobs into a fair queue, the  *)
(* worker threads that take them, and the drop of the pool.                *)
(*                                                                         *)
(* The queue is guarded by a mutex and a condition variable.  What runs    *)
(* under the mutex is one step, but for a worker that found nothing: it    *)
(* holds the mutex from its look at the shutdown flag until it waits.      *)
(***************************************************************************)
EXTENDS Integers, Sequences, FiniteSets

CONSTANTS
  Workers,
  Calls,       \* 1 .. n: calls of hash, verify, verify_absent or thread_diagnostics;
               \* those of one key are numbered in the order they are made
  KeyOf,       \* KeyOf[c]: the <<tenant, environment>> of call c
  PerEnv, PerTenant, Global,   \* the three depths
  MaxFaults    \* bound: panics, spurious wakeups and requests that go away

\* PER_TENANT_AGGREGATE_FANOUT is half of GLOBAL_BACKSTOP_FANOUT.
ASSUME DepthAssumption ==
  /\ Calls = 1 .. Cardinality(Calls) /\ IsFiniteSet(Calls)
  /\ {PerEnv, PerTenant, Global} \subseteq Nat \ {0}
  /\ PerEnv <= PerTenant /\ 2 * PerTenant <= Global
  /\ MaxFaults \in Nat

VARIABLES
  call,      \* "new", "awaiting" or "over"
  owed,      \* calls that have pushed their job and not yet signalled it
  sub,       \* FairQueue.tenants: the jobs waiting in each sub-queue
  totals,    \* FairQueue.tenant_totals
  order,     \* FairQueue.order: the sub-queues to serve, next one first
  total,     \* FairQueue.total
  thread,    \* where each worker is
  op,        \* the job each worker runs
  owner,     \* the pool's handle: "held", "flagged", "joining" or "joined"
  faults,
  wronged    \* history: calls shed for no fill of their own nor a broad one

fair == <<sub, totals, order, total>>
poolVars == <<call, owed, fair, thread, op, owner, faults, wronged>>

Keys    == {KeyOf[c] : c \in Calls}
Tenants == {k[1] : k \in Keys}
NONE    == 0

Waiting(k)   == Len(sub[k])
MutexFree    == \A w \in Workers : thread[w] # "parking"
ShuttingDown == owner # "held"
Fault        == faults < MaxFaults /\ faults' = faults + 1

PoolInit ==
  /\ call = [c \in Calls |-> "new"] /\ owed = {}
  /\ sub = [k \in Keys |-> <<>>]
  /\ totals = [t \in Tenants |-> 0]
  /\ order = <<>> /\ total = 0
  /\ thread = [w \in Workers |-> "top"]
  /\ op = [w \in Workers |-> NONE]
  /\ owner = "held" /\ faults = 0
  /\ wronged = {}

-----------------------------------------------------------------------------
(* The calls.                                                              *)

\* The three bounds of FairQueue::push.
Shedding(k) == Waiting(k) >= PerEnv \/ totals[k[1]] >= PerTenant \/ total >= Global

\* What may be shed: a call whose own environment or tenant has filled its share, or
\* one that meets a flood of at least two other tenants.
Queued(c)    == \E i \in 1 .. Waiting(KeyOf[c]) : sub[KeyOf[c]][i] = c
FillOf(t)    == {c \in Calls : KeyOf[c][1] = t /\ Queued(c)}
Deserved(k)  == \/ Waiting(k) >= PerEnv
                \/ Cardinality(FillOf(k[1])) >= PerTenant
                \/ \E t, u \in Tenants \ {k[1]} : t # u /\ FillOf(t) # {} /\ FillOf(u) # {}

\* submit and enqueue, which shed or push.  A call that admit refuses touches nothing
\* here, and is none of Calls.  The calls borrow the pool, so none is made once it is
\* being dropped.
Submit(c) ==
  LET k == KeyOf[c] IN
  /\ call[c] = "new" /\ ~ShuttingDown /\ MutexFree
  /\ \A b \in Calls : b < c /\ KeyOf[b] = k => call[b] # "new"
  /\ IF Shedding(k)
     THEN /\ call' = [call EXCEPT ![c] = "over"]
          /\ wronged' = IF Deserved(k) THEN wronged ELSE wronged \cup {c}
          /\ UNCHANGED <<owed, fair>>
     ELSE /\ call' = [call EXCEPT ![c] = "awaiting"]
          /\ owed' = owed \cup {c}
          /\ sub' = [sub EXCEPT ![k] = Append(@, c)]
          /\ total' = total + 1
          /\ totals' = [totals EXCEPT ![k[1]] = @ + 1]
          /\ order' = IF Waiting(k) = 0 THEN Append(order, k) ELSE order
          /\ UNCHANGED wronged
  /\ UNCHANGED <<thread, op, owner, faults>>

\* notify_one, after the mutex was released.
Notify(c) ==
  /\ c \in owed
  /\ owed' = owed \ {c}
  /\ \/ \E w \in Workers : /\ thread[w] = "waiting"
                           /\ thread' = [thread EXCEPT ![w] = "top"]
     \/ /\ \A w \in Workers : thread[w] # "waiting"
        /\ UNCHANGED thread
  /\ UNCHANGED <<call, fair, op, owner, faults, wronged>>

\* The request goes away; its job stays and is run for nobody.
Cancel(c) ==
  /\ Fault /\ call[c] = "awaiting" /\ c \notin owed
  /\ call' = [call EXCEPT ![c] = "over"]
  /\ UNCHANGED <<owed, fair, thread, op, owner, wronged>>

-----------------------------------------------------------------------------
(* The workers.                                                            *)

\* Mutant: the sub-queue goes on being served until it is empty.
RotatedNot(k) == IF Waiting(k) > 1 THEN order ELSE Tail(order)

\* The sub-queue that was served goes to the back if more is waiting in it.
Rotated(k) == IF Waiting(k) > 1 THEN Append(Tail(order), k) ELSE Tail(order)

\* Mutant: pop leaves the tenant's counter alone.
TakenNever(t) == totals

\* tenant_totals after a job of tenant t was taken.
Taken(t) == [totals EXCEPT ![t] = @ - 1]

\* FairQueue::pop
Pop(w) ==
  LET k == Head(order) IN
  /\ thread' = [thread EXCEPT ![w] = "running"]
  /\ op' = [op EXCEPT ![w] = Head(sub[k])]
  /\ sub' = [sub EXCEPT ![k] = Tail(@)]
  /\ total' = total - 1
  /\ totals' = Taken(k[1])
  /\ order' = Rotated(k)

\* worker_loop: a job, or the flag, or a wait.
Look(w) ==
  /\ thread[w] = "top" /\ MutexFree
  /\ \/ order # <<>> /\ Pop(w)
     \/ /\ order = <<>>
        /\ thread' = [thread EXCEPT ![w] = IF ShuttingDown THEN "gone" ELSE "parking"]
        /\ UNCHANGED <<fair, op>>
  /\ UNCHANGED <<call, owed, owner, faults, wronged>>

\* Condvar::wait releases the mutex and waits.
Park(w) ==
  /\ thread[w] = "parking"
  /\ thread' = [thread EXCEPT ![w] = "waiting"]
  /\ UNCHANGED <<call, owed, fair, op, owner, faults, wronged>>

\* The job's reply is sent or dropped: the call is over, if it is still there.
Ends(w, to) ==
  /\ thread[w] = "running"
  /\ thread' = [thread EXCEPT ![w] = to]
  /\ op' = [op EXCEPT ![w] = NONE]
  /\ call' = [call EXCEPT ![op[w]] = "over"]
  /\ UNCHANGED <<owed, fair, owner, wronged>>

\* run_op
Run(w) == Ends(w, "top") /\ UNCHANGED faults

\* run_op panics: the thread is lost, and nothing replaces it.
Panic(w) == Fault /\ Ends(w, "gone")

SpuriousWakeup(w) ==
  /\ Fault /\ thread[w] = "waiting"
  /\ thread' = [thread EXCEPT ![w] = "top"]
  /\ UNCHANGED <<call, owed, fair, op, owner, wronged>>

-----------------------------------------------------------------------------
(* Drop for HashingPool, once no call borrows the pool.                    *)

\* Mutant: the flag is stored without the mutex.
MayFlagUnlocked == TRUE

MayFlag == MutexFree

Flag ==
  /\ owner = "held" /\ MayFlag
  /\ \A c \in Calls : call[c] # "awaiting" /\ c \notin owed
  /\ owner' = "flagged"
  /\ UNCHANGED <<call, owed, fair, thread, op, faults, wronged>>

\* notify_all
NotifyAll ==
  /\ owner = "flagged" /\ owner' = "joining"
  /\ thread' = [w \in Workers |-> IF thread[w] = "waiting" THEN "top" ELSE thread[w]]
  /\ UNCHANGED <<call, owed, fair, op, faults, wronged>>

Join ==
  /\ owner = "joining" /\ \A w \in Workers : thread[w] = "gone"
  /\ owner' = "joined"
  /\ UNCHANGED <<call, owed, fair, thread, op, faults, wronged>>

-----------------------------------------------------------------------------
Work(w) == Look(w) \/ Park(w) \/ Run(w)
Drop    == Flag \/ NotifyAll \/ Join

PoolNext ==
  \/ \E c \in Calls : Submit(c) \/ Notify(c) \/ Cancel(c)
  \/ \E w \in Workers : Work(w) \/ Panic(w) \/ SpuriousWakeup(w)
  \/ Drop

\* Threads run: a worker's, one that is about to signal, and the one in drop.
PoolFairness ==
  /\ \A w \in Workers : WF_poolVars(Work(w))
  /\ WF_poolVars(\E c \in Calls : Notify(c))
  /\ WF_poolVars(NotifyAll \/ Join)

PoolSpec == PoolInit /\ [][PoolNext]_poolVars /\ PoolFairness

-----------------------------------------------------------------------------
(* Properties.                                                             *)

\* The type of the state.
PoolTypeOK ==
  /\ call \in [Calls -> {"new", "awaiting", "over"}] /\ owed \subseteq Calls
  /\ sub \in [Keys -> Seq(Calls)] /\ order \in Seq(Keys)
  /\ totals \in [Tenants -> Nat] /\ total \in Nat
  /\ thread \in [Workers -> {"top", "parking", "waiting", "running", "gone"}]
  /\ op \in [Workers -> Calls \cup {NONE}]
  /\ owner \in {"held", "flagged", "joining", "joined"}
  /\ wronged \subseteq Calls

Place(k) == CHOOSE i \in 1 .. Len(order) : order[i] = k

\* "One tenant's admitted backlog can never head-of-line-block another": each
\* sub-queue with a job waiting has one turn in the schedule, and every job taken
\* from another one brings its turn nearer, however the workers, late pushes and
\* emptied sub-queues interleave.  So it is served after one job at most of each.
NoHeadOfLine ==
  /\ [](\A k \in Keys :
         Cardinality({i \in 1 .. Len(order) : order[i] = k}) = (IF Waiting(k) > 0 THEN 1 ELSE 0))
  /\ [][\A k \in Keys :
         Waiting(k) > 0 /\ Waiting(k)' >= Waiting(k) =>
           Place(k)' = Place(k) - (IF total' < total THEN 1 ELSE 0)]_poolVars

\* No single tenant's fill sheds another's call, over however many environments it
\* is spread: a call is shed for what its own environment or tenant really has in
\* the queue, or in a flood of at least two others.  (FairQueue::push, and the
\* counters it shares with pop.)
ShedForOwnFill == wronged = {}

\* Every wait ends.  A call gets its answer or an error as long as a worker lives,
\* and the drop of the pool returns, through panics, spurious wakeups and requests
\* that went away: no signal is lost between a worker's look and its wait.
EveryWaitEnds ==
  LET Unanswered == \E c \in Calls : call[c] = "awaiting"
      AllDead    == \A w \in Workers : thread[w] = "gone"
  IN /\ Unanswered ~> (~Unanswered \/ AllDead)
     /\ owner = "flagged" ~> owner = "joined"

-----------------------------------------------------------------------------
(* The inductive strengthening of the safety properties.                   *)

\* A waiting job is a call of its sub-queue's key that was made, and waits once.
SubShape ==
  \A k \in Keys : \A i \in 1 .. Waiting(k) :
    /\ KeyOf[sub[k][i]] = k /\ call[sub[k][i]] # "new"
    /\ \A j \in 1 .. Waiting(k) : sub[k][i] = sub[k][j] => i = j

\* The counters count what waits, and no tenant is beyond its share.
CountShape ==
  /\ total = Cardinality({c \in Calls : Queued(c)})
  /\ \A t \in Tenants : totals[t] = Cardinality(FillOf(t)) /\ totals[t] <= PerTenant

\* The schedule has the sub-queues in which something waits, each once.
TurnShape ==
  /\ \A i, j \in 1 .. Len(order) : order[i] = order[j] => i = j
  /\ \A k \in Keys : Waiting(k) > 0 <=> \E i \in 1 .. Len(order) : order[i] = k

PoolInv == PoolTypeOK /\ SubShape /\ CountShape /\ TurnShape /\ ShedForOwnFill
=============================================================================
