------------------------ MODULE MessageLedgerProofs ------------------------
(* Proofs about MessageLedger, for every value of its constants.           *)
EXTENDS MessageLedger, FiniteSetTheorems, WellFoundedInduction, TLAPS

Pcs == {"idle", "start", "prepare", "send", "accepted", "rejected", "refused", "release", "ok",
        "retry"}

LEMMA Bounds ==
  /\ Providers \in Nat \ {0} /\ Limit \in Nat \ {0} /\ Window \in Nat \ {0}
  /\ MaxStall \in Nat /\ MaxResends \in Nat /\ Last \in Nat /\ MaxTime \in Nat
  /\ Q!Messages = 1 .. Last /\ Generations = 0 .. MaxResends
BY LedgerAssumption DEF Q!Messages, Generations

\* MessageIds is an interval of the positive numbers.
LEMMA Ids == /\ IsFiniteSet(MessageIds) /\ Cardinality(MessageIds) \in Nat
             /\ MessageIds = 1 .. Cardinality(MessageIds)
BY LedgerAssumption, FS_CardinalityType

\* A nonempty set of naturals has a least member.
LEMMA NatMin ==
  ASSUME NEW T \in SUBSET Nat, T # {}
  PROVE  \E n \in T : \A k \in T : n <= k
<1>1. PICK n \in T : \A k \in T : ~(<<k, n>> \in OpToRel(<, Nat))
  BY NatLessThanWellFounded, WFMin
<1>2. \A k \in T : ~(k < n)
  BY <1>1 DEF OpToRel
<1> QED BY <1>2

\* A nonempty set of numbers with an upper bound has a greatest member.
LEMMA GreatestId ==
  ASSUME NEW N \in Nat, NEW S \in SUBSET (1 .. N), S # {}
  PROVE  \E x \in S : \A y \in S : y <= x
<1> DEFINE T == {n \in Nat : \E y \in S : n = N - y}
<1>1. T \in SUBSET Nat /\ T # {}
  <2>1. PICK y \in S : TRUE
    OBVIOUS
  <2>2. N - y \in T
    BY <2>1
  <2> QED BY <2>2
<1>2. PICK n \in T : \A k \in T : n <= k
  BY ONLY <1>1, NatMin
<1>3. PICK x \in S : n = N - x
  BY <1>2
<1>4. \A y \in S : y <= x
  BY <1>2, <1>3
<1> QED BY <1>4

-----------------------------------------------------------------------------
(* The rows, jobs and tasks that steps write.                              *)

LEMMA FieldTypes ==
  /\ \A r \in RowType : /\ r.state \in {"none", "pending", "sending", "sent", "failed"}
                        /\ r.at \in 0 .. MaxTime /\ r.gen \in Generations
  /\ \A r \in JobType : r.msg \in MessageIds \cup {0}
  /\ \A r \in TaskType : r.pc \in Pcs /\ r.job \in 0 .. Last /\ r.gen \in Generations
                           /\ r.next \in 1 .. Providers
BY DEF RowType, JobType, TaskType, Pcs

LEMMA RowUpdates ==
  ASSUME NEW r \in RowType
  PROVE  /\ \A st \in {"pending", "sending", "sent", "failed"} :
              /\ [r EXCEPT !.state = st] \in RowType
              /\ [r EXCEPT !.state = st].state = st
              /\ [r EXCEPT !.state = st].to = r.to
              /\ [r EXCEPT !.state = st].kind = r.kind
              /\ [r EXCEPT !.state = st].at = r.at
              /\ [r EXCEPT !.state = st].gen = r.gen
BY DEF RowType

LEMMA TaskUpdates ==
  ASSUME NEW r \in TaskType
  PROVE  /\ \A pc \in Pcs :
              /\ [r EXCEPT !.pc = pc] \in TaskType /\ [r EXCEPT !.pc = pc].pc = pc
              /\ [r EXCEPT !.pc = pc].job = r.job /\ [r EXCEPT !.pc = pc].gen = r.gen
         /\ \A pc \in Pcs, g \in Generations :
              /\ [r EXCEPT !.pc = pc, !.gen = g] \in TaskType
              /\ [r EXCEPT !.pc = pc, !.gen = g].pc = pc
              /\ [r EXCEPT !.pc = pc, !.gen = g].job = r.job
              /\ [r EXCEPT !.pc = pc, !.gen = g].gen = g
         /\ \A n \in 1 .. Providers :
              /\ [r EXCEPT !.next = n] \in TaskType /\ [r EXCEPT !.next = n].pc = r.pc
              /\ [r EXCEPT !.next = n].job = r.job /\ [r EXCEPT !.next = n].gen = r.gen
BY DEF TaskType, Pcs

LEMMA NoTaskType ==
  /\ NoTask \in TaskType /\ NoTask.pc = "idle"
  /\ \A j \in 0 .. Last : /\ [NoTask EXCEPT !.pc = "start", !.job = j] \in TaskType
                          /\ [NoTask EXCEPT !.pc = "start", !.job = j].pc = "start"
                          /\ [NoTask EXCEPT !.pc = "start", !.job = j].job = j
<1>1. 0 \in Generations /\ 0 \in 0 .. Last /\ 1 \in 1 .. Providers
  BY Bounds
<1>2. NoTask \in TaskType /\ NoTask.pc = "idle"
  BY <1>1 DEF NoTask, TaskType
<1> QED BY <1>2 DEF TaskType

\* The handler w moves to pc, and nothing else of the tasks changes.
Moved(w, pc) ==
  /\ task' \in [Workers -> TaskType]
  /\ task'[w].pc = pc /\ task'[w].job = task[w].job /\ task'[w].gen = task[w].gen
  /\ \A v \in Workers \ {w} : task'[v] = task[v]

LEMMA GotoMoves ==
  ASSUME TypeOK, NEW w \in Workers, NEW pc \in Pcs, Goto(w, pc)
  PROVE  Moved(w, pc)
<1>1. task \in [Workers -> TaskType] /\ task[w] \in TaskType
  BY DEF TypeOK
<1> DEFINE r == [task[w] EXCEPT !.pc = pc]
<1>2. r \in TaskType /\ r.pc = pc /\ r.job = task[w].job /\ r.gen = task[w].gen
  BY <1>1, TaskUpdates, ZenonT(60)
<1>3. task' = [task EXCEPT ![w] = r]
  BY DEF Goto
<1> HIDE DEF r
<1> QED BY <1>1, <1>2, <1>3 DEF Moved

\* The state of row m becomes st, and nothing else of the rows changes.
Stamped(m, st) ==
  /\ row' \in [MessageIds -> RowType]
  /\ row'[m].state = st /\ row'[m].to = row[m].to /\ row'[m].kind = row[m].kind
  /\ row'[m].at = row[m].at /\ row'[m].gen = row[m].gen
  /\ \A i \in MessageIds \ {m} : row'[i] = row[i]

LEMMA RowStamped ==
  ASSUME TypeOK, NEW m \in MessageIds, NEW st \in {"pending", "sending", "sent", "failed"},
         row' = [row EXCEPT ![m].state = st]
  PROVE  Stamped(m, st)
<1>1. row \in [MessageIds -> RowType] /\ row[m] \in RowType
  BY DEF TypeOK
<1> DEFINE r == [row[m] EXCEPT !.state = st]
<1>2. /\ r \in RowType /\ r.state = st /\ r.to = row[m].to /\ r.kind = row[m].kind
      /\ r.at = row[m].at /\ r.gen = row[m].gen
  BY <1>1, RowUpdates
<1>3. row' = [row EXCEPT ![m] = r]
  OBVIOUS
<1> HIDE DEF r
<1> QED BY <1>1, <1>2, <1>3 DEF Stamped

\* A new job: it was not there before, and nothing else of the queue changes.
NewJob(j, m) ==
  /\ status' \in [Q!Messages -> {"unborn", "pending", "done", "dead", "removed"}]
  /\ body' \in [Q!Messages -> JobType]
  /\ status[j] = "unborn" /\ status'[j] = "pending" /\ body'[j].msg = m
  /\ \A i \in Q!Messages \ {j} : status'[i] = status[i] /\ body'[i] = body[i]
  /\ UNCHANGED <<hand, answer>>

LEMMA QueueJobEffect ==
  ASSUME TypeOK, NEW m \in MessageIds, NEW a \in Generations, NEW r, QueueJob(m, a, r)
  PROVE  \E j \in Q!Messages : NewJob(j, m)
<1> DEFINE born == {i \in Q!Messages : status[i] # "unborn"}
           j    == 1 + Cardinality(born)
           P    == [x \in {j} |-> r]
           b    == [msg |-> m, attempt |-> a]
<1>1. Cardinality(born) \in Nat
  <2>1. IsFiniteSet(Q!Messages)
    BY Bounds, FS_Interval
  <2>2. IsFiniteSet(born)
    BY <2>1, FS_Subset
  <2> QED BY <2>2, FS_CardinalityType
<1>2. j <= Last /\ Q!Publish(j, r) /\ body' = [body EXCEPT ![j] = b]
  BY DEF QueueJob
<1>3. Q!PublishAll(P)
  BY <1>2 DEF Q!Publish
<1> HIDE DEF born
<1>4. j \in Q!Messages
  BY <1>1, <1>2, Bounds
<1>5. b \in JobType /\ b.msg = m
  BY DEF JobType
<1> HIDE DEF j, b
<1>6. DOMAIN P = {j}
  OBVIOUS
<1> HIDE DEF P
<1>7. /\ status[j] = "unborn" /\ UNCHANGED <<hand, answer>>
      /\ status' = [i \in Q!Messages |-> IF i \in {j} THEN "pending" ELSE status[i]]
  BY <1>3, <1>6 DEF Q!PublishAll
<1>8. body' \in [Q!Messages -> JobType] /\ body'[j].msg = m
      /\ \A i \in Q!Messages \ {j} : body'[i] = body[i]
  BY <1>2, <1>4, <1>5 DEF TypeOK
<1>9. /\ status' \in [Q!Messages -> {"unborn", "pending", "done", "dead", "removed"}]
      /\ status'[j] = "pending" /\ \A i \in Q!Messages \ {j} : status'[i] = status[i]
  BY <1>4, <1>7 DEF TypeOK
<1> QED BY <1>4, <1>7, <1>8, <1>9 DEF NewJob

\* Worker w lets go of its job.
LetsGo(w) ==
  /\ hand' \in [Workers -> 0 .. Last] /\ answer' \in [Workers -> {"none", "ok", "retry"}]
  /\ hand'[w] = 0 /\ answer'[w] = "none"
  /\ \A v \in Workers \ {w} : hand'[v] = hand[v] /\ answer'[v] = answer[v]

LEMMA LetGoEffect ==
  ASSUME TypeOK, NEW w \in Workers, Q!LetGo({w})
  PROVE  LetsGo(w)
BY Bounds DEF TypeOK, Q!LetGo, LetsGo

\* A handler's answer ends its job or not.
LEMMA SettleEffect ==
  ASSUME TypeOK, HandShape, NEW w \in Workers, Settle(w)
  PROVE  /\ hand[w] # 0 /\ hand[w] \in Q!Messages /\ LetsGo(w)
         /\ status' \in [Q!Messages -> {"unborn", "pending", "done", "dead", "removed"}]
         /\ \/ answer[w] = "ok" /\ status'[hand[w]] = "done"
            \/ answer[w] = "retry" /\ status'[hand[w]] \in {"pending", "dead"}
         /\ \A j \in Q!Messages \ {hand[w]} : status'[j] = status[j]
<1>1. hand[w] # 0 /\ Q!LetGo({w})
  BY DEF Settle, Q!Settle
<1>2. hand[w] \in Q!Messages
  BY <1>1 DEF HandShape
<1>3. PICK o \in Q!Outcomes(answer[w]) : status' = [status EXCEPT ![hand[w]] = o]
  BY DEF Settle, Q!Settle
<1>4. answer[w] \in {"none", "ok", "retry"}
  BY DEF TypeOK
<1>5. (answer[w] = "ok" /\ o = "done") \/ (answer[w] = "retry" /\ o \in {"pending", "dead"})
  <2>1. CASE answer[w] = "ok"
    BY <1>3, <2>1 DEF Q!Outcomes
  <2>2. CASE answer[w] = "retry"
    BY <1>3, <2>2 DEF Q!Outcomes
  <2>3. CASE answer[w] = "none"
    BY <1>3, <2>3 DEF Q!Outcomes
  <2> QED BY <1>4, <2>1, <2>2, <2>3
<1>6. status \in [Q!Messages -> {"unborn", "pending", "done", "dead", "removed"}]
  BY DEF TypeOK
<1>7. LetsGo(w)
  BY <1>1, LetGoEffect
<1>8. /\ status' \in [Q!Messages -> {"unborn", "pending", "done", "dead", "removed"}]
      /\ status'[hand[w]] = o
      /\ \A j \in Q!Messages \ {hand[w]} : status'[j] = status[j]
  BY <1>2, <1>3, <1>5, <1>6
<1> QED BY <1>1, <1>2, <1>5, <1>7, <1>8

\* The row of a new message.
LEMMA EnqueueEffect ==
  ASSUME TypeOK, LedgerShape, NEW r \in Recipients, NEW k \in Kinds,
         NEW at \in (now - MaxStall) .. now, Enqueue(r, k, at)
  PROVE  \E m \in MessageIds :
           /\ Rows = 1 .. (m - 1) /\ row[m].state = "none"
           /\ row' \in [MessageIds -> RowType]
           /\ row'[m].state = "pending" /\ row'[m].to = r /\ row'[m].kind = k
           /\ row'[m].at = at /\ row'[m].gen = 0
           /\ \A i \in MessageIds \ {m} : row'[i] = row[i]
           /\ \E j \in Q!Messages : NewJob(j, m)
<1> DEFINE m == 1 + Cardinality(Rows)
           f == [state |-> "pending", to |-> r, kind |-> k, at |-> at, gen |-> 0]
<1>1. PICK n \in 0 .. Cardinality(MessageIds) : Rows = 1 .. n
  BY DEF LedgerShape
<1>2. n \in Nat /\ Cardinality(Rows) = n
  BY <1>1, Ids, FS_Interval
<1>3. m \in MessageIds /\ at >= 0 /\ row' = [row EXCEPT ![m] = f] /\ QueueJob(m, 0, r)
  BY DEF Enqueue
<1>4. Rows = 1 .. (m - 1) /\ m \notin Rows
  BY <1>1, <1>2
<1>5. f \in RowType
  BY <1>3, Bounds DEF RowType, TypeOK
<1>6. f.state = "pending" /\ f.to = r /\ f.kind = k /\ f.at = at /\ f.gen = 0
  OBVIOUS
<1> HIDE DEF m, f
<1>7. /\ row' \in [MessageIds -> RowType] /\ row'[m] = f
      /\ \A i \in MessageIds \ {m} : row'[i] = row[i]
  BY <1>3, <1>5 DEF TypeOK
<1>8. row[m].state = "none"
  BY <1>3, <1>4 DEF Rows
<1>9. \E j \in Q!Messages : NewJob(j, m)
  <2>1. 0 \in Generations
    BY Bounds
  <2> QED BY <2>1, <1>3, QueueJobEffect
<1> QED BY <1>3, <1>4, <1>6, <1>7, <1>8, <1>9

\* A handler whose task is not idle works on a row there is.
LEMMA MineIsRow ==
  ASSUME TypeOK, LedgerShape, NEW w \in Workers, task[w].pc # "idle"
  PROVE  /\ Mine(w) \in Rows /\ Mine(w) \in MessageIds /\ row[Mine(w)].state # "none"
         /\ task[w].job \in Q!Messages /\ status[task[w].job] # "unborn"
         /\ Mine(w) = body[task[w].job].msg
BY DEF LedgerShape, Mine, Rows

\* The row and the job of a resend.
LEMMA ResendEffect ==
  ASSUME TypeOK, LedgerShape, NEW o \in Operators, ResendCommit(o)
  PROVE  /\ asking[o] \in Rows /\ asking[o] \in MessageIds
         /\ asking' \in [Operators -> MessageIds \cup {0}] /\ asking'[o] = 0
         /\ \A p \in Operators \ {o} : asking'[p] = asking[p]
         /\ UNCHANGED <<suppressed, task, now, faults, mailed, unheard, orphaned>>
         /\ \/ UNCHANGED <<queue, body, row>>
            \/ /\ row[asking[o]].state \in {"failed", "sending"}
               /\ row' \in [MessageIds -> RowType]
               /\ row'[asking[o]].state = "pending"
               /\ row'[asking[o]].gen = row[asking[o]].gen + 1
               /\ row'[asking[o]].to = row[asking[o]].to
               /\ row'[asking[o]].kind = row[asking[o]].kind
               /\ row'[asking[o]].at = row[asking[o]].at
               /\ \A i \in MessageIds \ {asking[o]} : row'[i] = row[i]
               /\ \E j \in Q!Messages : NewJob(j, asking[o])
<1> DEFINE m == asking[o]
<1>1. m # 0 /\ m \in Rows /\ m \in MessageIds
  BY DEF ResendCommit, LedgerShape, Rows
<1>2. /\ asking' \in [Operators -> MessageIds \cup {0}] /\ asking'[o] = 0
      /\ \A p \in Operators \ {o} : asking'[p] = asking[p]
      /\ UNCHANGED <<suppressed, task, now, faults, mailed, unheard, orphaned>>
  BY DEF ResendCommit, TypeOK
<1>3. CASE row[m].state \in {"failed", "sending"}
  <2> DEFINE f == [row[m] EXCEPT !.state = "pending", !.gen = row[m].gen + 1]
  <2>1. /\ row[m].gen < MaxResends /\ QueueJob(m, row[m].gen + 1, row[m].to)
        /\ row' = [row EXCEPT ![m] = f]
    BY <1>1, <1>3 DEF ResendCommit
  <2>2. row[m] \in RowType /\ row[m].gen \in 0 .. MaxResends
    BY <1>1, FieldTypes, Bounds DEF TypeOK
  <2>3. row[m].gen + 1 \in Generations
    BY <2>1, <2>2, Bounds
  <2>4. /\ f \in RowType /\ f.state = "pending" /\ f.gen = row[m].gen + 1
        /\ f.to = row[m].to /\ f.kind = row[m].kind /\ f.at = row[m].at
    BY <2>2, <2>3 DEF RowType
  <2> HIDE DEF f
  <2>5. /\ row' \in [MessageIds -> RowType] /\ row'[m] = f
        /\ \A i \in MessageIds \ {m} : row'[i] = row[i]
    BY <1>1, <2>1, <2>4 DEF TypeOK
  <2>6. \E j \in Q!Messages : NewJob(j, m)
    <3> DEFINE a == row[m].gen + 1
               to == row[m].to
    <3>1. a \in Generations /\ QueueJob(m, a, to)
      BY <2>1, <2>3
    <3> HIDE DEF a, to, m
    <3> QED BY <3>1, <1>1, QueueJobEffect
  <2> QED BY <1>1, <1>2, <1>3, <2>4, <2>5, <2>6
<1>4. CASE row[m].state \notin {"failed", "sending"}
  <2>1. UNCHANGED <<queue, body, row>>
    BY <1>1, <1>4 DEF ResendCommit
  <2> QED BY <1>1, <1>2, <2>1
<1> QED BY <1>3, <1>4

\* What a won, lost or answerless claim changes.
LEMMA ClaimEffect ==
  ASSUME TypeOK, LedgerShape, NEW w \in Workers, ClaimRow(w)
  PROVE  /\ task[w].pc = "start" /\ UNCHANGED <<queue, body, suppressed, asking, now, mailed, unheard, orphaned>>
         /\ \/ row[Mine(w)].state # "pending" /\ Moved(w, "ok") /\ row' = row
            \/ row[Mine(w)].state = "pending" /\ Stamped(Mine(w), "sending") /\ Moved(w, "retry")
            \/ /\ row[Mine(w)].state = "pending" /\ Stamped(Mine(w), "sending")
               /\ task' \in [Workers -> TaskType]
               /\ task'[w].pc = "prepare" /\ task'[w].job = task[w].job
               /\ task'[w].gen = row[Mine(w)].gen
               /\ \A v \in Workers \ {w} : task'[v] = task[v]
<1> DEFINE m == Mine(w)
<1>1. task[w].pc = "start" /\ UNCHANGED <<queue, body, suppressed, asking, now, mailed, unheard, orphaned>>
  BY DEF ClaimRow
<1>2. m \in MessageIds
  BY <1>1, MineIsRow
<1>3. CASE row[m].state # "pending"
  <2>1. Goto(w, "ok") /\ row' = row
    BY <1>3 DEF ClaimRow
  <2>2. Moved(w, "ok")
    BY <2>1, GotoMoves DEF Pcs
  <2> QED BY <1>1, <1>3, <2>1, <2>2
<1>4. CASE row[m].state = "pending"
  <2>1. row' = [row EXCEPT ![m].state = "sending"]
    BY <1>4 DEF ClaimRow
  <2>2. Stamped(m, "sending")
    <3> HIDE DEF m
    <3> QED BY <1>2, <2>1, RowStamped
  <2>3. CASE Goto(w, "retry")
    <3>1. Moved(w, "retry")
      BY <2>3, GotoMoves DEF Pcs
    <3> QED BY <1>1, <1>4, <2>2, <3>1
  <2>4. CASE task' = [task EXCEPT ![w].pc = "prepare", ![w].gen = row[m].gen]
    <3> DEFINE g == row[m].gen
               r == [task[w] EXCEPT !.pc = "prepare", !.gen = g]
    <3>1. task[w] \in TaskType /\ task \in [Workers -> TaskType] /\ g \in Generations
      BY <1>2, FieldTypes DEF TypeOK
    <3>2. task' = [task EXCEPT ![w] = r]
      BY <2>4
    <3> HIDE DEF g
    <3>3. r \in TaskType /\ r.pc = "prepare" /\ r.job = task[w].job /\ r.gen = g
      BY <3>1 DEF TaskType
    <3> HIDE DEF r
    <3>4. /\ task' \in [Workers -> TaskType] /\ task'[w] = r
          /\ \A v \in Workers \ {w} : task'[v] = task[v]
      BY <3>1, <3>2, <3>3
    <3> QED BY <1>1, <1>4, <2>2, <3>3, <3>4 DEF g
  <2> QED BY <1>4, <2>3, <2>4 DEF ClaimRow
<1> QED BY <1>3, <1>4

\* What asking the next provider changes.
LEMMA SendEffect ==
  ASSUME TypeOK, LedgerShape, NEW w \in Workers, Send(w)
  PROVE  /\ task[w].pc = "send"
         /\ UNCHANGED <<queue, body, row, suppressed, asking, now, orphaned>>
         /\ mailed' \in [MessageIds -> [Generations -> Nat]]
         /\ unheard' \in [MessageIds -> [Generations -> Nat]]
         /\ \/ /\ Moved(w, "accepted")
               /\ mailed'[Mine(w)][task[w].gen] = mailed[Mine(w)][task[w].gen] + 1
               /\ \A m \in MessageIds, g \in Generations :
                    m # Mine(w) \/ g # task[w].gen => mailed'[m][g] = mailed[m][g]
            \/ mailed' = mailed /\ Moved(w, "rejected")
            \/ mailed' = mailed /\ Moved(w, "send")
            \/ mailed' = mailed /\ Moved(w, "release")
<1> DEFINE m == Mine(w)
           g == task[w].gen
<1>1. /\ task[w].pc = "send"
      /\ UNCHANGED <<queue, body, row, suppressed, asking, now, orphaned>>
  BY DEF Send
<1>2. /\ m \in MessageIds /\ g \in Generations /\ task[w] \in TaskType
      /\ task \in [Workers -> TaskType] /\ mailed \in [MessageIds -> [Generations -> Nat]]
  BY <1>1, MineIsRow, FieldTypes DEF TypeOK
<1>6. unheard' \in [MessageIds -> [Generations -> Nat]]
  <2>1. unheard' = unheard \/ unheard' = [unheard EXCEPT ![m][g] = @ + 1]
    BY DEF Send
  <2>2. unheard \in [MessageIds -> [Generations -> Nat]]
    BY DEF TypeOK
  <2> HIDE DEF m, g
  <2>3. ASSUME unheard' = [unheard EXCEPT ![m][g] = @ + 1] PROVE unheard' \in [MessageIds -> [Generations -> Nat]]
    BY <1>2, <2>2, <2>3
  <2> QED BY <2>1, <2>2, <2>3
<1>3. CASE mailed' = [mailed EXCEPT ![m][g] = @ + 1] /\ Goto(w, "accepted")
  <2>1. Moved(w, "accepted")
    BY <1>3, GotoMoves DEF Pcs
  <2> HIDE DEF m, g
  <2>2. /\ mailed' \in [MessageIds -> [Generations -> Nat]]
        /\ mailed'[m][g] = mailed[m][g] + 1
        /\ \A i \in MessageIds, h \in Generations :
             i # m \/ h # g => mailed'[i][h] = mailed[i][h]
    BY <1>2, <1>3
  <2> QED BY <1>1, <1>6, <2>1, <2>2 DEF m, g
<1>4. CASE Goto(w, "rejected") /\ UNCHANGED mailed
  <2>1. Moved(w, "rejected")
    BY <1>4, GotoMoves DEF Pcs
  <2> QED BY <1>1, <1>2, <1>4, <1>6, <2>1
<1>5. CASE /\ IF task[w].next < Providers
              THEN task' = [task EXCEPT ![w].next = @ + 1]
              ELSE Goto(w, "release")
           /\ UNCHANGED mailed
  <2>1. CASE Goto(w, "release")
    <3>1. Moved(w, "release")
      BY <2>1, GotoMoves DEF Pcs
    <3> QED BY <1>1, <1>2, <1>5, <1>6, <3>1
  <2>2. CASE task[w].next < Providers /\ task' = [task EXCEPT ![w].next = @ + 1]
    <3> DEFINE n == task[w].next + 1
               r == [task[w] EXCEPT !.next = n]
    <3>1. n \in 1 .. Providers
      BY <2>2, <1>2, FieldTypes, Bounds
    <3>2. task' = [task EXCEPT ![w] = r]
      BY <2>2
    <3> HIDE DEF n
    <3>3. r \in TaskType /\ r.pc = task[w].pc /\ r.job = task[w].job /\ r.gen = task[w].gen
      BY <3>1, <1>2, TaskUpdates
    <3> HIDE DEF r
    <3>4. Moved(w, "send")
      BY <3>2, <3>3, <1>1, <1>2 DEF Moved
    <3> QED BY <1>1, <1>2, <1>5, <1>6, <3>4
  <2> QED BY <1>5, <2>1, <2>2
<1> QED BY <1>3, <1>4, <1>5 DEF Send

\* What resolving changes: the row, if it is still the handler's.
LEMMA ResolveEffect ==
  ASSUME TypeOK, LedgerShape, NEW w \in Workers, Resolve(w)
  PROVE  /\ task[w].pc \in {"accepted", "rejected", "refused"}
         /\ UNCHANGED <<queue, body, suppressed, asking, now, mailed, unheard, orphaned>>
         /\ Moved(w, "ok") \/ Moved(w, "retry")
         /\ IF Owns(Mine(w), task[w].gen)
            THEN Stamped(Mine(w), IF task[w].pc = "accepted" THEN "sent" ELSE "failed")
            ELSE row' = row
<1> DEFINE m == Mine(w)
           st == IF task[w].pc = "accepted" THEN "sent" ELSE "failed"
<1>1. /\ task[w].pc \in {"accepted", "rejected", "refused"}
      /\ UNCHANGED <<queue, body, suppressed, asking, now, mailed, unheard, orphaned>>
  BY DEF Resolve
<1>2. m \in MessageIds
  BY <1>1, MineIsRow
<1>3. Goto(w, "ok") \/ Goto(w, "retry")
  BY DEF Resolve
<1>4. Moved(w, "ok") \/ Moved(w, "retry")
  BY <1>3, GotoMoves DEF Pcs
<1>5. ASSUME Owns(m, task[w].gen) PROVE Stamped(m, st)
  <2>1. row' = [row EXCEPT ![m].state = st] /\ st \in {"sent", "failed"}
    BY <1>5 DEF Resolve
  <2> HIDE DEF m, st
  <2> QED BY <1>2, <2>1, RowStamped
<1>6. ~Owns(m, task[w].gen) => row' = row
  BY DEF Resolve
<1> QED BY <1>1, <1>4, <1>5, <1>6

\* What releasing changes: the row, if it is still the handler's.
LEMMA ReleaseEffect ==
  ASSUME TypeOK, LedgerShape, NEW w \in Workers, Release(w)
  PROVE  /\ task[w].pc = "release" /\ Moved(w, "retry")
         /\ UNCHANGED <<queue, body, suppressed, asking, now, faults, mailed, unheard>>
         /\ orphaned' \subseteq MessageIds /\ orphaned \subseteq orphaned'
         /\ IF row[Mine(w)].state = "sending" /\ row[Mine(w)].gen = task[w].gen
            THEN /\ Stamped(Mine(w), "pending")
                 /\ hand[w] # task[w].job => Mine(w) \in orphaned'
            ELSE row' = row
<1> DEFINE m == Mine(w)
           owns == row[m].state = "sending" /\ row[m].gen = task[w].gen
<1>1. /\ task[w].pc = "release"
      /\ UNCHANGED <<queue, body, suppressed, asking, now, faults, mailed, unheard>>
  BY DEF Release
<1>2. m \in MessageIds
  BY <1>1, MineIsRow
<1>3. Moved(w, "retry")
  <2>1. Goto(w, "retry")
    BY DEF Release, AfterRelease
  <2> QED BY <2>1, GotoMoves DEF Pcs
<1>4. ASSUME owns PROVE Stamped(m, "pending")
  <2>1. row' = [row EXCEPT ![m].state = "pending"]
    BY <1>4 DEF Release
  <2> HIDE DEF m, owns
  <2> QED BY <1>2, <2>1, RowStamped
<1>5. ~owns => row' = row
  BY DEF Release
<1>6. /\ orphaned' \subseteq MessageIds /\ orphaned \subseteq orphaned'
      /\ owns /\ hand[w] # task[w].job => m \in orphaned'
  <2>1. orphaned' = IF owns /\ hand[w] # task[w].job THEN orphaned \cup {m} ELSE orphaned
    BY DEF Release
  <2>2. orphaned \subseteq MessageIds
    BY DEF TypeOK
  <2> HIDE DEF m, owns
  <2> QED BY <1>2, <2>1, <2>2
<1> QED BY <1>1, <1>3, <1>4, <1>5, <1>6

\* The worker's task is over.
Ended(w) ==
  /\ task' \in [Workers -> TaskType] /\ task'[w].pc = "idle"
  /\ \A v \in Workers \ {w} : task'[v] = task[v]

LEMMA EndEffect ==
  ASSUME TypeOK, NEW w \in Workers, task' = [task EXCEPT ![w] = NoTask]
  PROVE  Ended(w)
BY NoTaskType DEF TypeOK, Ended

\* What a replay and a sweep change: the state of one job, which nobody holds.
LEMMA RevivedEffect ==
  ASSUME TypeOK, HandShape, NEW j \in Q!Messages, Replay(j) \/ Reap(j)
  PROVE  /\ status[j] \in {"dead", "done"}
         /\ status' \in [Q!Messages -> {"unborn", "pending", "done", "dead", "removed"}]
         /\ status'[j] = IF status[j] = "dead" THEN "pending" ELSE "removed"
         /\ \A i \in Q!Messages \ {j} : status'[i] = status[i]
         /\ UNCHANGED <<hand, answer, body, row, suppressed, task, asking, now, mailed, unheard, orphaned>>
<1>1. UNCHANGED <<body, row, suppressed, task, asking, now, mailed, unheard, orphaned>>
  BY DEF Replay, Reap
<1>2. CASE Replay(j)
  <2>1. /\ status[j] = "dead" /\ UNCHANGED <<hand, answer>>
        /\ status' = [m \in Q!Messages |-> IF m \in {j} THEN "pending" ELSE status[m]]
    BY <1>2 DEF Replay, Q!Replay
  <2> QED BY <1>1, <2>1 DEF TypeOK
<1>3. CASE Reap(j)
  <2>1. /\ status[j] = "done" /\ Q!LetGo({w \in Workers : hand[w] \in {j}})
        /\ status' = [m \in Q!Messages |-> IF m \in {j} THEN "removed" ELSE status[m]]
    BY <1>3 DEF Reap, Q!Remove
  <2>2. {w \in Workers : hand[w] \in {j}} = {}
    BY <2>1, Bounds DEF HandShape
  <2>3. Q!LetGo({})
    BY <2>1, <2>2
  <2>4. UNCHANGED <<hand, answer>>
    BY <2>3 DEF Q!LetGo, TypeOK
  <2> QED BY <1>1, <2>1, <2>4 DEF TypeOK
<1> QED BY <1>2, <1>3

-----------------------------------------------------------------------------
(* Type correctness.                                                       *)

LEMMA TypeInit == Init => TypeOK
<1> SUFFICES ASSUME Init PROVE TypeOK
  OBVIOUS
<1>1. NoRow \in RowType /\ NoJob \in JobType /\ NoTask \in TaskType
  <2>1. 0 \in Generations /\ 0 \in 0 .. MaxTime
    BY Bounds
  <2> QED BY <2>1, NoTaskType DEF NoRow, NoJob, RowType, JobType
<1> QED BY <1>1, Bounds DEF Init, TypeOK, Q!Init

\* The state keeps its types in every step from a state of the invariant.
LEMMA TypeStep == IInv /\ [Next]_vars => TypeOK'
<1> SUFFICES ASSUME IInv, [Next]_vars PROVE TypeOK'
  OBVIOUS
<1>0. TypeOK /\ LedgerShape /\ HandShape
  BY DEF IInv
<1>1. CASE Tick
  <2>1. now' \in 0 .. MaxTime
    BY <1>0, <1>1, Bounds DEF Tick, TypeOK
  <2> QED BY <1>0, <1>1, <2>1 DEF Tick, TypeOK, queue
<1>2. ASSUME NEW r \in Recipients, Suppress(r) PROVE TypeOK'
  BY <1>0, <1>2 DEF Suppress, TypeOK, queue
<1>3. ASSUME NEW r \in Recipients, NEW k \in Kinds, NEW at \in (now - MaxStall) .. now,
             Enqueue(r, k, at)
      PROVE  TypeOK'
  <2>1. UNCHANGED <<suppressed, task, asking, now, faults, mailed, unheard, orphaned>>
    BY <1>3 DEF Enqueue
  <2>2. row' \in [MessageIds -> RowType] /\ \E m \in MessageIds, j \in Q!Messages : NewJob(j, m)
    BY <1>0, <1>3, EnqueueEffect
  <2> QED BY <1>0, <2>1, <2>2 DEF TypeOK, NewJob
<1>4. ASSUME NEW w \in Workers, NEW j \in Q!Messages, Take(w, j) PROVE TypeOK'
  <2> DEFINE r == [NoTask EXCEPT !.pc = "start", !.job = j]
  <2>1. r \in TaskType
    <3>1. j \in 0 .. Last
      BY Bounds
    <3> QED BY <3>1, NoTaskType
  <2>2. task' = [task EXCEPT ![w] = r] /\ UNCHANGED <<body, row, suppressed, asking, now, faults, mailed, unheard, orphaned>>
    BY <1>4 DEF Take
  <2> HIDE DEF r
  <2>3. task' \in [Workers -> TaskType]
    BY <1>0, <2>1, <2>2 DEF TypeOK
  <2>4. hand' \in [Workers -> 0 .. Last] /\ UNCHANGED <<status, answer>>
    BY <1>0, <1>4, Bounds DEF Take, Q!Take, TypeOK
  <2> QED BY <1>0, <2>2, <2>3, <2>4 DEF TypeOK
<1>5. ASSUME NEW w \in Workers, ClaimRow(w) PROVE TypeOK'
  <2>1. task' \in [Workers -> TaskType] /\ row' \in [MessageIds -> RowType]
    BY <1>0, <1>5, ClaimEffect DEF TypeOK, Moved, Stamped
  <2>2. UNCHANGED <<queue, body, suppressed, asking, now, mailed, unheard, orphaned>>
    BY <1>5 DEF ClaimRow
  <2> QED BY <1>0, <2>1, <2>2 DEF TypeOK, queue
<1>6. ASSUME NEW w \in Workers, Compose(w) \/ StoreError(w) PROVE TypeOK'
  <2>1. UNCHANGED <<queue, body, row, suppressed, asking, now, mailed, unheard, orphaned>>
    BY <1>6 DEF Compose, StoreError
  <2>2. \E pc \in Pcs : Goto(w, pc)
    BY <1>6 DEF Compose, StoreError, Pcs
  <2>3. task' \in [Workers -> TaskType]
    BY <1>0, <2>2, GotoMoves DEF Moved
  <2> QED BY <1>0, <2>1, <2>3 DEF TypeOK, queue
<1>7. ASSUME NEW w \in Workers, Send(w) PROVE TypeOK'
  <2>1. /\ task' \in [Workers -> TaskType] /\ mailed' \in [MessageIds -> [Generations -> Nat]]
        /\ unheard' \in [MessageIds -> [Generations -> Nat]]
        /\ UNCHANGED <<queue, body, row, suppressed, asking, now, orphaned>>
    BY <1>0, <1>7, SendEffect DEF Moved
  <2> QED BY <1>0, <2>1 DEF TypeOK, queue
<1>8. ASSUME NEW w \in Workers, Resolve(w) PROVE TypeOK'
  <2>1. /\ task' \in [Workers -> TaskType] /\ row' \in [MessageIds -> RowType]
        /\ UNCHANGED <<queue, body, suppressed, asking, now, mailed, unheard, orphaned>>
    BY <1>0, <1>8, ResolveEffect DEF Moved, Stamped, TypeOK
  <2> QED BY <1>0, <2>1 DEF TypeOK, queue
<1>9. ASSUME NEW w \in Workers, Release(w) PROVE TypeOK'
  <2>1. /\ task' \in [Workers -> TaskType] /\ row' \in [MessageIds -> RowType]
        /\ UNCHANGED <<queue, body, suppressed, asking, now, faults, mailed, unheard>>
        /\ orphaned' \subseteq MessageIds
    BY <1>0, <1>9, ReleaseEffect DEF Moved, Stamped, TypeOK
  <2> QED BY <1>0, <2>1 DEF TypeOK, queue
<1>10. ASSUME NEW w \in Workers, Report(w) PROVE TypeOK'
  <2>1. task' \in [Workers -> TaskType]
    BY <1>0, <1>10, EndEffect DEF Report, Ended
  <2>2. answer' \in [Workers -> {"none", "ok", "retry"}] /\ UNCHANGED <<status, hand>>
    BY <1>0, <1>10 DEF Report, Q!Answer, TypeOK, queue
  <2> QED BY <1>0, <1>10, <2>1, <2>2 DEF TypeOK, Report
<1>11. ASSUME NEW w \in Workers, Settle(w) PROVE TypeOK'
  <2>1. /\ status' \in [Q!Messages -> {"unborn", "pending", "done", "dead", "removed"}]
        /\ hand' \in [Workers -> 0 .. Last] /\ answer' \in [Workers -> {"none", "ok", "retry"}]
    BY <1>0, <1>11, SettleEffect DEF LetsGo
  <2> QED BY <1>0, <1>11, <2>1 DEF TypeOK, Settle
<1>12. ASSUME NEW w \in Workers, Overrun(w) \/ Crash(w) PROVE TypeOK'
  <2>1. Q!LetGo({w}) /\ UNCHANGED status
    BY <1>12 DEF Overrun, Crash, Q!Lose
  <2>2. hand' \in [Workers -> 0 .. Last] /\ answer' \in [Workers -> {"none", "ok", "retry"}]
    BY <1>0, <2>1, LetGoEffect DEF LetsGo
  <2>3. task' \in [Workers -> TaskType]
    BY <1>0, <1>12, EndEffect DEF Overrun, Crash, Ended, TypeOK
  <2> QED BY <1>0, <1>12, <2>1, <2>2, <2>3 DEF TypeOK, Overrun, Crash
<1>13. ASSUME NEW o \in Operators, NEW m \in MessageIds, ResendRead(o, m) PROVE TypeOK'
  <2>1. asking' \in [Operators -> MessageIds \cup {0}]
    BY <1>0, <1>13 DEF ResendRead, TypeOK
  <2> QED BY <1>0, <1>13, <2>1 DEF ResendRead, TypeOK, queue
<1>14. ASSUME NEW o \in Operators, ResendCommit(o) PROVE TypeOK'
  <2>1. /\ asking' \in [Operators -> MessageIds \cup {0}]
        /\ UNCHANGED <<suppressed, task, now, faults, mailed, unheard, orphaned>>
        /\ \/ UNCHANGED <<queue, body, row>>
           \/ /\ row' \in [MessageIds -> RowType]
              /\ \E j \in Q!Messages, m \in MessageIds : NewJob(j, m)
    BY <1>0, <1>14, ResendEffect
  <2> QED BY <1>0, <2>1 DEF TypeOK, queue, NewJob
<1>15. ASSUME NEW j \in Q!Messages, Replay(j) \/ Reap(j) PROVE TypeOK'
  <2>1. /\ status' \in [Q!Messages -> {"unborn", "pending", "done", "dead", "removed"}]
        /\ hand' \in [Workers -> 0 .. Last] /\ answer' \in [Workers -> {"none", "ok", "retry"}]
    BY <1>0, <1>15, RevivedEffect DEF TypeOK, queue
  <2> QED BY <1>0, <1>15, <2>1 DEF TypeOK, Replay, Reap
<1>16. ASSUME UNCHANGED vars PROVE TypeOK'
  BY <1>0, <1>16 DEF vars, queue, TypeOK
<1> QED BY <1>1, <1>2, <1>3, <1>4, <1>5, <1>6, <1>7, <1>8, <1>9, <1>10, <1>11, <1>12, <1>13, <1>14,
           <1>15, <1>16 DEF Next, Handle

-----------------------------------------------------------------------------
(* The inductive invariant.                                                *)

LEMMA InvInit == Init => IInv
<1> SUFFICES ASSUME Init PROVE IInv
  OBVIOUS
<1>1. TypeOK
  BY TypeInit
<1>2. Rows = {} /\ Rows = 1 .. 0 /\ 0 \in 0 .. Cardinality(MessageIds)
  BY Ids DEF Init, Rows, NoRow
<1>3. LedgerShape
  BY <1>2 DEF Init, LedgerShape, Q!Init, NoTask
<1>4. HandShape /\ ClaimShape /\ OneMailAsRecorded
  BY <1>2 DEF Init, HandShape, ClaimShape, OneMailAsRecorded, Q!Init, NoTask, Claimed
<1>5. LiveShape /\ RateShape
  BY <1>2 DEF LiveShape, RateShape
<1> QED BY <1>1, <1>3, <1>4, <1>5 DEF IInv

LEMMA RateKept ==
  ASSUME RateShape, Rows' = Rows,
         \A m \in Rows : /\ row'[m].to = row[m].to /\ row'[m].kind = row[m].kind
                         /\ row'[m].at = row[m].at
  PROVE  RateShape'
<1>1. ASSUME NEW m \in Rows PROVE Before(m)' = Before(m)
  BY <1>1 DEF Before, InWindow
<1> QED BY <1>1 DEF RateShape

\* A state written on a row that is there keeps the rows.
LEMMA StampedRows ==
  ASSUME TypeOK, NEW m \in Rows, NEW st \in {"pending", "sending", "sent", "failed"}, Stamped(m, st)
  PROVE  /\ m \in MessageIds /\ Rows' = Rows
         /\ \A i \in Rows : /\ row'[i].to = row[i].to /\ row'[i].kind = row[i].kind
                            /\ row'[i].at = row[i].at /\ row'[i].gen = row[i].gen
         /\ \A i \in Rows \ {m} : row'[i] = row[i]
         /\ row'[m].state = st
BY DEF Rows, Stamped

\* A handler goes from one step to the next, and touches no table.
LEMMA MoveStep ==
  ASSUME IInv, TypeOK', NEW w \in Workers, NEW pc \in Pcs, Moved(w, pc),
         UNCHANGED <<queue, body, row, asking, mailed, orphaned>>,
         task[w].pc # "idle", pc # "idle",
         pc \in {"prepare", "send", "accepted", "rejected", "refused", "release"} =>
           Claimed(w) /\ (pc = "accepted" <=> task[w].pc = "accepted"),
         task[w].pc \in {"start", "retry"} => pc \in {"start", "retry"}
  PROVE  IInv'
<1>1. TypeOK /\ LedgerShape /\ HandShape /\ ClaimShape /\ LiveShape /\ RateShape /\ OneMailAsRecorded
  BY DEF IInv
<1>2. /\ task'[w].pc = pc /\ task'[w].job = task[w].job /\ task'[w].gen = task[w].gen
      /\ \A v \in Workers \ {w} : task'[v] = task[v]
  BY DEF Moved
<1>3. /\ status' = status /\ hand' = hand /\ answer' = answer /\ body' = body /\ row' = row
      /\ asking' = asking /\ mailed' = mailed /\ orphaned' = orphaned /\ Rows' = Rows
  BY DEF queue, Rows
<1>4. \A v \in Workers : /\ Mine(v)' = Mine(v) /\ task'[v].gen = task[v].gen /\ task'[v].job = task[v].job
                         /\ task'[v].pc = "idle" <=> task[v].pc = "idle"
                         /\ Claimed(v)' => Claimed(v) /\ (task'[v].pc = "accepted" <=> task[v].pc = "accepted")
                         /\ task[v].pc \in {"start", "retry"} => task'[v].pc \in {"start", "retry"}
  BY <1>2, <1>3 DEF Mine, Claimed
<1>5. LedgerShape'
  BY <1>1, <1>3, <1>4 DEF LedgerShape
<1>6. HandShape'
  BY <1>1, <1>3, <1>4 DEF HandShape
<1>7. ClaimShape'
  BY <1>1, <1>3, <1>4 DEF ClaimShape
<1>8. LiveShape'
  <2>1. \A j \in Q!Messages : Live(j) => Live(j)'
    BY <1>3, <1>4 DEF Live
  <2> QED BY <1>1, <1>3, <2>1 DEF LiveShape
<1>9. RateShape' /\ OneMailAsRecorded'
  BY <1>1, <1>3, RateKept DEF OneMailAsRecorded
<1> QED BY <1>5, <1>6, <1>7, <1>8, <1>9 DEF IInv

LEMMA ComposeStep ==
  ASSUME IInv, TypeOK', NEW w \in Workers, Compose(w)
  PROVE  IInv'
<1>1. /\ task[w].pc = "prepare" /\ UNCHANGED <<queue, body, row, asking, mailed, orphaned>>
      /\ \E pc \in {"send", "refused"} : Goto(w, pc)
  BY DEF Compose
<1>2. PICK pc \in {"send", "refused"} : Goto(w, pc)
  BY <1>1
<1>3. Moved(w, pc) /\ pc \in Pcs
  BY <1>2, GotoMoves DEF IInv, Pcs
<1> QED BY <1>1, <1>3, MoveStep DEF Claimed

LEMMA StoreErrorStep ==
  ASSUME IInv, TypeOK', NEW w \in Workers, StoreError(w)
  PROVE  IInv'
<1>1. UNCHANGED <<queue, body, row, asking, mailed, orphaned>>
  BY DEF StoreError
<1>2. CASE task[w].pc = "prepare" /\ Goto(w, "release")
  <2>1. "release" \in Pcs /\ Moved(w, "release")
    BY <1>2, GotoMoves DEF IInv, Pcs
  <2> QED BY <1>1, <1>2, <2>1, MoveStep DEF Claimed
<1>3. CASE task[w].pc \in {"start", "accepted", "rejected", "refused", "release"} /\ Goto(w, "retry")
  <2>1. "retry" \in Pcs /\ Moved(w, "retry")
    BY <1>3, GotoMoves DEF IInv, Pcs
  <2> QED BY <1>1, <1>3, <2>1, MoveStep DEF Claimed
<1> QED BY <1>2, <1>3 DEF StoreError

LEMMA SendStep ==
  ASSUME IInv, TypeOK', NEW w \in Workers, Send(w)
  PROVE  IInv'
<1>1. TypeOK /\ LedgerShape /\ HandShape /\ ClaimShape /\ LiveShape /\ RateShape /\ OneMailAsRecorded
  BY DEF IInv
<1>2. task[w].pc = "send" /\ UNCHANGED <<queue, body, row, suppressed, asking, now, orphaned>>
  BY <1>1, SendEffect
<1>3. ASSUME NEW pc \in {"rejected", "send", "release"}, mailed' = mailed, Moved(w, pc)
      PROVE  IInv'
  <2>1. pc \in Pcs
    BY DEF Pcs
  <2> QED BY <1>2, <1>3, <2>1, MoveStep DEF Claimed
<1>4. ASSUME Moved(w, "accepted"),
             mailed'[Mine(w)][task[w].gen] = mailed[Mine(w)][task[w].gen] + 1,
             \A m \in MessageIds, g \in Generations :
               m # Mine(w) \/ g # task[w].gen => mailed'[m][g] = mailed[m][g]
      PROVE  IInv'
  <2>1. /\ task'[w].pc = "accepted" /\ task'[w].job = task[w].job /\ task'[w].gen = task[w].gen
        /\ \A v \in Workers \ {w} : task'[v] = task[v]
    BY <1>4 DEF Moved
  <2>2. /\ status' = status /\ hand' = hand /\ answer' = answer /\ body' = body /\ row' = row
        /\ asking' = asking /\ orphaned' = orphaned /\ Rows' = Rows
    BY <1>2 DEF queue, Rows
  <2>3. \A v \in Workers : /\ Mine(v)' = Mine(v) /\ task'[v].gen = task[v].gen /\ task'[v].job = task[v].job
                           /\ task'[v].pc = "idle" <=> task[v].pc = "idle"
                           /\ Claimed(v)' <=> Claimed(v)
                           /\ task[v].pc \in {"start", "retry"} => task'[v].pc = task[v].pc
    BY <1>2, <2>1, <2>2 DEF Mine, Claimed
  <2>4. Claimed(w) /\ Mine(w) \in Rows /\ Mine(w) \in MessageIds /\ task[w].gen \in Generations
    BY <1>1, <1>2, MineIsRow, FieldTypes DEF Claimed, TypeOK
  <2>5. /\ mailed[Mine(w)][task[w].gen] = 0 /\ task[w].gen <= row[Mine(w)].gen
        /\ task[w].gen = row[Mine(w)].gen => row[Mine(w)].state = "sending"
    BY <1>1, <1>2, <2>4 DEF ClaimShape
  <2>6. mailed'[Mine(w)][task[w].gen] = 1
    BY <2>5, <1>4
  <2>7. LedgerShape'
    BY <1>1, <2>2, <2>3 DEF LedgerShape
  <2>8. HandShape'
    BY <1>1, <2>2, <2>3 DEF HandShape
  <2>9. ClaimShape'
    <3>1. \A v, u \in Workers :
            Claimed(v)' /\ Claimed(u)' /\ Mine(v)' = Mine(u)' /\ task'[v].gen = task'[u].gen => v = u
      BY <1>1, <2>3 DEF ClaimShape
    <3>2. ASSUME NEW v \in Workers, Claimed(v)'
          PROVE  /\ task'[v].gen <= row'[Mine(v)'].gen
                 /\ task'[v].gen = row'[Mine(v)'].gen => row'[Mine(v)'].state = "sending"
                 /\ mailed'[Mine(v)'][task'[v].gen] = IF task'[v].pc = "accepted" THEN 1 ELSE 0
      <4>1. Claimed(v) /\ Mine(v)' = Mine(v) /\ task'[v].gen = task[v].gen
        BY <3>2, <2>3
      <4>2. CASE v = w
        BY <4>1, <4>2, <2>1, <2>2, <2>5, <2>6
      <4>3. CASE v # w
        <5>1. task'[v] = task[v] /\ Mine(v) \in MessageIds /\ task[v].gen \in Generations
          BY <4>1, <4>3, <2>1, <1>1, MineIsRow, FieldTypes DEF Claimed, TypeOK
        <5>2. Mine(v) # Mine(w) \/ task[v].gen # task[w].gen
          BY <4>1, <4>3, <2>4, <1>1 DEF ClaimShape
        <5>3. mailed'[Mine(v)][task[v].gen] = mailed[Mine(v)][task[v].gen]
          BY <5>1, <5>2, <1>4
        <5> QED BY <4>1, <5>1, <5>3, <2>2, <1>1 DEF ClaimShape
      <4> QED BY <4>2, <4>3
    <3>3. ASSUME NEW m \in MessageIds, NEW g \in Generations, m \notin Rows \/ g > row[m].gen
          PROVE  mailed'[m][g] = 0
      <4>1. m # Mine(w) \/ g # task[w].gen
        <5>1. row[Mine(w)] \in RowType /\ task[w] \in TaskType
          BY <2>4, <1>1 DEF TypeOK
        <5>2. row[Mine(w)].gen \in Nat /\ task[w].gen \in Nat
          BY <5>1, FieldTypes, Bounds
        <5> QED BY <5>2, <2>4, <2>5, <3>3
      <4> QED BY <4>1, <3>3, <1>4, <1>1 DEF ClaimShape
    <3> QED BY <3>1, <3>2, <3>3, <2>2 DEF ClaimShape
  <2>10. LiveShape'
    <3>1. \A j \in Q!Messages : Live(j) => Live(j)'
      BY <2>2, <2>3 DEF Live
    <3> QED BY <1>1, <2>2, <3>1 DEF LiveShape
  <2>11. OneMailAsRecorded'
    <3>1. ASSUME NEW m \in MessageIds, NEW g \in Generations PROVE mailed'[m][g] <= 1
      <4>1. CASE m = Mine(w) /\ g = task[w].gen
        BY <4>1, <2>6
      <4>2. CASE m # Mine(w) \/ g # task[w].gen
        BY <4>2, <1>1, <1>4 DEF OneMailAsRecorded
      <4> QED BY <4>1, <4>2
    <3>2. ASSUME NEW m \in Rows
          PROVE  /\ row'[m].state = "sent" => mailed'[m][row'[m].gen] = 1
                 /\ row'[m].state \in {"failed", "pending"} => mailed'[m][row'[m].gen] = 0
      <4>1. m \in MessageIds /\ row[m].gen \in Generations
        BY <1>1, FieldTypes DEF Rows, TypeOK
      <4>2. row[m].state # "sending" => mailed'[m][row[m].gen] = mailed[m][row[m].gen]
        BY <4>1, <2>5, <1>4
      <4> QED BY <4>2, <2>2, <1>1 DEF OneMailAsRecorded
    <3> QED BY <3>1, <3>2, <2>2 DEF OneMailAsRecorded
  <2>12. RateShape'
    BY <1>1, <2>2, RateKept
  <2> QED BY <2>7, <2>8, <2>9, <2>10, <2>11, <2>12 DEF IInv
<1>5. mailed' = mailed /\ Moved(w, "rejected") => IInv'
  BY <1>3
<1>6. mailed' = mailed /\ Moved(w, "send") => IInv'
  BY <1>3
<1>7. mailed' = mailed /\ Moved(w, "release") => IInv'
  BY <1>3
<1> QED BY <1>1, <1>4, <1>5, <1>6, <1>7, SendEffect

LEMMA TakeStep ==
  ASSUME IInv, TypeOK', NEW w \in Workers, NEW j \in Q!Messages, Take(w, j)
  PROVE  IInv'
<1>1. TypeOK /\ LedgerShape /\ HandShape /\ ClaimShape /\ LiveShape /\ RateShape /\ OneMailAsRecorded
  BY DEF IInv
<1>2. /\ task[w].pc = "idle" /\ status[j] = "pending" /\ hand[w] = 0
      /\ \A v \in Workers : hand[v] # j
      /\ hand' = [hand EXCEPT ![w] = j]
      /\ status' = status /\ answer' = answer /\ body' = body /\ row' = row
      /\ asking' = asking /\ mailed' = mailed /\ orphaned' = orphaned
  BY DEF Take, Q!Take, Q!InHands
<1>3. /\ task'[w].pc = "start" /\ task'[w].job = j
      /\ \A v \in Workers \ {w} : task'[v] = task[v]
  <2> DEFINE r == [NoTask EXCEPT !.pc = "start", !.job = j]
  <2>1. r.pc = "start" /\ r.job = j
    <3>1. j \in 0 .. Last
      BY Bounds
    <3> QED BY <3>1, NoTaskType
  <2>2. task' = [task EXCEPT ![w] = r]
    BY DEF Take
  <2> HIDE DEF r
  <2> QED BY <1>1, <2>1, <2>2 DEF TypeOK
<1>4. Rows' = Rows
  BY <1>2 DEF Rows
<1>5. hand'[w] = j /\ \A v \in Workers \ {w} : hand'[v] = hand[v]
  BY <1>1, <1>2 DEF TypeOK
<1>6. \A v \in Workers : Claimed(v)' => v # w /\ Claimed(v) /\ Mine(v)' = Mine(v) /\ task'[v] = task[v]
  BY <1>2, <1>3 DEF Claimed, Mine
<1>7. LedgerShape'
  BY <1>1, <1>2, <1>3, <1>4 DEF LedgerShape
<1>8. HandShape'
  <2>1. j # 0 /\ answer[w] = "none"
    BY <1>1, <1>2, Bounds DEF HandShape
  <2> QED BY <1>1, <1>2, <1>3, <1>5, <2>1 DEF HandShape
<1>9. ClaimShape'
  BY <1>1, <1>2, <1>4, <1>6 DEF ClaimShape
<1>10. LiveShape'
  <2>1. answer[w] = "none"
    BY <1>1, <1>2 DEF HandShape
  <2>2. \A i \in Q!Messages : Live(i) => Live(i)'
    BY <1>2, <1>3, <1>5, <2>1 DEF Live
  <2> QED BY <1>1, <1>2, <1>4, <2>2 DEF LiveShape
<1>11. RateShape' /\ OneMailAsRecorded'
  BY <1>1, <1>2, <1>4, RateKept DEF OneMailAsRecorded
<1> QED BY <1>7, <1>8, <1>9, <1>10, <1>11 DEF IInv

\* A handler that has claimed moves on, or wins a claim, or finds it lost: what the
\* queue and the rows agree on is kept.
LEMMA HandlerKept ==
  ASSUME IInv, TypeOK', NEW w \in Workers,
         task[w].pc # "idle", task'[w].pc # "idle", task'[w].job = task[w].job,
         \A v \in Workers \ {w} : task'[v] = task[v],
         Rows' = Rows,
         \A i \in Rows : /\ row'[i].to = row[i].to /\ row'[i].kind = row[i].kind
                         /\ row'[i].at = row[i].at,
         UNCHANGED <<queue, body, asking>>
  PROVE  /\ LedgerShape' /\ HandShape' /\ RateShape'
         /\ \A v \in Workers : Mine(v)' = Mine(v)
         /\ \A v \in Workers \ {w} : Claimed(v)' <=> Claimed(v)
<1>1. LedgerShape /\ HandShape /\ RateShape
  BY DEF IInv
<1>2. /\ status' = status /\ hand' = hand /\ answer' = answer /\ body' = body /\ asking' = asking
  BY DEF queue
<1>3. \A v \in Workers : /\ task'[v].job = task[v].job
                         /\ task'[v].pc = "idle" <=> task[v].pc = "idle"
  OBVIOUS
<1>4. LedgerShape'
  BY <1>1, <1>2, <1>3 DEF LedgerShape
<1>5. HandShape'
  BY <1>1, <1>2, <1>3 DEF HandShape
<1>6. RateShape'
  BY <1>1, RateKept
<1>7. \A v \in Workers : Mine(v)' = Mine(v)
  BY <1>2, <1>3 DEF Mine
<1>8. \A v \in Workers \ {w} : Claimed(v)' <=> Claimed(v)
  BY DEF Claimed
<1> QED BY <1>4, <1>5, <1>6, <1>7, <1>8

LEMMA ClaimStep ==
  ASSUME IInv, TypeOK', NEW w \in Workers, ClaimRow(w)
  PROVE  IInv'
<1> DEFINE m == Mine(w)
<1>1. TypeOK /\ LedgerShape /\ HandShape /\ ClaimShape /\ LiveShape /\ RateShape /\ OneMailAsRecorded
  BY DEF IInv
<1>2. task[w].pc = "start" /\ UNCHANGED <<queue, body, suppressed, asking, now, mailed, orphaned>>
  BY <1>1, ClaimEffect
<1>3. /\ status' = status /\ hand' = hand /\ answer' = answer /\ body' = body
      /\ asking' = asking /\ mailed' = mailed /\ orphaned' = orphaned
  BY <1>2 DEF queue
<1>4. m \in Rows /\ m \in MessageIds /\ task[w].job \in Q!Messages /\ m = body[task[w].job].msg
  BY <1>1, <1>2, MineIsRow
<1>5. ~Claimed(w)
  BY <1>2 DEF Claimed
<1>6. CASE row[m].state # "pending" /\ Moved(w, "ok") /\ row' = row
  <2>1. /\ task'[w].pc = "ok" /\ task'[w].job = task[w].job
        /\ \A v \in Workers \ {w} : task'[v] = task[v]
    BY <1>6 DEF Moved
  <2>2. Rows' = Rows
    BY <1>6 DEF Rows
  <2>3. /\ LedgerShape' /\ HandShape' /\ RateShape'
        /\ \A v \in Workers : Mine(v)' = Mine(v)
        /\ \A v \in Workers \ {w} : Claimed(v)' <=> Claimed(v)
    BY <1>2, <1>6, <2>1, <2>2, HandlerKept
  <2>4. ~Claimed(w)'
    BY <2>1 DEF Claimed
  <2>5. ClaimShape'
    BY <1>1, <1>3, <1>6, <2>1, <2>2, <2>3, <2>4 DEF ClaimShape
  <2>6. LiveShape'
    <3>1. ASSUME NEW i \in Rows \ orphaned, row[i].state = "pending",
                 NEW j \in Q!Messages, body[j].msg = i, Live(j)
          PROVE  Live(j)'
      <4>1. hand[w] # j \/ answer[w] # "none"
        BY <3>1, <1>1, <1>2, <1>4, <1>6, Bounds DEF HandShape
      <4> QED BY <3>1, <4>1, <1>3, <2>1 DEF Live
    <3> QED BY <3>1, <1>1, <1>3, <1>6, <2>2 DEF LiveShape
  <2>7. OneMailAsRecorded'
    BY <1>1, <1>3, <1>6, <2>2 DEF OneMailAsRecorded
  <2> QED BY <2>3, <2>5, <2>6, <2>7 DEF IInv
<1>7. CASE row[m].state = "pending" /\ Stamped(m, "sending")
  <2>1. /\ task'[w].pc \in {"prepare", "retry"} /\ task'[w].job = task[w].job
        /\ \A v \in Workers \ {w} : task'[v] = task[v]
        /\ Claimed(w)' => task'[w].gen = row[m].gen /\ task'[w].pc = "prepare"
    BY <1>1, <1>7, ClaimEffect DEF Moved, Claimed
  <2>2. /\ Rows' = Rows /\ row'[m].state = "sending" /\ \A i \in Rows \ {m} : row'[i] = row[i]
        /\ \A i \in Rows : /\ row'[i].to = row[i].to /\ row'[i].kind = row[i].kind
                           /\ row'[i].at = row[i].at /\ row'[i].gen = row[i].gen
    <3> HIDE DEF m
    <3> QED BY <1>1, <1>4, <1>7, StampedRows
  <2>3. /\ LedgerShape' /\ HandShape' /\ RateShape'
        /\ \A v \in Workers : Mine(v)' = Mine(v)
        /\ \A v \in Workers \ {w} : Claimed(v)' <=> Claimed(v)
    BY <1>2, <2>1, <2>2, HandlerKept
  <2>4. mailed[m][row[m].gen] = 0
    BY <1>1, <1>4, <1>7 DEF OneMailAsRecorded
  <2>5. \A v \in Workers : Claimed(v) => Mine(v) \in Rows /\ (Mine(v) = m => task[v].gen # row[m].gen)
    BY <1>1, <1>7, MineIsRow DEF ClaimShape, Claimed
  <2>6. row[m].gen \in Nat
    <3>1. row[m] \in RowType
      BY <1>1, <1>4 DEF TypeOK, Rows
    <3> QED BY <3>1, FieldTypes, Bounds
  <2> HIDE DEF m
  <2>7. ClaimShape'
    <3>1. ASSUME NEW v \in Workers, NEW u \in Workers, Claimed(v)', Claimed(u)',
                 Mine(v)' = Mine(u)', task'[v].gen = task'[u].gen
          PROVE  v = u
      <4>1. CASE v # w /\ u # w
        BY <4>1, <3>1, <2>1, <2>3, <1>1 DEF ClaimShape
      <4>2. CASE v = w /\ u # w
        BY <4>2, <3>1, <2>1, <2>3, <2>5 DEF m
      <4>3. CASE v # w /\ u = w
        BY <4>3, <3>1, <2>1, <2>3, <2>5 DEF m
      <4> QED BY <4>1, <4>2, <4>3
    <3>2. ASSUME NEW v \in Workers, Claimed(v)'
          PROVE  /\ task'[v].gen <= row'[Mine(v)'].gen
                 /\ task'[v].gen = row'[Mine(v)'].gen => row'[Mine(v)'].state = "sending"
                 /\ mailed'[Mine(v)'][task'[v].gen] = IF task'[v].pc = "accepted" THEN 1 ELSE 0
      <4>1. CASE v = w
        <5>1. Mine(v)' = m /\ task'[v].gen = row[m].gen /\ task'[v].pc = "prepare"
          BY <4>1, <3>2, <2>1, <2>3 DEF m
        <5> QED BY <5>1, <1>3, <1>4, <2>2, <2>4, <2>6
      <4>2. CASE v # w
        <5>1. Claimed(v) /\ task'[v] = task[v] /\ Mine(v)' = Mine(v) /\ Mine(v) \in Rows
          BY <4>2, <3>2, <2>1, <2>3, <2>5
        <5>2. /\ task[v].gen <= row[Mine(v)].gen
              /\ task[v].gen = row[Mine(v)].gen => row[Mine(v)].state = "sending"
              /\ mailed[Mine(v)][task[v].gen] = IF task[v].pc = "accepted" THEN 1 ELSE 0
          BY <5>1, <1>1 DEF ClaimShape
        <5>3. row'[Mine(v)].gen = row[Mine(v)].gen
              /\ (row[Mine(v)].state = "sending" => row'[Mine(v)].state = "sending")
          BY <5>1, <2>2
        <5> QED BY <5>1, <5>2, <5>3, <1>3
      <4> QED BY <4>1, <4>2
    <3>3. \A i \in MessageIds, g \in Generations : i \notin Rows' \/ g > row'[i].gen => mailed'[i][g] = 0
      BY <1>1, <1>3, <2>2 DEF ClaimShape
    <3> QED BY <3>1, <3>2, <3>3 DEF ClaimShape
  <2>8. LiveShape'
    <3>1. \A j \in Q!Messages : Live(j) => Live(j)' \/ body[j].msg = m
      <4> SUFFICES ASSUME NEW j \in Q!Messages, Live(j), body[j].msg # m PROVE Live(j)'
        OBVIOUS
      <4>1. hand[w] # j \/ answer[w] # "none"
        BY <1>1, <1>4, Bounds DEF HandShape
      <4> QED BY <4>1, <1>3, <2>1 DEF Live
    <3> QED BY <3>1, <1>1, <1>3, <2>2 DEF LiveShape
  <2>9. OneMailAsRecorded'
    BY <1>1, <1>3, <2>2 DEF OneMailAsRecorded
  <2> QED BY <2>3, <2>7, <2>8, <2>9 DEF IInv
<1> QED BY <1>1, <1>6, <1>7, ClaimEffect

\* The handler of a claim ends it, on the row or, when the row has moved on, without it.
LEMMA ClaimEnds ==
  ASSUME IInv, TypeOK', NEW w \in Workers, Claimed(w), NEW pc \in {"ok", "retry"}, Moved(w, pc),
         NEW st \in {"sent", "failed", "pending"},
         UNCHANGED <<queue, body, asking, mailed>>, orphaned \subseteq orphaned',
         \/ row' = row /\ task[w].gen # row[Mine(w)].gen
         \/ /\ Stamped(Mine(w), st) /\ task[w].gen = row[Mine(w)].gen
            /\ st = "sent" <=> task[w].pc = "accepted"
            /\ st = "pending" => pc = "retry" /\ (hand[w] # task[w].job => Mine(w) \in orphaned')
  PROVE  IInv'
<1> DEFINE m == Mine(w)
<1>1. TypeOK /\ LedgerShape /\ HandShape /\ ClaimShape /\ LiveShape /\ RateShape /\ OneMailAsRecorded
  BY DEF IInv
<1>2. /\ task'[w].pc = pc /\ task'[w].job = task[w].job /\ task'[w].gen = task[w].gen
      /\ \A v \in Workers \ {w} : task'[v] = task[v]
  BY DEF Moved
<1>3. /\ status' = status /\ hand' = hand /\ answer' = answer /\ body' = body
      /\ asking' = asking /\ mailed' = mailed
  BY DEF queue
<1>4. /\ m \in Rows /\ m \in MessageIds /\ task[w].job \in Q!Messages /\ m = body[task[w].job].msg
      /\ task[w].pc # "idle" /\ task[w].pc \notin {"start", "retry"}
  BY <1>1, MineIsRow DEF Claimed
<1>5. /\ mailed[m][task[w].gen] = IF task[w].pc = "accepted" THEN 1 ELSE 0
      /\ task[w].gen <= row[m].gen
      /\ task[w].gen = row[m].gen => row[m].state = "sending"
  BY <1>1 DEF ClaimShape
<1>6. /\ Rows' = Rows /\ \A i \in Rows \ {m} : row'[i] = row[i]
      /\ \A i \in Rows : /\ row'[i].to = row[i].to /\ row'[i].kind = row[i].kind
                         /\ row'[i].at = row[i].at /\ row'[i].gen = row[i].gen
      /\ \/ row'[m].state = row[m].state
         \/ /\ row'[m].state = st /\ task[w].gen = row[m].gen
            /\ st = "sent" <=> task[w].pc = "accepted"
            /\ st = "pending" => pc = "retry" /\ (hand[w] # task[w].job => m \in orphaned')
  <2>1. CASE row' = row
    BY <2>1 DEF Rows
  <2>2. CASE /\ Stamped(m, st) /\ task[w].gen = row[m].gen
             /\ st = "sent" <=> task[w].pc = "accepted"
             /\ st = "pending" => pc = "retry" /\ (hand[w] # task[w].job => m \in orphaned')
    <3>1. m \in Rows
      BY <1>4
    <3> HIDE DEF m
    <3> QED BY <2>2, <3>1, <1>1, StampedRows
  <2> QED BY <2>1, <2>2
<1>7. ~Claimed(w)' /\ task'[w].pc # "idle"
  BY <1>2 DEF Claimed
<1>8. /\ LedgerShape' /\ HandShape' /\ RateShape'
      /\ \A v \in Workers : Mine(v)' = Mine(v)
      /\ \A v \in Workers \ {w} : Claimed(v)' <=> Claimed(v)
  BY <1>2, <1>4, <1>6, <1>7, HandlerKept
<1>9. \A v \in Workers \ {w} : Claimed(v) => Mine(v) # m \/ task[v].gen # task[w].gen
  BY <1>1 DEF ClaimShape
<1>10. \A v \in Workers : Claimed(v) => Mine(v) \in Rows
  BY <1>1, MineIsRow DEF Claimed
<1> HIDE DEF m
<1>11. ClaimShape'
  <2>1. \A v, u \in Workers :
          Claimed(v)' /\ Claimed(u)' /\ Mine(v)' = Mine(u)' /\ task'[v].gen = task'[u].gen => v = u
    BY <1>1, <1>2, <1>7, <1>8 DEF ClaimShape
  <2>2. ASSUME NEW v \in Workers, Claimed(v)'
        PROVE  /\ task'[v].gen <= row'[Mine(v)'].gen
               /\ task'[v].gen = row'[Mine(v)'].gen => row'[Mine(v)'].state = "sending"
               /\ mailed'[Mine(v)'][task'[v].gen] = IF task'[v].pc = "accepted" THEN 1 ELSE 0
    <3>1. v # w /\ Claimed(v) /\ task'[v] = task[v] /\ Mine(v)' = Mine(v) /\ Mine(v) \in Rows
      BY <2>2, <1>2, <1>7, <1>8, <1>10
    <3>2. /\ task[v].gen <= row[Mine(v)].gen
          /\ task[v].gen = row[Mine(v)].gen => row[Mine(v)].state = "sending"
          /\ mailed[Mine(v)][task[v].gen] = IF task[v].pc = "accepted" THEN 1 ELSE 0
      BY <3>1, <1>1 DEF ClaimShape
    <3>3. row'[Mine(v)].gen = row[Mine(v)].gen
      BY <3>1, <1>6
    <3>4. task[v].gen = row[Mine(v)].gen => row'[Mine(v)].state = row[Mine(v)].state
      BY <3>1, <1>6, <1>9
    <3> QED BY <3>1, <3>2, <3>3, <3>4, <1>3
  <2>3. \A i \in MessageIds, g \in Generations : i \notin Rows' \/ g > row'[i].gen => mailed'[i][g] = 0
    BY <1>1, <1>3, <1>6 DEF ClaimShape
  <2> QED BY <2>1, <2>2, <2>3 DEF ClaimShape
<1>12. LiveShape'
  <2>1. \A j \in Q!Messages : Live(j) => Live(j)'
    <3> SUFFICES ASSUME NEW j \in Q!Messages, Live(j) PROVE Live(j)'
      OBVIOUS
    <3>1. hand[w] # j \/ answer[w] # "none"
      BY <1>4 DEF Live
    <3> QED BY <3>1, <1>2, <1>3 DEF Live
  <2>0. PICK k \in Q!Messages : k = task[w].job
    BY <1>4
  <2>2. ASSUME row'[m].state # row[m].state, row'[m].state = "pending", m \notin orphaned'
        PROVE  body'[k].msg = m /\ Live(k)'
    <3>1. pc = "retry" /\ hand[w] = task[w].job
      BY <2>2, <1>6
    <3>2. hand[w] # 0 /\ answer[w] = "none" /\ status[hand[w]] = "pending"
      BY <3>1, <1>1, <1>4, Bounds DEF HandShape
    <3>3. \A v \in Workers : hand[v] = hand[w] => v = w
      BY <3>2, <1>1 DEF HandShape
    <3> QED BY <2>0, <3>1, <3>2, <3>3, <1>2, <1>3, <1>4 DEF Live
  <2> SUFFICES ASSUME NEW i \in Rows' \ orphaned', row'[i].state = "pending"
               PROVE  \E j \in Q!Messages : body'[j].msg = i /\ Live(j)'
    BY DEF LiveShape
  <2>3. CASE row'[i].state = row[i].state
    <3>1. i \in Rows \ orphaned /\ row[i].state = "pending"
      BY <2>3, <1>6
    <3> QED BY <3>1, <2>1, <1>1, <1>3 DEF LiveShape
  <2>4. CASE row'[i].state # row[i].state
    <3>1. i = m
      BY <2>4, <1>6
    <3> QED BY <3>1, <2>2, <2>4
  <2> QED BY <2>3, <2>4
<1>13. OneMailAsRecorded'
  <2>1. ASSUME NEW i \in Rows
        PROVE  /\ row'[i].state = "sent" => mailed'[i][row'[i].gen] = 1
               /\ row'[i].state \in {"failed", "pending"} => mailed'[i][row'[i].gen] = 0
    <3>1. CASE row'[i].state = row[i].state
      BY <3>1, <1>1, <1>3, <1>6 DEF OneMailAsRecorded
    <3>2. CASE row'[i].state # row[i].state
      <4>1. /\ i = m /\ row'[m].state = st /\ task[w].gen = row[m].gen
            /\ st = "sent" <=> task[w].pc = "accepted"
        BY <3>2, <1>6
      <4> QED BY <4>1, <1>3, <1>4, <1>5, <1>6
    <3> QED BY <3>1, <3>2
  <2> QED BY <2>1, <1>1, <1>3, <1>6 DEF OneMailAsRecorded
<1> QED BY <1>8, <1>11, <1>12, <1>13 DEF IInv

LEMMA ResolveStep ==
  ASSUME IInv, TypeOK', NEW w \in Workers, Resolve(w)
  PROVE  IInv'
<1> DEFINE st == IF task[w].pc = "accepted" THEN "sent" ELSE "failed"
<1>1. TypeOK /\ LedgerShape /\ ClaimShape
  BY DEF IInv
<1>2. /\ task[w].pc \in {"accepted", "rejected", "refused"}
      /\ UNCHANGED <<queue, body, suppressed, asking, now, mailed, orphaned>>
      /\ Moved(w, "ok") \/ Moved(w, "retry")
      /\ IF Owns(Mine(w), task[w].gen) THEN Stamped(Mine(w), st) ELSE row' = row
  BY <1>1, ResolveEffect
<1>3. Claimed(w)
  BY <1>2 DEF Claimed
<1>4. Owns(Mine(w), task[w].gen) <=> task[w].gen = row[Mine(w)].gen
  BY <1>1, <1>3 DEF ClaimShape, Owns
<1>5. PICK pc \in {"ok", "retry"} : Moved(w, pc)
  BY <1>2
<1>6. /\ st \in {"sent", "failed", "pending"} /\ st # "pending"
      /\ st = "sent" <=> task[w].pc = "accepted"
  OBVIOUS
<1> HIDE DEF st
<1> QED BY <1>2, <1>3, <1>4, <1>5, <1>6, ClaimEnds

LEMMA ReleaseStep ==
  ASSUME IInv, TypeOK', NEW w \in Workers, Release(w)
  PROVE  IInv'
<1>1. TypeOK /\ LedgerShape /\ ClaimShape
  BY DEF IInv
<1>2. /\ task[w].pc = "release" /\ Moved(w, "retry")
      /\ UNCHANGED <<queue, body, suppressed, asking, now, faults, mailed>>
      /\ orphaned \subseteq orphaned'
      /\ IF row[Mine(w)].state = "sending" /\ row[Mine(w)].gen = task[w].gen
         THEN /\ Stamped(Mine(w), "pending")
              /\ hand[w] # task[w].job => Mine(w) \in orphaned'
         ELSE row' = row
  BY <1>1, ReleaseEffect
<1>3. Claimed(w)
  BY <1>2 DEF Claimed
<1>4. task[w].gen = row[Mine(w)].gen => row[Mine(w)].state = "sending"
  BY <1>1, <1>3 DEF ClaimShape
<1> QED BY <1>2, <1>3, <1>4, ClaimEnds

\* A worker's task ends or its hands are emptied: no row, job or mail changes.
LEMMA WorkerStep ==
  ASSUME IInv, TypeOK', NEW w \in Workers,
         Ended(w) \/ task' = task,
         UNCHANGED <<body, row, asking, mailed, orphaned>>,
         \A j \in Q!Messages : status[j] = "unborn" <=> status'[j] = "unborn",
         HandShape',
         \A j \in Q!Messages : Live(j) => Live(j)'
  PROVE  IInv'
<1>1. TypeOK /\ LedgerShape /\ ClaimShape /\ LiveShape /\ RateShape /\ OneMailAsRecorded
  BY DEF IInv
<1>2. \A v \in Workers : task'[v].pc # "idle" => task'[v] = task[v]
  BY DEF Ended
<1>3. Rows' = Rows
  BY DEF Rows
<1>4. LedgerShape'
  BY <1>1, <1>2, <1>3 DEF LedgerShape
<1>5. \A v \in Workers : Claimed(v)' => Claimed(v) /\ Mine(v)' = Mine(v) /\ task'[v] = task[v]
  BY <1>2 DEF Claimed, Mine
<1>6. ClaimShape'
  BY <1>1, <1>3, <1>5 DEF ClaimShape
<1>7. LiveShape'
  BY <1>1, <1>3 DEF LiveShape
<1>8. RateShape' /\ OneMailAsRecorded'
  BY <1>1, <1>3, RateKept DEF OneMailAsRecorded
<1> QED BY <1>4, <1>6, <1>7, <1>8 DEF IInv

LEMMA ReportStep ==
  ASSUME IInv, TypeOK', NEW w \in Workers, Report(w)
  PROVE  IInv'
<1>1. TypeOK /\ LedgerShape /\ HandShape
  BY DEF IInv
<1>2. /\ task[w].pc \in {"ok", "retry"} /\ status' = status /\ hand' = hand
      /\ UNCHANGED <<body, row, asking, mailed, orphaned>>
      /\ IF hand[w] = task[w].job THEN answer' = [answer EXCEPT ![w] = task[w].pc]
                                  ELSE answer' = answer
  BY DEF Report, Q!Answer, queue
<1>3. Ended(w)
  BY <1>1, EndEffect DEF Report
<1>4. task[w].job \in Q!Messages /\ task[w].job # 0
  BY <1>1, <1>2, MineIsRow, Bounds
<1>5. CASE hand[w] = task[w].job
  <2>1. answer[w] = "none"
    BY <1>5, <1>1, <1>2, <1>4 DEF HandShape
  <2>2. answer'[w] = task[w].pc /\ \A v \in Workers \ {w} : answer'[v] = answer[v]
    BY <1>1, <1>2, <1>5 DEF TypeOK
  <2>3. task'[w].pc = "idle" /\ \A v \in Workers \ {w} : task'[v] = task[v]
    BY <1>3 DEF Ended
  <2>4. HandShape'
    BY <1>1, <1>2, <1>4, <1>5, <2>2, <2>3 DEF HandShape
  <2>5. \A j \in Q!Messages : Live(j) => Live(j)'
    BY <1>2, <2>1, <2>2, <2>3 DEF Live
  <2> QED BY <1>2, <1>3, <2>4, <2>5, WorkerStep
<1>6. CASE hand[w] # task[w].job
  <2>1. answer' = answer
    BY <1>2, <1>6
  <2>2. hand[w] = 0
    BY <1>6, <1>1, <1>2 DEF HandShape
  <2>3. task'[w].pc = "idle" /\ \A v \in Workers \ {w} : task'[v] = task[v]
    BY <1>3 DEF Ended
  <2>4. HandShape'
    BY <1>1, <1>2, <2>1, <2>2, <2>3 DEF HandShape
  <2>5. \A j \in Q!Messages : Live(j) => Live(j)'
    BY <1>2, <2>1, <2>2, <2>3, Bounds DEF Live
  <2> QED BY <1>2, <1>3, <2>4, <2>5, WorkerStep
<1> QED BY <1>5, <1>6

LEMMA SettleStep ==
  ASSUME IInv, TypeOK', NEW w \in Workers, Settle(w)
  PROVE  IInv'
<1>1. TypeOK /\ LedgerShape /\ HandShape
  BY DEF IInv
<1>2. /\ hand[w] # 0 /\ hand[w] \in Q!Messages /\ LetsGo(w)
      /\ \/ answer[w] = "ok" /\ status'[hand[w]] = "done"
         \/ answer[w] = "retry" /\ status'[hand[w]] \in {"pending", "dead"}
      /\ \A j \in Q!Messages \ {hand[w]} : status'[j] = status[j]
  BY <1>1, SettleEffect
<1>3. UNCHANGED <<body, row, asking, mailed, orphaned, task>>
  BY DEF Settle
<1>4. /\ hand'[w] = 0 /\ answer'[w] = "none"
      /\ \A v \in Workers \ {w} : hand'[v] = hand[v] /\ answer'[v] = answer[v]
  BY <1>2 DEF LetsGo
<1>5. status[hand[w]] = "pending" /\ \A v \in Workers \ {w} : hand[v] # hand[w]
  BY <1>1, <1>2 DEF HandShape
<1>6. HandShape'
  <2>1. ASSUME NEW v \in Workers, hand'[v] # 0
        PROVE  /\ hand'[v] \in Q!Messages /\ status'[hand'[v]] = "pending"
               /\ answer'[v] = "none" => task'[v].job = hand'[v] /\ task'[v].pc # "idle"
               /\ answer'[v] # "none" => task'[v].pc = "idle"
    <3>1. v # w /\ hand'[v] = hand[v] /\ answer'[v] = answer[v] /\ hand[v] # hand[w]
      BY <2>1, <1>4, <1>5
    <3> QED BY <2>1, <3>1, <1>1, <1>2, <1>3 DEF HandShape
  <2>2. \A v \in Workers : hand'[v] = 0 => answer'[v] = "none"
    BY <1>1, <1>4 DEF HandShape
  <2>3. \A v, u \in Workers : hand'[v] = hand'[u] /\ hand'[v] # 0 => v = u
    BY <1>1, <1>4 DEF HandShape
  <2> QED BY <2>1, <2>2, <2>3 DEF HandShape
<1>7. \A j \in Q!Messages : Live(j) => Live(j)'
  <2> SUFFICES ASSUME NEW j \in Q!Messages, Live(j) PROVE Live(j)'
    OBVIOUS
  <2>1. status'[j] \in {"pending", "dead"}
    BY <1>2 DEF Live
  <2>2. \A v \in Workers : hand'[v] = j => hand[v] = j /\ answer'[v] = answer[v] /\ task'[v] = task[v]
    BY <1>3, <1>4, Bounds
  <2> QED BY <2>1, <2>2 DEF Live
<1>8. \A j \in Q!Messages : status[j] = "unborn" <=> status'[j] = "unborn"
  BY <1>2, <1>5
<1> QED BY <1>3, <1>6, <1>7, <1>8, WorkerStep

LEMMA LoseStep ==
  ASSUME IInv, TypeOK', NEW w \in Workers, Overrun(w) \/ Crash(w)
  PROVE  IInv'
<1>1. TypeOK /\ LedgerShape /\ HandShape
  BY DEF IInv
<1>2. Q!LetGo({w}) /\ status' = status /\ UNCHANGED <<body, row, asking, mailed, orphaned>>
  BY DEF Overrun, Crash, Q!Lose
<1>3. Ended(w) \/ task' = task
  BY <1>1, EndEffect DEF Overrun, Crash
<1>4. /\ hand'[w] = 0 /\ answer'[w] = "none"
      /\ \A v \in Workers \ {w} : hand'[v] = hand[v] /\ answer'[v] = answer[v] /\ task'[v] = task[v]
  BY <1>1, <1>2, <1>3, LetGoEffect DEF LetsGo, Ended
<1>5. HandShape'
  <2>1. ASSUME NEW v \in Workers, hand'[v] # 0
        PROVE  /\ hand'[v] \in Q!Messages /\ status'[hand'[v]] = "pending"
               /\ answer'[v] = "none" => task'[v].job = hand'[v] /\ task'[v].pc # "idle"
               /\ answer'[v] # "none" => task'[v].pc = "idle"
    BY <2>1, <1>1, <1>2, <1>4 DEF HandShape
  <2>2. \A v \in Workers : hand'[v] = 0 => answer'[v] = "none"
    BY <1>1, <1>4 DEF HandShape
  <2>3. \A v, u \in Workers : hand'[v] = hand'[u] /\ hand'[v] # 0 => v = u
    BY <1>1, <1>4 DEF HandShape
  <2> QED BY <2>1, <2>2, <2>3 DEF HandShape
<1>6. \A j \in Q!Messages : Live(j) => Live(j)'
  BY <1>2, <1>4, Bounds DEF Live
<1> QED BY <1>2, <1>3, <1>5, <1>6, WorkerStep

LEMMA RevivedStep ==
  ASSUME IInv, TypeOK', NEW j \in Q!Messages, Replay(j) \/ Reap(j)
  PROVE  IInv'
<1>1. TypeOK /\ LedgerShape /\ HandShape /\ ClaimShape /\ LiveShape /\ RateShape /\ OneMailAsRecorded
  BY DEF IInv
<1>2. /\ status[j] \in {"dead", "done"}
      /\ status'[j] = IF status[j] = "dead" THEN "pending" ELSE "removed"
      /\ \A i \in Q!Messages \ {j} : status'[i] = status[i]
      /\ UNCHANGED <<hand, answer, body, row, suppressed, task, asking, now, mailed, orphaned>>
  BY <1>1, RevivedEffect
<1>3. Rows' = Rows /\ \A v \in Workers : Mine(v)' = Mine(v) /\ (Claimed(v)' <=> Claimed(v))
  BY <1>2 DEF Rows, Mine, Claimed
<1>4. LedgerShape'
  <2>1. \A i \in Q!Messages : status'[i] = "unborn" <=> status[i] = "unborn"
    BY <1>2
  <2> QED BY <1>1, <1>2, <1>3, <2>1 DEF LedgerShape
<1>5. HandShape'
  BY <1>1, <1>2 DEF HandShape
<1>6. ClaimShape'
  BY <1>1, <1>2, <1>3 DEF ClaimShape
<1>7. LiveShape'
  <2>1. \A i \in Q!Messages : Live(i) => Live(i)'
    BY <1>2 DEF Live
  <2> QED BY <1>1, <1>2, <1>3, <2>1 DEF LiveShape
<1>8. RateShape' /\ OneMailAsRecorded'
  BY <1>1, <1>2, <1>3, RateKept DEF OneMailAsRecorded
<1> QED BY <1>4, <1>5, <1>6, <1>7, <1>8 DEF IInv

\* Steps that touch neither the queue nor a row nor a handler.
LEMMA FrameStep ==
  ASSUME IInv, TypeOK',
         UNCHANGED <<queue, body, row, task, mailed, orphaned>>,
         \A o \in Operators : asking'[o] # 0 => asking'[o] \in Rows
  PROVE  IInv'
<1>1. TypeOK /\ LedgerShape /\ HandShape /\ ClaimShape /\ LiveShape /\ RateShape /\ OneMailAsRecorded
  BY DEF IInv
<1>2. /\ status' = status /\ hand' = hand /\ answer' = answer /\ Rows' = Rows
      /\ \A v \in Workers : Mine(v)' = Mine(v) /\ (Claimed(v)' <=> Claimed(v))
      /\ \A j \in Q!Messages : Live(j) => Live(j)'
  BY DEF queue, Rows, Mine, Claimed, Live
<1>3. LedgerShape' /\ HandShape'
  BY <1>1, <1>2 DEF LedgerShape, HandShape
<1>4. ClaimShape' /\ LiveShape'
  BY <1>1, <1>2 DEF ClaimShape, LiveShape
<1>5. RateShape' /\ OneMailAsRecorded'
  BY <1>1, <1>2, RateKept DEF OneMailAsRecorded
<1> QED BY <1>3, <1>4, <1>5 DEF IInv

\* A new job disturbs no other one and no handler.
LEMMA NewJobKept ==
  ASSUME IInv, NEW j \in Q!Messages, NEW m \in MessageIds, NewJob(j, m), task' = task,
         m \in Rows', Rows \subseteq Rows'
  PROVE  /\ HandShape'
         /\ \A i \in Q!Messages : status'[i] # "unborn" => body'[i].msg \in Rows'
         /\ \A w \in Workers : task'[w].pc # "idle" =>
              task'[w].job \in Q!Messages /\ status'[task'[w].job] # "unborn"
         /\ \A w \in Workers : Claimed(w)' => Claimed(w) /\ Mine(w)' = Mine(w) /\ Mine(w) \in Rows
         /\ body'[j].msg = m /\ Live(j)'
         /\ \A i \in Q!Messages : Live(i) => Live(i)' /\ body'[i] = body[i]
<1>1. TypeOK /\ LedgerShape /\ HandShape
  BY DEF IInv
<1>2. /\ status[j] = "unborn" /\ status'[j] = "pending" /\ body'[j].msg = m
      /\ \A i \in Q!Messages \ {j} : status'[i] = status[i] /\ body'[i] = body[i]
      /\ hand' = hand /\ answer' = answer
  BY DEF NewJob
<1>3. \A w \in Workers : hand[w] # j
  BY <1>1, <1>2, Bounds DEF HandShape
<1>4. \A w \in Workers : task[w].pc # "idle" => task[w].job \in Q!Messages \ {j}
  BY <1>1, <1>2 DEF LedgerShape
<1>5. HandShape'
  BY <1>1, <1>2, <1>3 DEF HandShape
<1>6. \A i \in Q!Messages : status'[i] # "unborn" => body'[i].msg \in Rows'
  BY <1>1, <1>2 DEF LedgerShape
<1>7. \A w \in Workers : task'[w].pc # "idle" =>
        task'[w].job \in Q!Messages /\ status'[task'[w].job] # "unborn"
  BY <1>1, <1>2, <1>4 DEF LedgerShape
<1>8. \A w \in Workers : Claimed(w)' => Claimed(w) /\ Mine(w)' = Mine(w) /\ Mine(w) \in Rows
  BY <1>1, <1>2, <1>4 DEF Claimed, Mine, LedgerShape
<1>9. Live(j)'
  BY <1>2, <1>3 DEF Live
<1>10. \A i \in Q!Messages : Live(i) => Live(i)' /\ body'[i] = body[i]
  BY <1>2 DEF Live
<1> QED BY <1>2, <1>5, <1>6, <1>7, <1>8, <1>9, <1>10

LEMMA EnqueueStep ==
  ASSUME IInv, TypeOK', NEW r \in Recipients, NEW k \in Kinds,
         NEW at \in (now - MaxStall) .. now, Enqueue(r, k, at)
  PROVE  IInv'
<1>1. TypeOK /\ LedgerShape /\ HandShape /\ ClaimShape /\ LiveShape /\ RateShape /\ OneMailAsRecorded
  BY DEF IInv
<1>2. /\ task' = task /\ asking' = asking /\ mailed' = mailed /\ orphaned' = orphaned
      /\ Cardinality(Counted(r, k, at)) < Limit
  BY DEF Enqueue
<1>3. PICK m \in MessageIds :
        /\ Rows = 1 .. (m - 1) /\ row[m].state = "none"
        /\ row'[m].state = "pending" /\ row'[m].to = r /\ row'[m].kind = k
        /\ row'[m].at = at /\ row'[m].gen = 0
        /\ \A i \in MessageIds \ {m} : row'[i] = row[i]
        /\ \E j \in Q!Messages : NewJob(j, m)
  BY <1>1, EnqueueEffect
<1>4. PICK j \in Q!Messages : NewJob(j, m)
  BY <1>3
<1>5. m \in Nat \ {0} /\ m <= Cardinality(MessageIds) /\ Cardinality(MessageIds) \in Nat
  BY Ids
<1>6. Rows' = Rows \cup {m} /\ m \notin Rows /\ Rows' = 1 .. m
  <2>1. Rows' = Rows \cup {m} /\ m \notin Rows
    BY <1>3 DEF Rows
  <2> QED BY <2>1, <1>3, <1>5
<1>7. /\ HandShape'
      /\ \A i \in Q!Messages : status'[i] # "unborn" => body'[i].msg \in Rows'
      /\ \A w \in Workers : task'[w].pc # "idle" =>
           task'[w].job \in Q!Messages /\ status'[task'[w].job] # "unborn"
      /\ \A w \in Workers : Claimed(w)' => Claimed(w) /\ Mine(w)' = Mine(w) /\ Mine(w) \in Rows
      /\ body'[j].msg = m /\ Live(j)'
      /\ \A i \in Q!Messages : Live(i) => Live(i)' /\ body'[i] = body[i]
  BY <1>2, <1>4, <1>6, NewJobKept
<1>8. \A i \in Rows : i \in MessageIds /\ row'[i] = row[i] /\ i # m
  BY <1>3, <1>6 DEF Rows
<1>9. LedgerShape'
  <2>1. \E n \in 0 .. Cardinality(MessageIds) : Rows' = 1 .. n
    BY <1>5, <1>6
  <2> QED BY <2>1, <1>1, <1>2, <1>6, <1>7 DEF LedgerShape
<1>10. ClaimShape'
  <2>1. \A v, w \in Workers :
          Claimed(v)' /\ Claimed(w)' /\ Mine(v)' = Mine(w)' /\ task'[v].gen = task'[w].gen => v = w
    BY <1>1, <1>2, <1>7 DEF ClaimShape
  <2>2. ASSUME NEW v \in Workers, Claimed(v)'
        PROVE  /\ task'[v].gen <= row'[Mine(v)'].gen
               /\ task'[v].gen = row'[Mine(v)'].gen => row'[Mine(v)'].state = "sending"
               /\ mailed'[Mine(v)'][task'[v].gen] = IF task'[v].pc = "accepted" THEN 1 ELSE 0
    <3>1. Claimed(v) /\ Mine(v)' = Mine(v) /\ row'[Mine(v)] = row[Mine(v)]
      BY <2>2, <1>7, <1>8
    <3> QED BY <3>1, <1>1, <1>2 DEF ClaimShape
  <2>3. \A i \in MessageIds, g \in Generations : i \notin Rows' \/ g > row'[i].gen => mailed'[i][g] = 0
    BY <1>1, <1>2, <1>3, <1>6 DEF ClaimShape
  <2> QED BY <2>1, <2>2, <2>3 DEF ClaimShape
<1>11. LiveShape'
  <2> SUFFICES ASSUME NEW i \in Rows' \ orphaned', row'[i].state = "pending"
               PROVE  \E x \in Q!Messages : body'[x].msg = i /\ Live(x)'
    BY DEF LiveShape
  <2>1. CASE i = m
    BY <2>1, <1>7
  <2>2. CASE i # m
    <3>1. i \in Rows \ orphaned /\ row[i].state = "pending"
      BY <2>2, <1>2, <1>6, <1>8
    <3> QED BY <3>1, <1>1, <1>7 DEF LiveShape
  <2> QED BY <2>1, <2>2
<1>12. RateShape'
  <2>1. ASSUME NEW i \in Rows PROVE Before(i)' = Before(i)
    <3>1. \A x \in Rows' : x < i => x \in Rows
      BY <2>1, <1>3, <1>5, <1>6
    <3> QED BY <2>1, <3>1, <1>6, <1>8 DEF Before, InWindow
  <2>2. Before(m)' = Counted(r, k, at)
    <3>1. \A x \in Rows' : x < m <=> x \in Rows
      BY <1>3, <1>5, <1>6
    <3> QED BY <3>1, <1>3, <1>6, <1>8 DEF Before, Counted, InWindow
  <2> QED BY <2>1, <2>2, <1>1, <1>2, <1>6 DEF RateShape
<1>13. OneMailAsRecorded'
  <2>1. mailed[m][0] = 0
    <3>1. 0 \in Generations
      BY Bounds
    <3> QED BY <3>1, <1>1, <1>6 DEF ClaimShape
  <2> QED BY <2>1, <1>1, <1>2, <1>3, <1>6, <1>8 DEF OneMailAsRecorded
<1> QED BY <1>7, <1>9, <1>10, <1>11, <1>12, <1>13 DEF IInv

LEMMA ResendStep ==
  ASSUME IInv, TypeOK', NEW o \in Operators, ResendCommit(o)
  PROVE  IInv'
<1>1. TypeOK /\ LedgerShape /\ HandShape /\ ClaimShape /\ LiveShape /\ RateShape /\ OneMailAsRecorded
  BY DEF IInv
<1>2. PICK m \in MessageIds : m = asking[o] /\ m \in Rows
  BY <1>1, ResendEffect
<1>3. /\ asking'[o] = 0 /\ \A p \in Operators \ {o} : asking'[p] = asking[p]
      /\ task' = task /\ mailed' = mailed /\ orphaned' = orphaned
  BY <1>1, ResendEffect
<1>4. CASE UNCHANGED <<queue, body, row>>
  <2>1. \A p \in Operators : asking'[p] # 0 => asking'[p] \in Rows
    BY <1>1, <1>3 DEF LedgerShape
  <2> QED BY <1>3, <1>4, <2>1, FrameStep
<1>5. ASSUME row[m].state \in {"failed", "sending"},
             row'[m].state = "pending", row'[m].gen = row[m].gen + 1,
             row'[m].to = row[m].to, row'[m].kind = row[m].kind, row'[m].at = row[m].at,
             \A i \in MessageIds \ {m} : row'[i] = row[i],
             NEW j \in Q!Messages, NewJob(j, m)
      PROVE  IInv'
  <2>1. Rows' = Rows
    BY <1>2, <1>5 DEF Rows
  <2>2. /\ HandShape'
        /\ \A i \in Q!Messages : status'[i] # "unborn" => body'[i].msg \in Rows'
        /\ \A w \in Workers : task'[w].pc # "idle" =>
             task'[w].job \in Q!Messages /\ status'[task'[w].job] # "unborn"
        /\ \A w \in Workers : Claimed(w)' => Claimed(w) /\ Mine(w)' = Mine(w) /\ Mine(w) \in Rows
        /\ body'[j].msg = m /\ Live(j)'
        /\ \A i \in Q!Messages : Live(i) => Live(i)' /\ body'[i] = body[i]
    BY <1>2, <1>3, <1>5, <2>1, NewJobKept
  <2>3. \A i \in Rows : i \in MessageIds /\ (i # m => row'[i] = row[i])
    BY <1>5 DEF Rows
  <2>4. LedgerShape'
    BY <1>1, <1>3, <2>1, <2>2 DEF LedgerShape
  <2>5. row[m].gen \in Nat /\ row[m].gen + 1 \in Generations
    <3>1. row[m].gen \in Generations
      BY <1>1, FieldTypes DEF TypeOK
    <3>2. row'[m].gen \in Generations
      BY FieldTypes DEF TypeOK
    <3> QED BY <3>1, <3>2, <1>5, Bounds
  <2>6. mailed[m][row[m].gen + 1] = 0
    BY <2>5, <1>1, Bounds DEF ClaimShape
  <2>7. ClaimShape'
    <3>1. \A v, w \in Workers :
            Claimed(v)' /\ Claimed(w)' /\ Mine(v)' = Mine(w)' /\ task'[v].gen = task'[w].gen => v = w
      BY <1>1, <1>3, <2>2 DEF ClaimShape
    <3>2. ASSUME NEW v \in Workers, Claimed(v)'
          PROVE  /\ task'[v].gen <= row'[Mine(v)'].gen
                 /\ task'[v].gen = row'[Mine(v)'].gen => row'[Mine(v)'].state = "sending"
                 /\ mailed'[Mine(v)'][task'[v].gen] = IF task'[v].pc = "accepted" THEN 1 ELSE 0
      <4>1. Claimed(v) /\ Mine(v)' = Mine(v) /\ Mine(v) \in Rows /\ task' = task
        BY <3>2, <1>3, <2>2
      <4>2. /\ task[v].gen <= row[Mine(v)].gen
            /\ task[v].gen = row[Mine(v)].gen => row[Mine(v)].state = "sending"
            /\ mailed[Mine(v)][task[v].gen] = IF task[v].pc = "accepted" THEN 1 ELSE 0
        BY <4>1, <1>1 DEF ClaimShape
      <4>3. task[v].gen \in Nat
        BY <1>1, FieldTypes, Bounds DEF TypeOK
      <4>4. CASE Mine(v) = m
        <5>1. row'[Mine(v)].gen = row[m].gen + 1 /\ task[v].gen <= row[m].gen
          BY <4>2, <4>4, <1>5
        <5> QED BY <5>1, <4>1, <4>2, <4>3, <2>5, <1>3
      <4>5. CASE Mine(v) # m
        <5>1. row'[Mine(v)] = row[Mine(v)]
          BY <4>1, <4>5, <2>3
        <5> QED BY <5>1, <4>1, <4>2, <1>3
      <4> QED BY <4>4, <4>5
    <3>3. ASSUME NEW i \in MessageIds, NEW g \in Generations, i \notin Rows' \/ g > row'[i].gen
          PROVE  mailed'[i][g] = 0
      <4>1. i \notin Rows \/ g > row[i].gen
        BY <3>3, <1>2, <1>5, <2>1, <2>5, Bounds
      <4> QED BY <4>1, <1>1, <1>3 DEF ClaimShape
    <3> QED BY <3>1, <3>2, <3>3 DEF ClaimShape
  <2>8. LiveShape'
    <3> SUFFICES ASSUME NEW i \in Rows' \ orphaned', row'[i].state = "pending"
                 PROVE  \E x \in Q!Messages : body'[x].msg = i /\ Live(x)'
      BY DEF LiveShape
    <3>1. CASE i = m
      BY <3>1, <2>2
    <3>2. CASE i # m
      <4>1. i \in Rows \ orphaned /\ row[i].state = "pending"
        BY <3>2, <1>3, <2>1, <2>3
      <4> QED BY <4>1, <1>1, <2>2 DEF LiveShape
    <3> QED BY <3>1, <3>2
  <2>9. RateShape'
    BY <1>1, <1>5, <2>1, <2>3, RateKept
  <2>10. OneMailAsRecorded'
    BY <1>1, <1>3, <1>5, <2>1, <2>3, <2>6 DEF OneMailAsRecorded
  <2> QED BY <2>2, <2>4, <2>7, <2>8, <2>9, <2>10 DEF IInv
<1> QED BY <1>1, <1>2, <1>4, <1>5, ResendEffect

-----------------------------------------------------------------------------
(* The theorems.                                                           *)

LEMMA InvStep == IInv /\ [Next]_vars => IInv'
<1> SUFFICES ASSUME IInv, [Next]_vars PROVE IInv'
  OBVIOUS
<1>0. TypeOK'
  BY TypeStep
<1>1. \A o \in Operators : asking[o] # 0 => asking[o] \in Rows
  BY DEF IInv, LedgerShape
<1>2. CASE Tick
  BY <1>0, <1>1, <1>2, FrameStep DEF Tick
<1>3. ASSUME NEW r \in Recipients, Suppress(r) PROVE IInv'
  BY <1>0, <1>1, <1>3, FrameStep DEF Suppress
<1>4. ASSUME NEW o \in Operators, NEW m \in MessageIds, ResendRead(o, m) PROVE IInv'
  <2>1. \A p \in Operators : asking'[p] # 0 => asking'[p] \in Rows
    BY <1>1, <1>4 DEF ResendRead, IInv, TypeOK
  <2> QED BY <1>0, <1>4, <2>1, FrameStep DEF ResendRead
<1>5. CASE UNCHANGED vars
  BY <1>0, <1>1, <1>5, FrameStep DEF vars
<1> QED BY <1>0, <1>2, <1>3, <1>4, <1>5, EnqueueStep, TakeStep, ClaimStep, ComposeStep, SendStep,
           ResolveStep, ReleaseStep, ReportStep, SettleStep, StoreErrorStep, LoseStep, ResendStep,
           RevivedStep DEF Next, Handle

LEMMA Invariant == Spec => []IInv
BY InvInit, InvStep, PTL DEF Spec

\* Every reachable state of the ledger, its jobs and its handlers is well typed.
THEOREM TypeCorrect == Spec => []TypeOK
BY Invariant, PTL DEF IInv

\* However often jobs are handled and by however many workers, a generation is mailed at
\* most once more than answers of providers were lost, and the row says what the workers
\* were told of the generation it is at (claim_for_delivery, resolve and resend_in_tx).
THEOREM OneMail == Spec => []OneMailAsRecorded
BY Invariant, PTL DEF IInv

\* A pending row has a job that will deliver it or a dead letter to replay, unless it
\* was released by a worker that had lost the job (release_claim against the lease).
THEOREM PendingQueued == Spec => []PendingIsQueued
<1>1. IInv => PendingIsQueued
  BY DEF IInv, LiveShape, Live, PendingIsQueued
<1> QED BY <1>1, Invariant, PTL

\* A row's recipient and kind had room in the window when it was inserted, so the last
\* row of a window without an inversion has counted all the others of it.
LEMMA WindowCounted ==
  ASSUME IInv, NEW m \in Rows,
         \A i, j \in SameWindow(m) : i < j => ~(row[i].at > row[j].at)
  PROVE  Cardinality(SameWindow(m)) <= Limit
<1> DEFINE I == SameWindow(m)
<1>1. TypeOK /\ RateShape
  BY DEF IInv
<1>2. \A i \in Rows : i \in MessageIds /\ i \in Nat /\ row[i].at \in Nat
  BY <1>1, Ids, FieldTypes, Bounds DEF Rows, TypeOK
<1>3. I \subseteq MessageIds /\ I \subseteq Rows /\ m \in I
  BY <1>2, Bounds DEF SameWindow
<1>4. PICK x \in I : \A y \in I : y <= x
  <2>1. I \in SUBSET (1 .. Cardinality(MessageIds)) /\ I # {} /\ Cardinality(MessageIds) \in Nat
    BY <1>3, Ids
  <2> HIDE DEF I
  <2> QED BY <2>1, GreatestId
<1>5. I \ {x} \subseteq Before(x)
  <2> SUFFICES ASSUME NEW i \in I, i # x PROVE i \in Before(x)
    OBVIOUS
  <2>1. i \in Rows /\ x \in Rows /\ i < x
    BY <1>2, <1>3, <1>4
  <2>2. /\ row[i].to = row[x].to /\ row[i].kind = row[x].kind
        /\ row[m].at - row[i].at \in 0 .. Window - 1
        /\ row[m].at - row[x].at \in 0 .. Window - 1
    BY DEF SameWindow
  <2>3. row[i].at <= row[x].at
    BY <2>1, <1>2
  <2>4. row[x].at - Window < row[i].at
    <3>1. row[i].at \in Nat /\ row[x].at \in Nat /\ row[m].at \in Nat /\ Window \in Nat
      BY <2>1, <1>2, Bounds
    <3>2. row[m].at - row[i].at <= Window - 1 /\ 0 <= row[m].at - row[x].at
      BY <2>2, <3>1
    <3> QED BY <3>1, <3>2
  <2> QED BY <2>1, <2>2, <2>3, <2>4 DEF Before, InWindow
<1>6. IsFiniteSet(I) /\ IsFiniteSet(Before(x))
  <2>1. Before(x) \subseteq MessageIds
    BY DEF Before, Rows
  <2> QED BY <2>1, <1>3, Ids, FS_Subset
<1>7. Cardinality(I) = Cardinality(I \ {x}) + 1 /\ IsFiniteSet(I \ {x})
  <2> HIDE DEF I
  <2>1. Cardinality(I \ {x}) = Cardinality(I) - 1 /\ IsFiniteSet(I \ {x}) /\ Cardinality(I) \in Nat
    BY <1>6, FS_RemoveElement, FS_CardinalityType
  <2> QED BY <2>1
<1>8. /\ Cardinality(I \ {x}) <= Cardinality(Before(x))
      /\ Cardinality(I \ {x}) \in Nat /\ Cardinality(Before(x)) \in Nat
  <2> HIDE DEF I
  <2> QED BY <1>5, <1>6, <1>7, FS_Subset, FS_CardinalityType
<1>9. Cardinality(Before(x)) < Limit
  BY <1>1, <1>3 DEF RateShape
<1> QED BY <1>7, <1>8, <1>9, Bounds

\* A window holds at most Limit messages of a recipient and a kind, unless two of them
\* were committed against the order of their producers' readings (MessageRepo::enqueue).
THEOREM RateBudget == Spec => []RateHolds
<1>1. IInv => RateHolds
  BY WindowCounted DEF RateHolds
<1> QED BY <1>1, Invariant, PTL


-----------------------------------------------------------------------------
(* The ledger and the queue below it.                                      *)

LEMMA AddressedStep == IInv /\ Addressed /\ [Next]_vars => Addressed'
<1> SUFFICES ASSUME IInv, Addressed, [Next]_vars PROVE Addressed'
  OBVIOUS
<1>1. TypeOK /\ LedgerShape
  BY DEF IInv
<1>2. ASSUME UNCHANGED row PROVE Addressed'
  BY <1>2 DEF Addressed, Rows
<1>3. ASSUME NEW r \in Recipients, NEW k \in Kinds, NEW at \in (now - MaxStall) .. now,
             Enqueue(r, k, at)
      PROVE  Addressed'
  <2>1. PICK m \in MessageIds :
          row'[m].to = r /\ \A i \in MessageIds \ {m} : row'[i] = row[i]
    BY <1>1, <1>3, EnqueueEffect
  <2> QED BY <2>1 DEF Addressed, Rows
<1>4. ASSUME NEW m \in Rows, NEW st \in {"pending", "sending", "sent", "failed"}, Stamped(m, st)
      PROVE  Addressed'
  BY <1>1, <1>4, StampedRows DEF Addressed
<1>5. ASSUME NEW w \in Workers, ClaimRow(w) PROVE Addressed'
  <2>1. task[w].pc # "idle"
    BY <1>5 DEF ClaimRow
  <2>2. Mine(w) \in Rows
    BY <1>1, <2>1, MineIsRow
  <2> QED BY <1>1, <1>2, <1>4, <1>5, <2>2, ClaimEffect
<1>6. ASSUME NEW w \in Workers, Resolve(w) PROVE Addressed'
  <2>1. task[w].pc # "idle"
    BY <1>6 DEF Resolve
  <2>2. Mine(w) \in Rows
    BY <1>1, <2>1, MineIsRow
  <2>3. \/ row' = row
        \/ \E st \in {"sent", "failed"} : Stamped(Mine(w), st)
    BY <1>1, <1>6, ResolveEffect
  <2> QED BY <1>2, <1>4, <2>2, <2>3
<1>7. ASSUME NEW w \in Workers, Release(w) PROVE Addressed'
  <2>1. task[w].pc # "idle"
    BY <1>7 DEF Release
  <2>2. Mine(w) \in Rows
    BY <1>1, <2>1, MineIsRow
  <2>3. row' = row \/ Stamped(Mine(w), "pending")
    BY <1>1, <1>7, ReleaseEffect
  <2> QED BY <1>2, <1>4, <2>2, <2>3
<1>8. ASSUME NEW o \in Operators, ResendCommit(o) PROVE Addressed'
  <2>1. asking[o] \in Rows
        /\ \/ row' = row
           \/ /\ row'[asking[o]].to = row[asking[o]].to
              /\ \A i \in MessageIds \ {asking[o]} : row'[i] = row[i]
    BY <1>1, <1>8, ResendEffect
  <2> QED BY <1>2, <2>1 DEF Addressed, Rows
<1>9. ASSUME NEW w \in Workers, \/ Compose(w) \/ Send(w) \/ Report(w) \/ Settle(w) \/ StoreError(w)
                                \/ Overrun(w) \/ Crash(w)
      PROVE  UNCHANGED row
  BY <1>9 DEF Compose, Send, Report, Settle, StoreError, Overrun, Crash
<1>10. ASSUME NEW j \in Q!Messages, \/ Replay(j) \/ Reap(j) \/ \E w \in Workers : Take(w, j)
       PROVE  UNCHANGED row
  BY <1>10 DEF Replay, Reap, Take
<1>11. ASSUME \/ Tick \/ UNCHANGED vars \/ \E r \in Recipients : Suppress(r)
              \/ \E o \in Operators, m \in MessageIds : ResendRead(o, m)
       PROVE  UNCHANGED row
  BY <1>11 DEF Tick, vars, Suppress, ResendRead
<1> QED BY <1>2, <1>3, <1>5, <1>6, <1>7, <1>8, <1>9, <1>10, <1>11 DEF Next, Handle

\* A job is one message published to its recipient's group.
LEMMA JobPublished ==
  ASSUME IInv, NEW m, NEW a, NEW r \in Recipients, QueueJob(m, a, r)
  PROVE  Q!Next
<1> DEFINE born == {i \in Q!Messages : status[i] # "unborn"}
           j    == 1 + Cardinality(born)
           P    == [x \in {j} |-> r]
<1>1. Cardinality(born) \in Nat
  <2>1. IsFiniteSet(Q!Messages)
    BY Bounds, FS_Interval
  <2>2. IsFiniteSet(born)
    BY <2>1, FS_Subset
  <2> QED BY <2>2, FS_CardinalityType
<1>2. j <= Last /\ Q!PublishAll(P)
  BY DEF QueueJob, Q!Publish
<1> HIDE DEF born
<1>3. j \in Q!Messages
  BY <1>1, <1>2, Bounds
<1> HIDE DEF j
<1>4. P \in [{j} -> Recipients] /\ {j} \in SUBSET Q!Messages
  BY <1>3
<1> HIDE DEF P
<1> QED BY <1>2, <1>4 DEF Q!Next

\* A step that leaves the queue alone is the loss of nothing.
LEMMA QueueAsked ==
  ASSUME IInv, Addressed, [Next]_vars
  PROVE  Q!Next
<1>1. ASSUME UNCHANGED queue PROVE Q!Next
  <2>1. hand = [w \in Workers |-> hand[w]] /\ answer = [w \in Workers |-> answer[w]]
    BY DEF IInv, TypeOK
  <2>2. Q!Lose({}) /\ {} \in SUBSET Workers
    BY <1>1, <2>1 DEF queue, Q!Lose, Q!LetGo
  <2> QED BY <2>2 DEF Q!Next
<1>2. ASSUME \/ Tick \/ UNCHANGED vars \/ \E r \in Recipients : Suppress(r)
             \/ \E o \in Operators, m \in MessageIds : ResendRead(o, m)
      PROVE  UNCHANGED queue
  BY <1>2 DEF Tick, vars, Suppress, ResendRead
<1>3. ASSUME NEW r \in Recipients, NEW k \in Kinds, NEW at \in (now - MaxStall) .. now,
             Enqueue(r, k, at)
      PROVE  Q!Next
  <2>1. \E m : QueueJob(m, 0, r)
    BY <1>3 DEF Enqueue
  <2> QED BY <2>1, JobPublished
<1>4. ASSUME NEW o \in Operators, ResendCommit(o) PROVE Q!Next \/ UNCHANGED queue
  <2>1. TypeOK /\ LedgerShape
    BY DEF IInv
  <2>2. row[asking[o]].to \in Recipients
    BY <1>4, <2>1, ResendEffect DEF Addressed
  <2>3. CASE row[asking[o]].state \in {"failed", "sending"}
    <3>1. QueueJob(asking[o], row[asking[o]].gen + 1, row[asking[o]].to)
      BY <1>4, <2>3 DEF ResendCommit
    <3> QED BY <3>1, <2>2, JobPublished
  <2>4. CASE row[asking[o]].state \notin {"failed", "sending"}
    BY <1>4, <2>4 DEF ResendCommit
  <2> QED BY <2>3, <2>4
<1>5. ASSUME NEW w \in Workers,
             \/ ClaimRow(w) \/ Compose(w) \/ Send(w) \/ Resolve(w) \/ Release(w) \/ StoreError(w)
      PROVE  UNCHANGED queue
  BY <1>5 DEF ClaimRow, Compose, Send, Resolve, Release, StoreError
<1>6. ASSUME NEW w \in Workers, NEW j \in Q!Messages, Take(w, j) PROVE Q!Next
  BY <1>6 DEF Take, Q!Next
<1>7. ASSUME NEW w \in Workers, Settle(w) PROVE Q!Next
  BY <1>7 DEF Settle, Q!Next
<1>8. ASSUME NEW w \in Workers, Report(w) PROVE Q!Next \/ UNCHANGED queue
  <2>1. CASE Q!Answer(w, task[w].pc)
    <3>1. task[w].pc \in {"ok", "retry", "permanent"}
      BY <1>8 DEF Report
    <3> QED BY <2>1, <3>1 DEF Q!Next
  <2> QED BY <1>8, <2>1 DEF Report
<1>9. ASSUME NEW w \in Workers, Overrun(w) \/ Crash(w) PROVE Q!Next
  <2>1. Q!Lose({w}) /\ {w} \in SUBSET Workers
    BY <1>9 DEF Overrun, Crash
  <2> QED BY <2>1 DEF Q!Next
<1>10. ASSUME NEW j \in Q!Messages, Replay(j) \/ Reap(j) PROVE Q!Next
  <2>1. (Q!Replay({j}) \/ Q!Remove({j})) /\ {j} \in SUBSET Q!Messages
    BY <1>10 DEF Replay, Reap
  <2> QED BY <2>1 DEF Q!Next
<1> QED BY <1>1, <1>2, <1>3, <1>4, <1>5, <1>6, <1>7, <1>8, <1>9, <1>10 DEF Next, Handle

\* The ledger asks of its queue only what DeliveryQueue gives, and publishes every job,
\* a resend's too, in a recipient's group: every step of a producer, a handler, the
\* operator or retention is a step of that queue.  Outbox implements the same queue
\* (OutboxProofs, ImplementsQueue).
THEOREM FollowsQueue == Spec => Q!Spec
<1>1. Init => Q!Init /\ Addressed
  BY DEF Init, Addressed, Rows, NoRow
<1>2. IInv /\ Addressed /\ [Next]_vars => Addressed'
  BY AddressedStep
<1>3. IInv /\ Addressed /\ [Next]_vars => Q!Next
  BY QueueAsked
<1>4. Spec => Q!Init /\ [][Q!Next]_Q!vars
  BY <1>1, <1>2, <1>3, Invariant, PTL DEF Spec
<1> QED BY <1>4 DEF Q!Spec

=============================================================================
