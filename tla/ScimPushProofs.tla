--------------------------- MODULE ScimPushProofs ---------------------------
(* Proofs about ScimPush, for every value of its constants.                *)
EXTENDS ScimPush, FiniteSetTheorems, WellFoundedInduction, TLAPS

USE DEF NULL

-----------------------------------------------------------------------------
(* Pages: ORDER BY .. LIMIT, and the item a pass is at.                    *)

LEMMA SubjectsAreNat == Subjects \subseteq Nat \ {0} /\ Users \subseteq Subjects /\ Groups \subseteq Subjects
BY SubjectsAssumption DEF Subjects

LEMMA PositionIsNat ==
  ASSUME NEW a \in Subjects \cup {0}
  PROVE  a \in Nat
<1>1. CASE a \in Subjects
  BY <1>1, SubjectsAreNat
<1>2. CASE a = 0
  BY <1>2
<1> QED BY <1>1, <1>2

\* A pass that has items is at the least of them.
LEMMA LeastIs ==
  ASSUME NEW S \in SUBSET Nat, S # {}
  PROVE  Least(S) \in S /\ \A j \in S : Least(S) <= j
<1>1. PICK x \in S : \A y \in S : ~(<<y, x>> \in OpToRel(<, Nat))
  BY NatLessThanWellFounded, WFMin
<1>2. \A y \in S : ~(y < x)
  BY <1>1 DEF OpToRel
<1>3. \A y \in S : x <= y
  BY <1>2
<1> QED BY <1>1, <1>3 DEF Least

\* A page starts with the first row there is and has no gap.
LEMMA LowestIs ==
  ASSUME NEW S \in SUBSET Nat, NEW n \in Nat \ {0}
  PROVE  /\ Lowest(S, n) \subseteq S
         /\ S # {} => Least(S) \in Lowest(S, n)
         /\ \A i \in S, j \in Lowest(S, n) : i <= j => i \in Lowest(S, n)
<1> DEFINE Below(s) == {b \in S : b < s}
<1>1. Lowest(S, n) \subseteq S
  BY DEF Lowest
<1>2. ASSUME S # {} PROVE Least(S) \in Lowest(S, n)
  <2>1. Least(S) \in S /\ \A j \in S : Least(S) <= j
    BY <1>2, LeastIs
  <2>2. ASSUME NEW j \in S, j < Least(S) PROVE FALSE
    <3>1. j \in Nat /\ Least(S) \in Nat /\ Least(S) <= j
      BY <2>1
    <3> QED BY <2>2, <3>1
  <2>3. Below(Least(S)) = {}
    BY <2>2
  <2>4. Cardinality(Below(Least(S))) < n
    BY <2>3, FS_EmptySet
  <2> QED BY <2>1, <2>4 DEF Lowest
<1>3. ASSUME NEW i \in S, NEW j \in Lowest(S, n), i <= j PROVE i \in Lowest(S, n)
  <2>1. j \in S /\ Cardinality(Below(j)) < n /\ i \in Nat /\ j \in Nat
    BY <1>1 DEF Lowest
  <2>2. \A b \in Below(j) : b \in Nat /\ b <= j
    <3>1. \A b \in S : b < j => b <= j
      BY <2>1
    <3> QED BY <3>1
  <2>3. IsFiniteSet(Below(j))
    <3>1. Below(j) \in SUBSET Nat
      OBVIOUS
    <3> QED BY <2>1, <2>2, <3>1, FS_BoundedSetOfNaturals
  <2>4. \A b \in S : b < i => b < j
    BY <1>3, <2>1
  <2>5. Below(i) \in SUBSET Below(j)
    BY <2>4
  <2> HIDE DEF Below
  <2>6. /\ Cardinality(Below(i)) <= Cardinality(Below(j)) /\ Cardinality(Below(i)) \in Nat
        /\ Cardinality(Below(j)) \in Nat
    BY <2>3, <2>5, FS_Subset, FS_CardinalityType
  <2>7. Cardinality(Below(i)) < n
    BY <2>1, <2>6
  <2> QED BY <2>7 DEF Lowest, Below
<1> QED BY <1>1, <1>2, <1>3

-----------------------------------------------------------------------------
(* What the actions do to the worker's record.                             *)

PCs == {"idle", "starting", "due", "get", "page", "handover", "decide", "push", "link",
        "checkpoint", "progress", "refusal", "fail"}

\* The record of w is replaced and stays typed; of it, this is kept.
Only(w)  == wk' \in [Workers -> WorkerState] /\ \A v \in Workers : v # w => wk'[v] = wk[v]
SamePass(w) == wk'[w].kind = wk[w].kind /\ wk'[w].coll = wk[w].coll /\ wk'[w].base = wk[w].base
SameItem(w) == wk'[w].todo = wk[w].todo /\ wk'[w].act = wk[w].act /\ wk'[w].version = wk[w].version

LEMMA Replace ==
  ASSUME wk \in [Workers -> WorkerState], NEW w \in Workers, NEW r \in WorkerState,
         wk' = [wk EXCEPT ![w] = r]
  PROVE  Only(w) /\ wk'[w] = r
BY DEF Only

LEMMA ReturnIs ==
  ASSUME wk \in [Workers -> WorkerState], NEW w \in Workers, Return(w)
  PROVE  Only(w) /\ wk'[w].pc = "idle" /\ wk'[w].kind = "tail"
<1>1. Idle \in WorkerState /\ Idle.pc = "idle" /\ Idle.kind = "tail"
  BY DEF Idle, WorkerState
<1>2. Only(w) /\ wk'[w] = Idle
  BY <1>1, Replace DEF Return
<1> QED BY <1>1, <1>2

LEMMA GotoIs ==
  ASSUME wk \in [Workers -> WorkerState], NEW w \in Workers, NEW p \in PCs, Goto(w, p)
  PROVE  Only(w) /\ wk'[w].pc = p /\ SamePass(w) /\ SameItem(w)
<1>1. PICK r \in WorkerState : r = wk[w]
  OBVIOUS
<1>2. PICK k : k = [r EXCEPT !.pc = p]
  OBVIOUS
<1>3. /\ k \in WorkerState /\ k.pc = p /\ k.kind = r.kind /\ k.coll = r.coll /\ k.base = r.base
      /\ k.todo = r.todo /\ k.act = r.act /\ k.version = r.version
  BY <1>2 DEF WorkerState, PCs
<1>4. wk' = [wk EXCEPT ![w] = k]
  BY <1>1, <1>2 DEF Goto
<1> QED BY <1>1, <1>3, <1>4, Replace DEF SamePass, SameItem

LEMMA StartIs ==
  ASSUME wk \in [Workers -> WorkerState], NEW w \in Workers, NEW b \in Nat,
         wk' = [wk EXCEPT ![w].pc = "starting", ![w].base = b]
  PROVE  Only(w) /\ wk'[w].pc = "starting" /\ wk'[w].base = b
<1>1. PICK r \in WorkerState : r = wk[w]
  OBVIOUS
<1>2. PICK k : k = [r EXCEPT !.pc = "starting", !.base = b]
  OBVIOUS
<1>3. k \in WorkerState /\ k.pc = "starting" /\ k.base = b
  BY <1>2 DEF WorkerState
<1>4. wk' = [wk EXCEPT ![w] = k]
  BY <1>1, <1>2
<1> QED BY <1>3, <1>4, Replace

LEMMA FailIs ==
  ASSUME wk \in [Workers -> WorkerState], NEW w \in Workers, NEW p \in BOOLEAN, Fail(w, p)
  PROVE  Only(w) /\ wk'[w].pc = "fail" /\ wk'[w].kind = "tail"
<1>1. PICK k : k = [Idle EXCEPT !.pc = "fail", !.pause = p]
  OBVIOUS
<1>2. k \in WorkerState /\ k.pc = "fail" /\ k.kind = "tail"
  BY <1>1 DEF WorkerState, Idle
<1>3. wk' = [wk EXCEPT ![w] = k]
  BY <1>1 DEF Fail
<1> QED BY <1>2, <1>3, Replace

LEMMA DueIs ==
  ASSUME wk \in [Workers -> WorkerState], NEW w \in Workers, NEW kd \in {"tail", "backfill"},
         wk' = [wk EXCEPT ![w].pc = "get", ![w].kind = kd]
  PROVE  Only(w) /\ wk'[w].pc = "get" /\ wk'[w].kind = kd
<1>1. PICK r \in WorkerState : r = wk[w]
  OBVIOUS
<1>2. PICK k : k = [r EXCEPT !.pc = "get", !.kind = kd]
  OBVIOUS
<1>3. k \in WorkerState /\ k.pc = "get" /\ k.kind = kd
  BY <1>2 DEF WorkerState
<1>4. wk' = [wk EXCEPT ![w] = k]
  BY <1>1, <1>2
<1> QED BY <1>3, <1>4, Replace

LEMMA GetTailIs ==
  ASSUME wk \in [Workers -> WorkerState], NEW w \in Workers, NEW b \in Nat \cup {NULL}, NEW f \in Nat,
         wk' = [wk EXCEPT ![w].pc = "page", ![w].base = b, ![w].failures = f]
  PROVE  Only(w) /\ wk'[w].pc = "page" /\ wk'[w].kind = wk[w].kind /\ wk'[w].base = b
<1>1. PICK r \in WorkerState : r = wk[w]
  OBVIOUS
<1>2. PICK k : k = [r EXCEPT !.pc = "page", !.base = b, !.failures = f]
  OBVIOUS
<1>3. k \in WorkerState /\ k.pc = "page" /\ k.kind = r.kind /\ k.base = b
  BY <1>2 DEF WorkerState
<1>4. wk' = [wk EXCEPT ![w] = k]
  BY <1>1, <1>2
<1> QED BY <1>1, <1>3, <1>4, Replace

LEMMA GetBackfillIs ==
  ASSUME wk \in [Workers -> WorkerState], NEW w \in Workers, NEW b \in Nat \cup {NULL}, NEW f \in Nat,
         NEW c \in {"users", "groups"},
         wk' = [wk EXCEPT ![w].pc = "page", ![w].base = b, ![w].coll = c, ![w].failures = f]
  PROVE  /\ Only(w) /\ wk'[w].pc = "page" /\ wk'[w].kind = wk[w].kind /\ wk'[w].base = b
         /\ wk'[w].coll = c
<1>1. PICK r \in WorkerState : r = wk[w]
  OBVIOUS
<1>2. PICK k : k = [r EXCEPT !.pc = "page", !.base = b, !.coll = c, !.failures = f]
  OBVIOUS
<1>3. k \in WorkerState /\ k.pc = "page" /\ k.kind = r.kind /\ k.base = b /\ k.coll = c
  BY <1>2 DEF WorkerState
<1>4. wk' = [wk EXCEPT ![w] = k]
  BY <1>1, <1>2
<1> QED BY <1>1, <1>3, <1>4, Replace

LEMMA PageIs ==
  ASSUME wk \in [Workers -> WorkerState], NEW w \in Workers, NEW S \in SUBSET Nat,
         wk' = [wk EXCEPT ![w].pc = "decide", ![w].todo = S]
  PROVE  Only(w) /\ wk'[w].pc = "decide" /\ SamePass(w) /\ wk'[w].todo = S
<1>1. PICK r \in WorkerState : r = wk[w]
  OBVIOUS
<1>2. PICK k : k = [r EXCEPT !.pc = "decide", !.todo = S]
  OBVIOUS
<1>3. /\ k \in WorkerState /\ k.pc = "decide" /\ k.kind = r.kind /\ k.coll = r.coll /\ k.base = r.base
      /\ k.todo = S
  BY <1>2 DEF WorkerState
<1>4. wk' = [wk EXCEPT ![w] = k]
  BY <1>1, <1>2
<1> QED BY <1>1, <1>3, <1>4, Replace DEF SamePass

LEMMA PushingIs ==
  ASSUME wk \in [Workers -> WorkerState], NEW w \in Workers, NEW a \in {"converge", "withdraw"}, NEW n \in Nat,
         NEW U \in SUBSET Users,
         wk' = [wk EXCEPT ![w] = [wk[w] EXCEPT !.pc = "push", !.act = a, !.version = n, !.named = U]]
  PROVE  /\ Only(w) /\ wk'[w].pc = "push" /\ SamePass(w) /\ wk'[w].todo = wk[w].todo
         /\ wk'[w].act = a /\ wk'[w].version = n /\ wk'[w].named = U
<1>1. PICK r \in WorkerState : r = wk[w]
  OBVIOUS
<1>2. PICK k : k = [r EXCEPT !.pc = "push", !.act = a, !.version = n, !.named = U]
  OBVIOUS
<1>3. /\ k \in WorkerState /\ k.pc = "push" /\ k.kind = r.kind /\ k.coll = r.coll /\ k.base = r.base
      /\ k.todo = r.todo /\ k.act = a /\ k.version = n /\ k.named = U
  BY <1>2 DEF WorkerState
<1>4. wk' = [wk EXCEPT ![w] = k]
  BY <1>1, <1>2
<1> QED BY <1>1, <1>3, <1>4, Replace DEF SamePass

LEMMA TailDoneIs ==
  ASSUME wk \in [Workers -> WorkerState], NEW w \in Workers, NEW S \in SUBSET Nat,
         NEW p \in {"checkpoint", "decide"}, NEW n \in Nat,
         wk' = [wk EXCEPT ![w] = [wk[w] EXCEPT !.todo = S, !.pc = p, !.act = "skip", !.version = n, !.named = {}]]
  PROVE  /\ Only(w) /\ wk'[w].pc = p /\ SamePass(w) /\ wk'[w].todo = S /\ wk'[w].version = n
<1>1. PICK r \in WorkerState : r = wk[w]
  OBVIOUS
<1>2. PICK k : k = [r EXCEPT !.todo = S, !.pc = p, !.act = "skip", !.version = n, !.named = {}]
  OBVIOUS
<1>3. /\ k \in WorkerState /\ k.pc = p /\ k.kind = r.kind /\ k.coll = r.coll /\ k.base = r.base
      /\ k.todo = S /\ k.version = n
  BY <1>2 DEF WorkerState
<1>4. wk' = [wk EXCEPT ![w] = k]
  BY <1>1, <1>2
<1> QED BY <1>1, <1>3, <1>4, Replace DEF SamePass

LEMMA BackfillDoneIs ==
  ASSUME wk \in [Workers -> WorkerState], NEW w \in Workers, NEW b \in BOOLEAN,
         wk' = [wk EXCEPT ![w].pc = "progress", ![w].refused = b, ![w].act = "skip", ![w].version = 0,
                        ![w].named = {}]
  PROVE  Only(w) /\ wk'[w].pc = "progress" /\ SamePass(w) /\ wk'[w].todo = wk[w].todo
<1>1. PICK r \in WorkerState : r = wk[w]
  OBVIOUS
<1>2. PICK k : k = [r EXCEPT !.pc = "progress", !.refused = b, !.act = "skip", !.version = 0, !.named = {}]
  OBVIOUS
<1>3. /\ k \in WorkerState /\ k.pc = "progress" /\ k.kind = r.kind /\ k.coll = r.coll /\ k.base = r.base
      /\ k.todo = r.todo
  BY <1>2 DEF WorkerState
<1>4. wk' = [wk EXCEPT ![w] = k]
  BY <1>1, <1>2
<1> QED BY <1>1, <1>3, <1>4, Replace DEF SamePass

LEMMA ItemIs ==
  ASSUME wk \in [Workers -> WorkerState], NEW w \in Workers, wk[w].todo # {}
  PROVE  /\ Item(w) \in wk[w].todo /\ Item(w) \in Nat /\ wk[w].todo \subseteq Nat
         /\ \A j \in wk[w].todo : Item(w) <= j
<1>1. wk[w].todo \in SUBSET Nat
  BY DEF WorkerState
<1> QED BY <1>1, LeastIs DEF Item

\* The two ways of finishing an item.
LEMMA FinishIs ==
  ASSUME wk \in [Workers -> WorkerState], NEW w \in Workers, wk[w].todo # {}, NEW b \in BOOLEAN,
         Finish(w, b)
  PROVE  /\ Only(w) /\ SamePass(w)
         /\ \/ /\ wk[w].kind = "tail" /\ wk'[w].todo = wk[w].todo \ {Item(w)} /\ wk'[w].version = Item(w)
               /\ settled' = settled \cup {Item(w)} /\ covered' = covered
               /\ \/ wk'[w].pc = "checkpoint" /\ wk[w].todo = {Item(w)}
                  \/ wk'[w].pc = "decide" /\ wk[w].todo # {Item(w)}
            \/ /\ wk[w].kind = "backfill" /\ wk'[w].pc = "progress" /\ wk'[w].todo = wk[w].todo
               /\ covered' = covered \cup {Item(w)} /\ settled' = settled
<1>1. wk[w].kind \in {"tail", "backfill"} /\ wk[w].todo \ {Item(w)} \in SUBSET Nat
  BY DEF WorkerState
<1>2. Item(w) \in Nat
  BY ItemIs
<1>3. CASE wk[w].kind = "tail"
  <2>1. PICK S \in SUBSET Nat : S = wk[w].todo \ {Item(w)}
    BY <1>1
  <2>2. PICK p \in {"checkpoint", "decide"} : p = IF wk[w].todo = {Item(w)} THEN "checkpoint" ELSE "decide"
    OBVIOUS
  <2>3. PICK n \in Nat : n = Item(w)
    BY <1>2
  <2>4. wk' = [wk EXCEPT ![w] = [wk[w] EXCEPT !.todo = S, !.pc = p, !.act = "skip", !.version = n, !.named = {}]]
    BY <1>3, <2>1, <2>2, <2>3 DEF Finish
  <2>5. settled' = settled \cup {Item(w)} /\ covered' = covered
    BY <1>3 DEF Finish
  <2>6. Only(w) /\ wk'[w].pc = p /\ SamePass(w) /\ wk'[w].todo = S /\ wk'[w].version = n
    BY <2>4, TailDoneIs
  <2> QED BY <1>3, <2>1, <2>2, <2>3, <2>5, <2>6
<1>4. CASE wk[w].kind = "backfill"
  <2>1. /\ wk' = [wk EXCEPT ![w].pc = "progress", ![w].refused = b, ![w].act = "skip", ![w].version = 0,
                        ![w].named = {}]
        /\ covered' = covered \cup {Item(w)} /\ settled' = settled
    BY <1>4 DEF Finish
  <2>2. Only(w) /\ wk'[w].pc = "progress" /\ SamePass(w) /\ wk'[w].todo = wk[w].todo
    BY <2>1, BackfillDoneIs
  <2> QED BY <1>4, <2>1, <2>2
<1> QED BY <1>1, <1>3, <1>4

LEMMA NextIs ==
  ASSUME wk \in [Workers -> WorkerState], NEW w \in Workers, NEW f \in Nat, NextSubject(w, f)
  PROVE  /\ Only(w)
         /\ \/ wk[w].todo = {Item(w)} /\ wk'[w].pc = "idle" /\ wk'[w].kind = "tail"
            \/ /\ wk[w].todo # {Item(w)} /\ wk'[w].pc = "decide" /\ SamePass(w)
               /\ wk'[w].todo = wk[w].todo \ {Item(w)}
<1>1. CASE wk[w].todo = {Item(w)}
  BY <1>1, ReturnIs DEF NextSubject
<1>2. CASE wk[w].todo # {Item(w)}
  <2>1. PICK r \in WorkerState : r = wk[w]
    OBVIOUS
  <2>2. PICK x : x = Item(w)
    OBVIOUS
  <2>3. PICK k : k = [r EXCEPT !.todo = r.todo \ {x}, !.pc = "decide", !.failures = f, !.refused = FALSE]
    OBVIOUS
  <2>4. /\ k \in WorkerState /\ k.pc = "decide" /\ k.kind = r.kind /\ k.coll = r.coll /\ k.base = r.base
        /\ k.todo = r.todo \ {x}
    BY <2>3 DEF WorkerState
  <2>5. wk' = [wk EXCEPT ![w] = k]
    BY <1>2, <2>1, <2>2, <2>3 DEF NextSubject
  <2> QED BY <1>2, <2>1, <2>2, <2>4, <2>5, Replace DEF SamePass
<1> QED BY <1>1, <1>2

-----------------------------------------------------------------------------
(* Any number of schedulers: the inductive invariant IInv.                 *)

\* The row's columns, all but its failures and its pause.
RowKept == /\ conn' \in ConnRow
           /\ conn'.backfill = conn.backfill /\ conn'.from = conn.from
           /\ conn'.after = conn.after /\ conn'.cursor = conn.cursor

LEMMA FeedLen == ASSUME TypeOK PROVE Len(feed) \in Nat
BY DEF TypeOK

\* A pass is not disturbed by the steps of the others.
LEMMA OtherKept ==
  ASSUME IInv, NEW v \in Workers, wk'[v] = wk[v], Len(feed') \in Nat, Len(feed) <= Len(feed'),
         settled \subseteq settled', missed \subseteq missed',
         conn.backfill # "pending" => conn'.backfill # "pending" /\ conn'.from = conn.from,
         conn.backfill = "done" => conn'.backfill = "done"
  PROVE  PassShape(v)' /\ TailShape(v)'
<1>0. /\ PassShape(v)
      /\ wk[v].kind = "tail" /\ wk[v].pc \in Handling \cup {"get", "page", "checkpoint"} =>
           conn'.from = conn.from
  BY DEF IInv, PassShape, Handling
<1>1. PICK r \in WorkerState : r = wk[v]
  BY DEF IInv, TypeOK
<1>2. PICK n \in Nat : n = Len(feed)
  BY FeedLen DEF IInv
<1>3. PICK m \in Nat : m = Len(feed')
  OBVIOUS
<1>4. n <= m
  BY <1>2, <1>3
<1>5. PassShape(v) /\ TailShape(v)
  BY DEF IInv
<1>6. r.todo \subseteq Nat /\ r.base \in Nat \cup {NULL} /\ r.version \in Nat
  BY DEF WorkerState
<1>7. PassShape(v)'
  BY <1>1, <1>2, <1>3, <1>4, <1>5 DEF PassShape
<1>8. TailShape(v)'
  <2>1. SUFFICES ASSUME r.kind = "tail", r.pc \in Handling \cup {"get", "page", "checkpoint"}
                 PROVE  /\ conn'.backfill = "done"
                        /\ r.pc # "get" => r.base \in 0 .. m
                        /\ r.pc \in Handling =>
                             /\ \A j \in r.todo : r.base < j
                             /\ \A i \in 1 .. m, j \in r.todo :
                                  r.base < i /\ i <= j /\ conn.from < i =>
                                    i \in r.todo \cup settled' \cup missed'
                        /\ r.pc = "checkpoint" =>
                             /\ r.version \in r.base .. m
                             /\ \A i \in 1 .. r.version :
                                  i <= r.base \/ i <= conn.from \/ i \in settled' \cup missed'
    BY <1>0, <1>1, <1>3 DEF TailShape
  <2>2. /\ conn.backfill = "done"
        /\ r.pc # "get" => r.base \in 0 .. n
        /\ r.pc \in Handling =>
             /\ \A j \in r.todo : r.base < j
             /\ \A i \in 1 .. n, j \in r.todo :
                  r.base < i /\ i <= j /\ conn.from < i => i \in r.todo \cup settled \cup missed
        /\ r.pc = "checkpoint" =>
             /\ r.version \in r.base .. n
             /\ \A i \in 1 .. r.version : i <= r.base \/ i <= conn.from \/ i \in settled \cup missed
    BY <1>1, <1>2, <1>5, <2>1 DEF TailShape
  <2>3. ASSUME r.pc \in Handling, NEW i \in 1 .. m, NEW j \in r.todo, r.base < i /\ i <= j /\ conn.from < i
        PROVE  i \in r.todo \cup settled' \cup missed'
    <3>1. r.todo \subseteq 1 .. n
      BY <1>1, <1>2, <1>5, <2>1, <2>3 DEF PassShape
    <3>2. i \in 1 .. n
      BY <2>3, <3>1, <1>4
    <3> QED BY <2>2, <2>3, <3>2
  <2>4. r.pc # "get" => r.base \in 0 .. m
    BY <2>2, <1>4
  <2>5. r.pc = "checkpoint" =>
          /\ r.version \in r.base .. m
          /\ \A i \in 1 .. r.version : i <= r.base \/ i <= conn.from \/ i \in settled' \cup missed'
    BY <2>2, <1>4
  <2>6. conn'.backfill = "done"
    BY <2>2
  <2> QED BY <2>2, <2>3, <2>4, <2>5, <2>6
<1> QED BY <1>7, <1>8

\* So a step of w is good when it is good for w and for the row.
LEMMA Frame ==
  ASSUME IInv, NEW w \in Workers, Only(w), feed' = feed, settled \subseteq settled', missed' = missed,
         conn.backfill # "pending" => conn'.backfill # "pending" /\ conn'.from = conn.from,
         conn.backfill = "done" => conn'.backfill = "done",
         TypeOK', ConnShape', PruneShape', NoEventLost', PassShape(w)', TailShape(w)'
  PROVE  IInv'
<1>1. Len(feed') \in Nat /\ Len(feed) <= Len(feed')
  BY FeedLen DEF IInv
<1>2. ASSUME NEW v \in Workers PROVE PassShape(v)' /\ TailShape(v)'
  <2>1. CASE v = w
    BY <2>1
  <2>2. CASE v # w
    BY <1>1, <2>2, OtherKept DEF Only
  <2> QED BY <2>1, <2>2
<1> QED BY <1>2 DEF IInv

LEMMA RowFrame ==
  ASSUME IInv, NEW w \in Workers, Only(w), feed' = feed, settled \subseteq settled', missed' = missed,
         pruned' = pruned, RowKept, TypeOK', PassShape(w)', TailShape(w)'
  PROVE  IInv'
<1>1. ConnShape'
  BY DEF IInv, ConnShape, RowKept
<1>2. NoEventLost'
  BY DEF IInv, NoEventLost, RowKept
<1>3. PruneShape'
  BY DEF IInv, PruneShape, RowKept
<1> QED BY <1>1, <1>2, <1>3, Frame DEF RowKept

\* A step that only moves w and the row leaves the rest typed.
LEMMA MoveTypes ==
  ASSUME TypeOK, NEW w \in Workers, Only(w), conn' \in ConnRow, UNCHANGED <<dir, feed, pruned, ds, refs, link, faults, history>>
  PROVE  TypeOK'
BY DEF TypeOK, Only, history

\* A pass that is over, or is failing, asks for nothing but a started row.
LEMMA AtRest ==
  ASSUME NEW w \in Workers, wk'[w].pc \in {"idle", "due", "fail"},
         wk'[w].pc = "idle" \/ conn'.backfill # "pending"
  PROVE  PassShape(w)' /\ TailShape(w)'
BY DEF PassShape, TailShape, Handling

LEMMA TypesOf ==
  ASSUME IInv
  PROVE  /\ TypeOK /\ wk \in [Workers -> WorkerState] /\ conn \in ConnRow /\ Len(feed) \in Nat
         /\ ConnShape /\ PruneShape /\ NoEventLost /\ \A w \in Workers : PassShape(w) /\ TailShape(w)
BY DEF IInv, TypeOK

LEMMA InvTick ==
  ASSUME IInv, NEW w \in Workers, Tick(w)
  PROVE  IInv'
<1>1. /\ wk \in [Workers -> WorkerState] /\ conn \in ConnRow /\ Len(feed) \in Nat /\ TypeOK
  BY TypesOf
<1>2. UNCHANGED <<dir, feed, pruned, ds, refs, link, conn, faults, history>>
  BY DEF Tick, source, downstream
<1>3. CASE wk' = [wk EXCEPT ![w].pc = "starting", ![w].base = Len(feed)]
  <2>1. Only(w) /\ wk'[w].pc = "starting" /\ wk'[w].base = Len(feed)
    BY <1>1, <1>3, StartIs
  <2>2. PassShape(w)' /\ TailShape(w)'
    BY <1>1, <1>2, <2>1 DEF PassShape, TailShape, Handling
  <2> QED BY <1>1, <1>2, <2>1, <2>2, RowFrame, MoveTypes DEF RowKept, history
<1>4. CASE conn.backfill # "pending" /\ Goto(w, "due")
  <2>1. Only(w) /\ wk'[w].pc = "due"
    BY <1>1, <1>4, GotoIs DEF PCs
  <2>2. PassShape(w)' /\ TailShape(w)'
    BY <1>2, <1>4, <2>1, AtRest
  <2> QED BY <1>1, <1>2, <2>1, <2>2, RowFrame, MoveTypes DEF RowKept, history
<1> QED BY <1>3, <1>4 DEF Tick

LEMMA InvBegin ==
  ASSUME IInv, NEW w \in Workers, BeginBackfill(w)
  PROVE  IInv'
<1>1. /\ wk \in [Workers -> WorkerState] /\ conn \in ConnRow /\ Len(feed) \in Nat /\ TypeOK
      /\ ConnShape /\ PruneShape /\ NoEventLost /\ PassShape(w)
  BY TypesOf
<1>2. UNCHANGED <<dir, feed, pruned, ds, refs, link, faults, history>> /\ wk[w].pc = "starting"
  BY DEF BeginBackfill, source, downstream
<1>3. Only(w) /\ wk'[w].pc = "due"
  BY <1>1, GotoIs DEF BeginBackfill, PCs
<1>4. wk[w].base \in 0 .. Len(feed)
  BY <1>1, <1>2 DEF PassShape
<1>5. CASE conn.backfill = "pending"
  <2>1. /\ conn' \in ConnRow /\ conn'.backfill = "users" /\ conn'.from = wk[w].base
    <3>1. PICK b \in Nat : b = wk[w].base
      BY <1>1, <1>4
    <3>2. PICK r \in ConnRow : r = conn
      BY <1>1
    <3>3. conn' = [r EXCEPT !.backfill = "users", !.from = b]
      BY <1>5, <3>1, <3>2 DEF BeginBackfill
    <3> QED BY <3>1, <3>3 DEF ConnRow
  <2>2. ConnShape' /\ NoEventLost' /\ PruneShape'
    <3>1. pruned' = pruned /\ missed' = missed
      BY <1>2 DEF history
    <3>2. PruneShape'
      BY <1>1, <1>2, <1>5, <3>1 DEF PruneShape
    <3> QED BY <1>1, <1>2, <1>4, <2>1, <3>2 DEF ConnShape, NoEventLost
  <2>3. PassShape(w)' /\ TailShape(w)'
    BY <1>3, <2>1, AtRest
  <2>4. TypeOK'
    BY <1>1, <1>2, <1>3, <2>1, MoveTypes
  <2>5. settled \subseteq settled' /\ feed' = feed /\ missed' = missed
    BY <1>2 DEF history
  <2> QED BY <1>3, <1>5, <2>1, <2>2, <2>3, <2>4, <2>5, Frame
<1>6. CASE conn.backfill # "pending"
  <2>1. conn' = conn
    BY <1>6 DEF BeginBackfill
  <2>2. PassShape(w)' /\ TailShape(w)'
    BY <1>3, <1>6, <2>1, AtRest
  <2> QED BY <1>1, <1>2, <1>3, <2>1, <2>2, RowFrame, MoveTypes DEF RowKept, history
<1> QED BY <1>5, <1>6

LEMMA InvDue ==
  ASSUME IInv, NEW w \in Workers, Due(w)
  PROVE  IInv'
<1>1. /\ wk \in [Workers -> WorkerState] /\ conn \in ConnRow /\ Len(feed) \in Nat /\ TypeOK /\ PassShape(w)
  BY TypesOf
<1>2. UNCHANGED <<dir, feed, pruned, ds, refs, link, conn, faults, history>> /\ wk[w].pc = "due"
  BY DEF Due, source, downstream
<1>3. conn.backfill # "pending"
  BY <1>1, <1>2 DEF PassShape
<1>4. CASE Return(w)
  <2>1. Only(w) /\ wk'[w].pc = "idle"
    BY <1>1, <1>4, ReturnIs
  <2>2. PassShape(w)' /\ TailShape(w)'
    BY <2>1, AtRest
  <2> QED BY <1>1, <1>2, <2>1, <2>2, RowFrame, MoveTypes DEF RowKept, history
<1>5. CASE wk' = [wk EXCEPT ![w].pc = "get",
                           ![w].kind = IF conn.backfill = "done" THEN "tail" ELSE "backfill"]
  <2>1. PICK kd \in {"tail", "backfill"} : kd = IF conn.backfill = "done" THEN "tail" ELSE "backfill"
    OBVIOUS
  <2>2. wk' = [wk EXCEPT ![w].pc = "get", ![w].kind = kd]
    BY <1>5, <2>1
  <2>3. Only(w) /\ wk'[w].pc = "get" /\ wk'[w].kind = kd
    BY <1>1, <2>2, DueIs
  <2>4. PassShape(w)' /\ TailShape(w)'
    BY <1>2, <1>3, <2>1, <2>3 DEF PassShape, TailShape, Handling
  <2> QED BY <1>1, <1>2, <2>3, <2>4, RowFrame, MoveTypes DEF RowKept, history
<1> QED BY <1>4, <1>5 DEF Due

LEMMA InvGet ==
  ASSUME IInv, NEW w \in Workers, Get(w)
  PROVE  IInv'
<1>1. /\ wk \in [Workers -> WorkerState] /\ conn \in ConnRow /\ Len(feed) \in Nat /\ TypeOK
      /\ PassShape(w) /\ TailShape(w) /\ ConnShape
  BY TypesOf
<1>2. UNCHANGED <<dir, feed, pruned, ds, refs, link, conn, faults, history>> /\ wk[w].pc = "get"
  BY DEF Get, source, downstream
<1>3. conn.backfill # "pending"
  BY <1>1, <1>2 DEF PassShape
<1>4. /\ conn.cursor \in Nat \cup {NULL} /\ conn.after \in Nat \cup {NULL} /\ conn.failures \in Nat
  <2>1. conn.cursor \in Nat \cup {NULL} /\ conn.after \in Subjects \cup {0} /\ conn.failures \in Nat
    BY <1>1 DEF ConnRow
  <2>3. conn.after \in Nat
    BY <2>1, PositionIsNat
  <2> QED BY <2>1, <2>3
<1>5. SUFFICES ASSUME TRUE PROVE Only(w) /\ PassShape(w)' /\ TailShape(w)'
  BY <1>1, <1>2, RowFrame, MoveTypes DEF RowKept, history
<1>6. CASE Return(w)
  BY <1>1, <1>6, ReturnIs, AtRest
<1>7. CASE Fail(w, FALSE)
  BY <1>1, <1>2, <1>3, <1>7, FailIs, AtRest
<1>8. CASE /\ wk[w].kind = "tail"
           /\ wk' = [wk EXCEPT ![w].pc = "page", ![w].base = conn.cursor, ![w].failures = conn.failures]
  <2>1. Only(w) /\ wk'[w].pc = "page" /\ wk'[w].kind = wk[w].kind /\ wk'[w].base = conn.cursor
    BY <1>1, <1>4, <1>8, GetTailIs
  <2>2. conn.backfill = "done"
    BY <1>1, <1>2, <1>8 DEF TailShape
  <2>3. conn.cursor \in 0 .. Len(feed)
    BY <1>1, <2>2 DEF ConnShape
  <2> QED BY <1>2, <1>3, <2>1, <2>2, <2>3 DEF PassShape, TailShape, Handling
<1>9. CASE /\ wk[w].kind = "backfill" /\ conn.backfill \in {"users", "groups"}
           /\ wk' = [wk EXCEPT ![w].pc = "page", ![w].base = conn.after, ![w].coll = conn.backfill,
                               ![w].failures = conn.failures]
  <2>1. Only(w) /\ wk'[w].pc = "page" /\ wk'[w].kind = wk[w].kind
    BY <1>1, <1>4, <1>9, GetBackfillIs
  <2> QED BY <1>2, <1>3, <1>9, <2>1 DEF PassShape, TailShape, Handling
<1> QED BY <1>6, <1>7, <1>8, <1>9 DEF Get

LEMMA InvReadPage ==
  ASSUME IInv, NEW w \in Workers, ReadPage(w)
  PROVE  IInv'
<1>1. /\ wk \in [Workers -> WorkerState] /\ conn \in ConnRow /\ Len(feed) \in Nat /\ TypeOK
      /\ PassShape(w) /\ TailShape(w) /\ ConnShape /\ PruneShape /\ NoEventLost
  BY TypesOf
<1>2. UNCHANGED <<dir, feed, pruned, ds, refs, link, conn, faults, history>> /\ wk[w].pc = "page"
  BY DEF ReadPage, source, downstream
<1>3. conn.backfill # "pending"
  BY <1>1, <1>2 DEF PassShape
<1>4. SUFFICES ASSUME TRUE PROVE Only(w) /\ PassShape(w)' /\ TailShape(w)'
  BY <1>1, <1>2, RowFrame, MoveTypes DEF RowKept, history
<1>5. CASE Return(w)
  BY <1>1, <1>5, ReturnIs, AtRest
<1>6. CASE wk[w].kind = "backfill" /\ Goto(w, "handover")
  <2>1. Only(w) /\ wk'[w].pc = "handover" /\ wk'[w].kind = "backfill"
    BY <1>1, <1>6, GotoIs DEF PCs, SamePass
  <2> QED BY <1>2, <1>3, <2>1 DEF PassShape, TailShape, Handling
<1>7. CASE Page(w) # {} /\ wk' = [wk EXCEPT ![w].pc = "decide", ![w].todo = Page(w)]
  <2>1. CASE wk[w].kind = "tail"
    <3>1. PICK n \in Nat : n = Len(feed)
      BY <1>1
    <3>2. PICK b : b = wk[w].base
      OBVIOUS
    <3>3. conn.backfill = "done" /\ b \in 0 .. n
      BY <1>1, <1>2, <2>1, <3>1, <3>2 DEF TailShape
    <3>4. PICK S \in SUBSET Nat : S = {i \in 1 .. n : i > b /\ i \notin pruned}
      <4>1. {i \in 1 .. n : i > b /\ i \notin pruned} \subseteq 1 .. n
        OBVIOUS
      <4>2. 1 .. n \subseteq Nat
        BY <3>1
      <4> QED BY <4>1, <4>2
    <3>5. PICK T : T = Page(w)
      OBVIOUS
    <3>6. T = Lowest(S, Limit)
      BY <2>1, <3>1, <3>2, <3>4, <3>5 DEF Page
    <3>7. T \subseteq S /\ \A i \in S, j \in T : i <= j => i \in T
      BY <3>4, <3>6, LowestIs, LimitAssumption
    <3>8. T \in SUBSET Nat /\ T \subseteq 1 .. n /\ \A j \in T : b < j
      BY <3>4, <3>7
    <3>9. Only(w) /\ wk'[w].pc = "decide" /\ SamePass(w) /\ wk'[w].todo = T
      BY <1>1, <1>7, <3>5, <3>8, PageIs
    <3>10. ASSUME NEW i \in 1 .. n, NEW j \in T, b < i /\ i <= j /\ conn.from < i
           PROVE  i \in T \cup settled \cup missed
      <4>1. CASE i \notin pruned
        <5>1. i \in S
          BY <3>3, <3>4, <3>10, <4>1
        <5> QED BY <3>7, <3>10, <5>1
      <4>2. CASE i \in pruned \ missed
        <5>1. i <= conn.cursor /\ conn.cursor \in 0 .. n
          BY <1>1, <3>1, <3>3, <4>2 DEF PruneShape, ConnShape
        <5>2. i \in 1 .. conn.cursor
          BY <3>1, <5>1
        <5>3. conn.from \in 0 .. n
          BY <1>1, <1>3, <3>1 DEF ConnShape
        <5>4. ~(i <= conn.from)
          BY <3>1, <3>10, <5>3
        <5> QED BY <1>1, <3>3, <5>2, <5>4 DEF NoEventLost
      <4> QED BY <4>1, <4>2
    <3>11. PassShape(w)'
      BY <1>2, <1>3, <1>7, <2>1, <3>1, <3>5, <3>8, <3>9 DEF PassShape, SamePass, Handling
    <3>12. TailShape(w)'
      <4>1. settled' = settled /\ missed' = missed /\ conn' = conn /\ feed' = feed
        BY <1>2 DEF history
      <4> QED BY <4>1, <3>1, <3>2, <3>3, <3>8, <3>9, <3>10 DEF TailShape, SamePass, Handling
    <3> QED BY <3>9, <3>11, <3>12
  <2>2. CASE wk[w].kind = "backfill"
    <3>1. PICK S : S = {s \in Collection(wk[w].coll) : dir[s] # 0 /\ s > wk[w].base}
      OBVIOUS
    <3>2. S \subseteq Subjects /\ S \in SUBSET Nat
      BY <3>1, SubjectsAreNat DEF Collection
    <3>3. PICK T : T = Page(w)
      OBVIOUS
    <3>4. T = Lowest(S, Limit)
      BY <2>2, <3>1, <3>3 DEF Page
    <3>5. T \subseteq S
      BY <3>2, <3>4, LowestIs, LimitAssumption
    <3>6. Only(w) /\ wk'[w].pc = "decide" /\ SamePass(w) /\ wk'[w].todo = T
      BY <1>1, <1>7, <3>2, <3>3, <3>5, PageIs
    <3> QED BY <1>2, <1>3, <1>7, <2>2, <3>2, <3>3, <3>5, <3>6 DEF PassShape, TailShape, SamePass, Handling
  <2>3. wk[w].kind \in {"tail", "backfill"}
    BY <1>1 DEF WorkerState
  <2> QED BY <2>1, <2>2, <2>3
<1>8. CASE Fail(w, FALSE)
  BY <1>1, <1>2, <1>3, <1>8, FailIs, AtRest
<1> QED BY <1>5, <1>6, <1>7, <1>8 DEF ReadPage

LEMMA InvHandover ==
  ASSUME IInv, NEW w \in Workers, Handover(w)
  PROVE  IInv'
<1>1. /\ wk \in [Workers -> WorkerState] /\ conn \in ConnRow /\ Len(feed) \in Nat /\ TypeOK
      /\ PassShape(w) /\ ConnShape /\ PruneShape /\ NoEventLost
  BY TypesOf
<1>2. /\ UNCHANGED <<dir, feed, pruned, ds, refs, link, faults, history>> /\ wk[w].pc = "handover"
      /\ settled' = settled /\ missed' = missed
  BY DEF Handover, source, downstream, history
<1>3. conn.backfill # "pending" /\ wk[w].coll \in {"users", "groups"}
  BY <1>1, <1>2 DEF PassShape, WorkerState
<1>4. CASE conn.backfill = wk[w].coll
  <2>1. Only(w) /\ wk'[w].pc = "idle"
    BY <1>1, <1>4, ReturnIs DEF Handover
  <2>2. PassShape(w)' /\ TailShape(w)'
    BY <2>1, AtRest
  <2>3. PICK r \in ConnRow : r = conn
    BY <1>1
  <2>6. PruneShape'
    BY <1>1, <1>2, <1>3, <1>4 DEF PruneShape
  <2>4. CASE wk[w].coll = "users"
    <3>1. conn' = [r EXCEPT !.backfill = "groups", !.after = 0]
      BY <1>4, <2>3, <2>4 DEF Handover
    <3>2. conn' \in ConnRow /\ conn'.backfill = "groups" /\ conn'.from = conn.from
      BY <2>3, <3>1 DEF ConnRow
    <3>3. ConnShape' /\ NoEventLost'
      BY <1>1, <1>2, <1>3, <3>2 DEF ConnShape, NoEventLost
    <3>4. TypeOK' /\ feed' = feed /\ settled \subseteq settled'
      BY <1>1, <1>2, <2>1, <3>2, MoveTypes DEF history
    <3> QED BY <1>2, <1>4, <2>1, <2>2, <2>4, <2>6, <3>2, <3>3, <3>4, Frame
  <2>5. CASE wk[w].coll = "groups"
    <3>1. conn' = [r EXCEPT !.backfill = "done", !.after = 0, !.cursor = r.from]
      BY <1>4, <2>3, <2>5 DEF Handover
    <3>2. conn' \in ConnRow /\ conn'.backfill = "done" /\ conn'.from = conn.from /\ conn'.cursor = conn.from
      BY <2>3, <3>1 DEF ConnRow
    <3>3. conn.from \in 0 .. Len(feed)
      BY <1>1, <1>3 DEF ConnShape
    <3>4. ConnShape'
      BY <1>1, <1>2, <3>2, <3>3 DEF ConnShape
    <3>5. NoEventLost'
      <4>1. PICK f \in Nat : f = conn.from
        BY <1>1, <3>3
      <4> QED BY <3>2, <4>1 DEF NoEventLost
    <3>6. TypeOK' /\ feed' = feed /\ settled \subseteq settled'
      BY <1>1, <1>2, <2>1, <3>2, MoveTypes DEF history
    <3> QED BY <1>2, <1>4, <2>1, <2>2, <2>5, <2>6, <3>2, <3>4, <3>5, <3>6, Frame
  <2> QED BY <1>3, <2>4, <2>5
<1>5. CASE conn.backfill # wk[w].coll
  <2>1. conn' = conn /\ Fail(w, TRUE)
    BY <1>5 DEF Handover
  <2>2. Only(w) /\ wk'[w].pc = "fail"
    BY <1>1, <2>1, FailIs
  <2>3. PassShape(w)' /\ TailShape(w)'
    BY <1>3, <2>1, <2>2, AtRest
  <2> QED BY <1>1, <1>2, <2>1, <2>2, <2>3, RowFrame, MoveTypes DEF RowKept, history
<1> QED BY <1>4, <1>5

LEMMA EventsTyped ==
  ASSUME TypeOK, NEW i \in 1 .. Len(feed)
  PROVE  feed[i].subject \in Subjects /\ feed[i].departing \in BOOLEAN
<1>1. feed \in Seq([subject : Subjects, departing : BOOLEAN])
  BY DEF TypeOK
<1>2. feed[i] \in [subject : Subjects, departing : BOOLEAN]
  <2>1. PICK R : R = [subject : Subjects, departing : BOOLEAN]
    OBVIOUS
  <2>2. feed \in Seq(R)
    BY <1>1, <2>1
  <2>3. feed[i] \in R
    BY <2>2
  <2> QED BY <2>1, <2>3
<1> QED BY <1>2

\* A pass at work is at an item: an event of the feed, or a subject.
LEMMA Handled ==
  ASSUME IInv, NEW w \in Workers, wk[w].pc \in Handling
  PROVE  /\ wk[w].todo # {} /\ Item(w) \in wk[w].todo /\ Item(w) \in Nat /\ wk[w].todo \subseteq Nat
         /\ \A j \in wk[w].todo : Item(w) <= j
         /\ Subject(w) \in Subjects
         /\ wk[w].kind = "tail" => Item(w) \in 1 .. Len(feed) /\ Subject(w) = feed[Item(w)].subject
         /\ wk[w].kind = "backfill" => Item(w) \in Subjects /\ Subject(w) = Item(w)
         /\ wk[w].kind \in {"tail", "backfill"}
         /\ conn.backfill # "pending"
<1>1. /\ wk \in [Workers -> WorkerState] /\ Len(feed) \in Nat /\ TypeOK /\ PassShape(w)
  BY TypesOf
<1>2. /\ wk[w].todo # {} /\ wk[w].todo \subseteq IF wk[w].kind = "tail" THEN 1 .. Len(feed) ELSE Subjects
      /\ conn.backfill # "pending"
  BY <1>1 DEF PassShape, Handling
<1>3. /\ Item(w) \in wk[w].todo /\ Item(w) \in Nat /\ wk[w].todo \subseteq Nat
      /\ \A j \in wk[w].todo : Item(w) <= j
  BY <1>1, <1>2, ItemIs
<1>4. wk[w].kind \in {"tail", "backfill"}
  BY <1>1 DEF WorkerState
<1>5. CASE wk[w].kind = "tail"
  <2>1. PICK i \in 1 .. Len(feed) : i = Item(w)
    BY <1>2, <1>3, <1>5
  <2>2. feed[i].subject \in Subjects
    BY <1>1, <2>1, EventsTyped
  <2> QED BY <1>2, <1>3, <1>5, <2>1, <2>2 DEF Subject
<1>6. CASE wk[w].kind = "backfill"
  BY <1>2, <1>3, <1>6 DEF Subject
<1> QED BY <1>4, <1>5, <1>6

\* Finishing an item: the next one, the checkpoint or the record of progress.
LEMMA InvFinish ==
  ASSUME IInv, NEW w \in Workers, wk[w].pc \in Handling, NEW b \in BOOLEAN, Finish(w, b),
         conn' = conn, feed' = feed, missed' = missed
  PROVE  /\ Only(w) /\ PassShape(w)' /\ TailShape(w)'
         /\ settled \subseteq settled' /\ settled' \subseteq Nat /\ covered' \subseteq Subjects
<1>1. /\ wk \in [Workers -> WorkerState] /\ Len(feed) \in Nat /\ TypeOK /\ PassShape(w) /\ TailShape(w)
  BY TypesOf
<1>2. PICK x \in Nat : x = Item(w)
  BY Handled
<1>3. PICK n \in Nat : n = Len(feed)
  BY <1>1
<1>4. PICK r \in WorkerState : r = wk[w]
  BY <1>1
<1>5. /\ r.todo # {} /\ x \in r.todo /\ r.todo \subseteq Nat /\ \A j \in r.todo : x <= j
      /\ conn.backfill # "pending" /\ r.pc \in Handling
      /\ r.kind = "backfill" => x \in Subjects
  BY <1>2, <1>4, Handled
<1>6. /\ Only(w) /\ SamePass(w)
      /\ \/ /\ r.kind = "tail" /\ wk'[w].todo = r.todo \ {x} /\ wk'[w].version = x
            /\ settled' = settled \cup {x} /\ covered' = covered
            /\ \/ wk'[w].pc = "checkpoint" /\ r.todo = {x}
               \/ wk'[w].pc = "decide" /\ r.todo # {x}
         \/ /\ r.kind = "backfill" /\ wk'[w].pc = "progress" /\ wk'[w].todo = r.todo
            /\ covered' = covered \cup {x} /\ settled' = settled
  BY <1>1, <1>2, <1>4, <1>5, FinishIs
<1>7. settled \subseteq Nat /\ covered \subseteq Subjects
  BY <1>1 DEF TypeOK
<1>10. conn.from \in Nat
  BY <1>1, <1>3, <1>5, TypesOf DEF ConnShape
<1>8. CASE r.kind = "tail"
  <2>1. /\ conn.backfill = "done" /\ r.base \in 0 .. n /\ r.todo \subseteq 1 .. n
        /\ \A j \in r.todo : r.base < j
        /\ \A i \in 1 .. n, j \in r.todo :
             r.base < i /\ i <= j /\ conn.from < i => i \in r.todo \cup settled \cup missed
        /\ conn.from \in Nat
    BY <1>10, <1>1, <1>3, <1>4, <1>5, <1>8 DEF TailShape, PassShape, Handling
  <2>2. wk'[w].kind = "tail" /\ wk'[w].base = r.base /\ settled' = settled \cup {x} /\ covered' = covered
    BY <1>4, <1>6, <1>8 DEF SamePass
  <2>3. wk'[w].todo = r.todo \ {x} /\ wk'[w].version = x
    BY <1>6, <1>8
  <2>4. CASE wk'[w].pc = "checkpoint" /\ r.todo = {x}
    <3>1. x \in r.base .. n
      BY <1>5, <2>1
    <3>2. ASSUME NEW i \in 1 .. x PROVE i <= r.base \/ i <= conn.from \/ i \in settled' \cup missed
      <4>1. i \in 1 .. n /\ i <= x
        BY <2>1, <3>1
      <4>2. r.base < i /\ conn.from < i => i \in {x} \cup settled \cup missed
        BY <1>5, <2>1, <2>4, <4>1
      <4> QED BY <2>1, <2>2, <4>2
    <3> QED BY <1>3, <1>5, <1>6, <1>7, <2>1, <2>2, <2>3, <2>4, <3>1, <3>2 DEF PassShape, TailShape, Handling
  <2>5. CASE wk'[w].pc = "decide" /\ r.todo # {x}
    <3>1. r.todo \ {x} # {}
      BY <1>5, <2>5
    <3>2. PassShape(w)'
      BY <1>3, <1>5, <2>1, <2>2, <2>3, <2>5, <3>1 DEF PassShape, Handling
    <3>3. TailShape(w)'
      BY <1>3, <2>1, <2>2, <2>3, <2>5 DEF TailShape, Handling
    <3> QED BY <1>6, <1>7, <2>2, <3>2, <3>3
  <2> QED BY <1>6, <1>8, <2>4, <2>5
<1>9. CASE r.kind = "backfill"
  <2>1. /\ wk'[w].kind = "backfill" /\ wk'[w].pc = "progress" /\ wk'[w].todo = r.todo
        /\ covered' = covered \cup {x} /\ settled' = settled
    BY <1>4, <1>6, <1>9 DEF SamePass
  <2>2. r.todo \subseteq Subjects
    BY <1>1, <1>4, <1>5, <1>9 DEF PassShape, Handling
  <2> QED BY <1>5, <1>6, <1>7, <1>9, <2>1, <2>2 DEF PassShape, TailShape, Handling
<1> QED BY <1>6, <1>8, <1>9

\* Going on with the same item.
LEMMA InvSameItem ==
  ASSUME IInv, NEW w \in Workers, wk[w].pc \in Handling, Only(w), SamePass(w),
         wk'[w].todo = wk[w].todo, wk'[w].pc \in {"push", "link"},
         wk'[w].version \in 0 .. MaxEvents + 1, wk'[w].act # "skip",
         conn' = conn, feed' = feed, settled' = settled, missed' = missed
  PROVE  PassShape(w)' /\ TailShape(w)'
<1>1. PassShape(w) /\ TailShape(w)
  BY TypesOf
<1>2. PassShape(w)'
  BY <1>1, LimitAssumption DEF PassShape, SamePass, Handling
<1>3. TailShape(w)'
  BY <1>1 DEF TailShape, SamePass, Handling
<1> QED BY <1>2, <1>3

LEMMA InvDecide ==
  ASSUME IInv, NEW w \in Workers, Decide(w)
  PROVE  IInv'
<1>1. /\ wk \in [Workers -> WorkerState] /\ conn \in ConnRow /\ Len(feed) \in Nat /\ TypeOK
  BY TypesOf
<1>2. /\ UNCHANGED <<dir, feed, pruned, ds, refs, link, conn, faults, refused, orphaned, skipped, missed>>
      /\ wk[w].pc = "decide" /\ wk[w].pc \in Handling
  BY DEF Decide, Handling, source, downstream
<1>5. contested' \subseteq Subjects
  <2>1. Subject(w) \in Subjects /\ contested \subseteq Subjects
    BY <1>1, <1>2, Handled DEF TypeOK
  <2> QED BY <2>1 DEF Decide
<1>3. CASE Finish(w, FALSE)
  <2>1. /\ Only(w) /\ PassShape(w)' /\ TailShape(w)'
        /\ settled \subseteq settled' /\ settled' \subseteq Nat /\ covered' \subseteq Subjects
    BY <1>2, <1>3, InvFinish
  <2>2. TypeOK'
    BY <1>1, <1>2, <1>5, <2>1 DEF TypeOK, Only
  <2> QED BY <1>1, <1>2, <2>1, <2>2, RowFrame DEF RowKept
<1>4. CASE /\ Decision(w) # "skip" /\ UNCHANGED <<settled, covered>>
           /\ wk' = [wk EXCEPT ![w].pc = "push", ![w].act = Decision(w),
                               ![w].version = dir[Subject(w)], ![w].named = Named(Subject(w))]
  <2>1. PICK a \in {"converge", "withdraw"} : a = Decision(w)
    BY <1>4 DEF Decision
  <2>2. PICK s \in Subjects : s = Subject(w)
    BY <1>2, Handled
  <2>3. dir[s] \in 0 .. MaxEvents + 1
    BY <1>1, <2>2 DEF TypeOK
  <2>4. PICK n \in Nat : n = dir[s]
    BY <2>3, LimitAssumption
  <2>9. PICK U \in SUBSET Users : U = Named(s)
    BY MembersAssumption DEF Named
  <2>5. wk' = [wk EXCEPT ![w] = [wk[w] EXCEPT !.pc = "push", !.act = a, !.version = n, !.named = U]]
    BY <1>4, <2>1, <2>2, <2>4, <2>9
  <2>6. /\ Only(w) /\ wk'[w].pc = "push" /\ SamePass(w) /\ wk'[w].todo = wk[w].todo
        /\ wk'[w].act = a /\ wk'[w].version = n
    BY <1>1, <2>5, PushingIs
  <2>7. PassShape(w)' /\ TailShape(w)'
    BY <1>2, <1>4, <2>1, <2>3, <2>4, <2>6, InvSameItem
  <2>8. TypeOK'
    BY <1>1, <1>2, <1>4, <1>5, <2>6 DEF TypeOK, Only
  <2> QED BY <1>1, <1>2, <1>4, <2>6, <2>7, <2>8, RowFrame DEF RowKept
<1> QED BY <1>3, <1>4 DEF Decide

LEMMA InvPush ==
  ASSUME IInv, NEW w \in Workers, Push(w)
  PROVE  IInv'
<1>1. /\ wk \in [Workers -> WorkerState] /\ conn \in ConnRow /\ Len(feed) \in Nat /\ TypeOK
      /\ PassShape(w) /\ RowKept /\ conn' = conn /\ feed' = feed /\ pruned' = pruned /\ missed' = missed
  BY TypesOf DEF Push, RowKept, source
<1>2. /\ UNCHANGED <<dir, feed, pruned, link, conn, contested, skipped, missed>>
      /\ wk[w].pc = "push" /\ wk[w].pc \in Handling
  BY DEF Push, Handling, source
<1>3. PICK s \in Subjects : s = Subject(w)
  BY <1>2, Handled
<1>4. conn.backfill # "pending"
  BY <1>2, Handled
<1>5. PICK n : n = IF wk[w].act = "converge" THEN wk[w].version ELSE 0
  OBVIOUS
<1>6. /\ n \in 0 .. MaxEvents + 1 /\ wk[w].version \in 0 .. MaxEvents + 1 /\ wk[w].act # "skip"
  <2>1. wk[w].version \in Nat /\ wk[w].version <= MaxEvents + 1 /\ wk[w].act # "skip"
    BY <1>1, <1>2 DEF PassShape, WorkerState
  <2> QED BY <1>5, <2>1, LimitAssumption
<1>7. Applied(w) => ds' \in [Subjects -> 0 .. MaxEvents + 1] /\ refs' \in [Subjects -> SUBSET Users]
  <2>1. PICK U \in SUBSET Users : U = IF wk[w].act = "converge" THEN wk[w].named ELSE {}
    BY <1>1 DEF WorkerState
  <2>2. Applied(w) => ds' = [ds EXCEPT ![s] = n] /\ refs' = [refs EXCEPT ![s] = U]
    BY <1>3, <1>5, <2>1 DEF Applied
  <2>3. ds \in [Subjects -> 0 .. MaxEvents + 1] /\ refs \in [Subjects -> SUBSET Users]
    BY <1>1 DEF TypeOK
  <2> QED BY <1>6, <2>2, <2>3
<1>8. Orphans(w) \subseteq Subjects
  BY <1>3 DEF Orphans
<1>9. faults < MaxFaults /\ faults' = faults + 1 => faults' \in 0 .. MaxFaults
  BY <1>1, LimitAssumption DEF TypeOK
<1>10. CASE Applied(w) /\ Goto(w, "link") /\ UNCHANGED <<faults, settled, covered, refused, orphaned>>
  <2>1. Only(w) /\ wk'[w].pc = "link" /\ SamePass(w) /\ SameItem(w)
    BY <1>1, <1>10, GotoIs DEF PCs
  <2>2. settled' = settled
    BY <1>10
  <2>3. PassShape(w)' /\ TailShape(w)'
    BY <1>1, <1>2, <1>6, <2>1, <2>2, InvSameItem DEF SameItem
  <2>4. TypeOK'
    BY <1>1, <1>2, <1>7, <1>10, <2>1 DEF TypeOK, Only
  <2> QED BY <1>1, <2>1, <2>2, <2>3, <2>4, RowFrame
<1>11. CASE /\ faults < MaxFaults /\ faults' = faults + 1 /\ Applied(w)
            /\ orphaned' = orphaned \cup Orphans(w)
            /\ Fail(w, TRUE)
            /\ UNCHANGED <<settled, covered, refused>>
  <2>1. Only(w) /\ wk'[w].pc = "fail"
    BY <1>1, <1>11, FailIs
  <2>2. PassShape(w)' /\ TailShape(w)'
    BY <1>1, <1>4, <2>1, AtRest
  <2>3. TypeOK'
    BY <1>1, <1>2, <1>7, <1>8, <1>9, <1>11, <2>1 DEF TypeOK, Only
  <2> QED BY <1>1, <1>11, <2>1, <2>2, <2>3, RowFrame
<1>12. CASE /\ faults < MaxFaults /\ faults' = faults + 1
            /\ \E p \in BOOLEAN : Fail(w, p)
            /\ UNCHANGED <<ds, refs, settled, covered, refused, orphaned>>
  <2>1. Only(w) /\ wk'[w].pc = "fail"
    BY <1>1, <1>12, FailIs
  <2>2. PassShape(w)' /\ TailShape(w)'
    BY <1>1, <1>4, <2>1, AtRest
  <2>3. TypeOK'
    BY <1>1, <1>2, <1>9, <1>12, <2>1 DEF TypeOK, Only
  <2> QED BY <1>1, <1>12, <2>1, <2>2, <2>3, RowFrame
<1>13. CASE /\ faults < MaxFaults /\ faults' = faults + 1 /\ refused' = refused \cup {Subject(w)}
            /\ Finish(w, TRUE) /\ UNCHANGED <<ds, refs, orphaned>>
  <2>1. /\ Only(w) /\ PassShape(w)' /\ TailShape(w)'
        /\ settled \subseteq settled' /\ settled' \subseteq Nat /\ covered' \subseteq Subjects
    BY <1>1, <1>2, <1>13, InvFinish
  <2>2. TypeOK'
    BY <1>1, <1>2, <1>3, <1>9, <1>13, <2>1 DEF TypeOK, Only
  <2> QED BY <1>1, <2>1, <2>2, RowFrame
<1> QED BY <1>10, <1>11, <1>12, <1>13 DEF Push, downstream

LEMMA InvRecordLink ==
  ASSUME IInv, NEW w \in Workers, RecordLink(w)
  PROVE  IInv'
<1>1. /\ wk \in [Workers -> WorkerState] /\ conn \in ConnRow /\ TypeOK
      /\ RowKept /\ conn' = conn /\ feed' = feed /\ pruned' = pruned /\ missed' = missed
  BY TypesOf DEF RecordLink, RowKept, source
<1>2. /\ UNCHANGED <<dir, feed, pruned, ds, refs, conn, faults, refused, contested, skipped, missed>>
      /\ wk[w].pc \in Handling /\ Finish(w, FALSE) /\ orphaned' \subseteq orphaned
  BY DEF RecordLink, Handling, source, downstream
<1>3. /\ Only(w) /\ PassShape(w)' /\ TailShape(w)'
      /\ settled \subseteq settled' /\ settled' \subseteq Nat /\ covered' \subseteq Subjects
  BY <1>1, <1>2, InvFinish
<1>4. link' \in [Subjects -> {"none", "live", "withdrawn"}]
  BY <1>1 DEF RecordLink, TypeOK
<1>5. TypeOK'
  BY <1>1, <1>2, <1>3, <1>4 DEF TypeOK, Only
<1> QED BY <1>1, <1>3, <1>5, RowFrame

LEMMA InvCheckpoint ==
  ASSUME IInv, NEW w \in Workers, Checkpoint(w)
  PROVE  IInv'
<1>1. /\ wk \in [Workers -> WorkerState] /\ conn \in ConnRow /\ Len(feed) \in Nat /\ TypeOK
      /\ ConnShape /\ PruneShape /\ NoEventLost /\ PassShape(w) /\ TailShape(w)
  BY TypesOf
<1>2. /\ UNCHANGED <<dir, feed, pruned, ds, refs, link, faults, history>> /\ wk[w].pc = "checkpoint"
      /\ settled' = settled /\ missed' = missed /\ pruned' = pruned
  BY DEF Checkpoint, history, source, downstream
<1>3. Only(w) /\ wk'[w].pc = "idle"
  BY <1>1, ReturnIs DEF Checkpoint
<1>4. PassShape(w)' /\ TailShape(w)'
  BY <1>3, AtRest
<1>5. CASE MayAdvance(w)
  <2>1. PICK n : n = wk[w].version
    OBVIOUS
  <2>2. PICK b : b = conn.cursor
    OBVIOUS
  <2>3. /\ n \in b .. Len(feed) /\ b \in 0 .. Len(feed)
        /\ \A i \in 1 .. n : i <= b \/ i <= conn.from \/ i \in settled \cup missed
    BY <1>1, <1>2, <1>5, <2>1, <2>2 DEF PassShape, TailShape, MayAdvance
  <2>4. PICK r \in ConnRow : r = conn
    BY <1>1
  <2>5. conn' = [r EXCEPT !.cursor = n, !.failures = 0, !.paused = FALSE]
    BY <1>5, <2>1, <2>4 DEF Checkpoint
  <2>6. n \in Nat /\ b \in Nat
    BY <1>1, <2>3
  <2>7. conn' \in ConnRow /\ conn'.backfill = conn.backfill /\ conn'.from = conn.from /\ conn'.cursor = n
    BY <2>4, <2>5, <2>6 DEF ConnRow
  <2>8. conn.backfill = "done"
    BY <1>5 DEF MayAdvance
  <2>9. ConnShape'
    BY <1>1, <1>2, <2>3, <2>7 DEF ConnShape
  <2>10. ASSUME NEW i \in 1 .. n PROVE i <= conn.from \/ i \in settled \cup missed
    <3>1. CASE i <= b
      <4>1. i \in 1 .. b
        BY <2>6, <3>1
      <4> QED BY <1>1, <2>2, <2>8, <4>1 DEF NoEventLost
    <3> QED BY <2>3, <3>1
  <2>11. NoEventLost'
    BY <1>2, <2>7, <2>10 DEF NoEventLost
  <2>12. TypeOK'
    BY <1>1, <1>2, <1>3, <2>7, MoveTypes
  <2>13. PruneShape'
    <3>1. ASSUME NEW i \in pruned \ missed PROVE i <= n
      <4>1. i \in Nat /\ i <= b
        BY <1>1, <2>2 DEF PruneShape
      <4>2. b <= n
        BY <2>3, <2>6
      <4> QED BY <2>6, <4>1, <4>2
    <3> QED BY <1>1, <1>2, <2>7, <2>8, <3>1 DEF PruneShape
  <2> QED BY <1>2, <1>3, <1>4, <2>7, <2>9, <2>11, <2>12, <2>13, Frame
<1>6. CASE ~MayAdvance(w)
  <2>1. conn' = conn
    BY <1>6 DEF Checkpoint
  <2> QED BY <1>1, <1>2, <1>3, <1>4, <2>1, RowFrame, MoveTypes DEF RowKept
<1> QED BY <1>5, <1>6

LEMMA FailedIs ==
  ASSUME conn \in ConnRow, NEW p \in BOOLEAN, conn' = Failed(p)
  PROVE  RowKept
<1>1. PICK r \in ConnRow : r = conn
  OBVIOUS
<1>2. conn' = [r EXCEPT !.failures = r.failures + 1, !.paused = r.paused \/ p]
  BY <1>1 DEF Failed
<1>3. r.failures + 1 \in Nat /\ (r.paused \/ p) \in BOOLEAN
  BY DEF ConnRow
<1> QED BY <1>1, <1>2, <1>3 DEF ConnRow, RowKept

\* The next subject of a backfill pass.
LEMMA InvNext ==
  ASSUME IInv, NEW w \in Workers, wk[w].pc \in {"progress", "refusal"}, NEW f \in Nat, NextSubject(w, f),
         feed' = feed, conn'.backfill # "pending"
  PROVE  Only(w) /\ PassShape(w)' /\ TailShape(w)'
<1>1. /\ wk \in [Workers -> WorkerState] /\ PassShape(w)
  BY TypesOf
<1>2. wk[w].todo # {} /\ wk[w].todo \subseteq Subjects /\ wk[w].kind = "backfill"
  BY <1>1 DEF PassShape
<1>3. Item(w) \in wk[w].todo
  BY <1>1, <1>2, ItemIs
<1>4. /\ Only(w)
      /\ \/ wk[w].todo = {Item(w)} /\ wk'[w].pc = "idle" /\ wk'[w].kind = "tail"
         \/ /\ wk[w].todo # {Item(w)} /\ wk'[w].pc = "decide" /\ SamePass(w)
            /\ wk'[w].todo = wk[w].todo \ {Item(w)}
  BY <1>1, NextIs
<1>5. CASE wk'[w].pc = "idle"
  BY <1>4, <1>5, AtRest
<1>6. CASE wk[w].todo # {Item(w)} /\ wk'[w].pc = "decide" /\ SamePass(w) /\ wk'[w].todo = wk[w].todo \ {Item(w)}
  <2>1. wk'[w].todo # {} /\ wk'[w].todo \subseteq Subjects /\ wk'[w].kind = "backfill"
    BY <1>2, <1>3, <1>6 DEF SamePass
  <2> QED BY <1>4, <1>6, <2>1 DEF PassShape, TailShape, Handling
<1> QED BY <1>4, <1>5, <1>6

LEMMA ProgressRow ==
  ASSUME NEW r \in ConnRow, NEW s \in Subjects
  PROVE  [r EXCEPT !.after = s, !.failures = 0, !.paused = FALSE] \in ConnRow
<1>1. r \in [backfill : {"pending", "users", "groups", "done"}, from : Nat \cup {NULL}, after : Subjects \cup {0},
             cursor : Nat \cup {NULL}, failures : Nat, paused : BOOLEAN]
  BY DEF ConnRow
<1>2. [r EXCEPT !.after = s] \in ConnRow
  BY <1>1 DEF ConnRow
<1>3. PICK q \in ConnRow : q = [r EXCEPT !.after = s]
  BY <1>2
<1>4. [q EXCEPT !.failures = 0, !.paused = FALSE] \in ConnRow
  BY DEF ConnRow
<1> QED BY <1>3, <1>4

LEMMA ProgressRowIs ==
  ASSUME conn \in ConnRow, NEW s \in Subjects, conn' = [conn EXCEPT !.after = s, !.failures = 0, !.paused = FALSE]
  PROVE  /\ conn' \in ConnRow /\ conn'.backfill = conn.backfill /\ conn'.from = conn.from
         /\ conn'.cursor = conn.cursor /\ conn'.after = s
<1>1. PICK r \in ConnRow : r = conn
  OBVIOUS
<1>2. conn' = [r EXCEPT !.after = s, !.failures = 0, !.paused = FALSE]
  BY <1>1
<1>3. /\ conn'.backfill = r.backfill /\ conn'.from = r.from /\ conn'.cursor = r.cursor /\ conn'.after = s
  BY <1>2 DEF ConnRow
<1> QED BY ZenonT(40), <1>1, <1>2, <1>3, ProgressRow

LEMMA InvProgress ==
  ASSUME IInv, NEW w \in Workers, RecordProgress(w)
  PROVE  IInv'
<1>1. /\ wk \in [Workers -> WorkerState] /\ conn \in ConnRow /\ Len(feed) \in Nat /\ TypeOK
      /\ ConnShape /\ NoEventLost /\ PassShape(w) /\ TailShape(w)
  BY TypesOf
<1>2. /\ UNCHANGED <<dir, feed, pruned, ds, refs, link, faults, settled, covered, refused, orphaned,
                      contested, missed>>
      /\ wk[w].pc = "progress"
  BY DEF RecordProgress, source, downstream
<1>6. skipped' \subseteq Subjects
  <2>1. skipped \subseteq Subjects /\ Collection(conn.backfill) \subseteq Subjects
    BY <1>1, SubjectsAreNat DEF TypeOK, Collection
  <2>2. \/ skipped' = skipped
        \/ skipped' = skipped \cup {s \in Collection(conn.backfill) : s <= Item(w)}
    BY DEF RecordProgress
  <2> QED BY <2>1, <2>2
<1>3. wk[w].todo # {} /\ wk[w].todo \subseteq Subjects /\ wk[w].kind = "backfill" /\ conn.backfill # "pending"
  BY <1>1, <1>2 DEF PassShape
<1>4. CASE /\ conn.backfill \in {"users", "groups"} /\ conn.failures = wk[w].failures
           /\ conn' = [conn EXCEPT !.after = Item(w), !.failures = 0, !.paused = FALSE]
           /\ IF wk[w].refused THEN Goto(w, "refusal") ELSE NextSubject(w, 0)
  <2>1. PICK s \in Subjects : s = Item(w)
    BY <1>1, <1>3, ItemIs
  <2>2. conn' \in ConnRow /\ conn'.backfill = conn.backfill /\ conn'.from = conn.from /\ conn'.cursor = conn.cursor
    BY <1>1, <1>4, <2>1, ProgressRowIs
  <2>3. ConnShape' /\ NoEventLost' /\ PruneShape'
    BY <1>1, <1>2, <2>2, TypesOf DEF ConnShape, NoEventLost, PruneShape
  <2>4. Only(w) /\ PassShape(w)' /\ TailShape(w)'
    <3>1. CASE wk[w].refused
      <4>1. Only(w) /\ wk'[w].pc = "refusal" /\ SamePass(w) /\ SameItem(w)
        BY <1>1, <1>4, <3>1, GotoIs DEF PCs
      <4> QED BY <1>2, <1>3, <2>2, <4>1 DEF PassShape, TailShape, Handling, SamePass, SameItem
    <3>2. CASE NextSubject(w, 0)
      BY <1>2, <1>3, <2>2, <3>2, InvNext
    <3> QED BY <1>4, <3>1, <3>2
  <2>5. TypeOK'
    BY <1>1, <1>2, <1>6, <2>2, <2>4 DEF TypeOK, Only
  <2> QED BY <1>2, <2>2, <2>3, <2>4, <2>5, Frame
<1>5. CASE conn' = conn /\ Fail(w, TRUE)
  <2>1. Only(w) /\ wk'[w].pc = "fail"
    BY <1>1, <1>5, FailIs
  <2>2. PassShape(w)' /\ TailShape(w)'
    BY <1>3, <1>5, <2>1, AtRest
  <2>3. TypeOK'
    BY <1>1, <1>2, <1>5, <1>6, <2>1 DEF TypeOK, Only
  <2> QED BY <1>1, <1>2, <1>5, <2>1, <2>2, <2>3, RowFrame DEF RowKept
<1> QED BY <1>4, <1>5 DEF RecordProgress

LEMMA InvRefusal ==
  ASSUME IInv, NEW w \in Workers, RecordRefusal(w)
  PROVE  IInv'
<1>1. wk \in [Workers -> WorkerState] /\ conn \in ConnRow /\ TypeOK /\ PassShape(w)
  BY TypesOf
<1>2. UNCHANGED <<dir, feed, pruned, ds, refs, link, faults, history>> /\ wk[w].pc = "refusal" /\ settled' = settled /\ missed' = missed
  BY DEF RecordRefusal, history, source, downstream
<1>3. RowKept /\ conn.backfill # "pending"
  BY <1>1, <1>2, FailedIs DEF RecordRefusal, PassShape
<1>4. PICK f \in Nat : f = wk[w].failures + 1
  BY <1>1 DEF WorkerState
<1>5. Only(w) /\ PassShape(w)' /\ TailShape(w)'
  <2>1. NextSubject(w, f)
    BY <1>4 DEF RecordRefusal
  <2> QED BY <1>2, <1>3, <2>1, InvNext DEF RowKept
<1>6. TypeOK'
  BY <1>1, <1>2, <1>3, <1>5, MoveTypes DEF RowKept
<1> QED BY <1>2, <1>3, <1>5, <1>6, RowFrame

LEMMA InvFailure ==
  ASSUME IInv, NEW w \in Workers, RecordFailure(w)
  PROVE  IInv'
<1>1. wk \in [Workers -> WorkerState] /\ conn \in ConnRow /\ TypeOK
  BY TypesOf
<1>2. UNCHANGED <<dir, feed, pruned, ds, refs, link, faults, history>> /\ settled' = settled /\ missed' = missed
  BY DEF RecordFailure, history, source, downstream
<1>3. wk[w].pause \in BOOLEAN
  BY <1>1 DEF WorkerState
<1>4. RowKept
  BY <1>1, <1>3, FailedIs DEF RecordFailure
<1>5. Only(w) /\ wk'[w].pc = "idle"
  BY <1>1, ReturnIs DEF RecordFailure
<1>6. PassShape(w)' /\ TailShape(w)'
  BY <1>5, AtRest
<1>7. TypeOK'
  BY <1>1, <1>2, <1>4, <1>5, MoveTypes DEF RowKept
<1> QED BY <1>2, <1>4, <1>5, <1>6, <1>7, RowFrame

LEMMA InvCrash ==
  ASSUME IInv, NEW w \in Workers, Crash(w)
  PROVE  IInv'
<1>1. /\ wk \in [Workers -> WorkerState] /\ conn \in ConnRow /\ TypeOK /\ RowKept
      /\ UNCHANGED <<dir, feed, pruned, ds, refs, link, settled, covered, refused, contested, skipped, missed>>
  BY TypesOf DEF Crash, RowKept, source, downstream
<1>2. Only(w) /\ wk'[w].pc = "idle"
  BY <1>1, ReturnIs DEF Crash
<1>3. PassShape(w)' /\ TailShape(w)'
  BY <1>2, AtRest
<1>4. wk[w].pc = "link" => Orphans(w) \subseteq Subjects
  <2>1. wk[w].pc = "link" => Subject(w) \in Subjects
    BY Handled DEF Handling
  <2> QED BY <2>1 DEF Orphans
<1>5. orphaned' \subseteq Subjects
  BY <1>1, <1>4 DEF Crash, TypeOK
<1>6. faults' \in 0 .. MaxFaults
  BY <1>1, LimitAssumption DEF Crash, TypeOK
<1>7. TypeOK'
  BY <1>1, <1>2, <1>5, <1>6 DEF TypeOK, Only, Crash
<1> QED BY <1>1, <1>2, <1>3, <1>7, RowFrame

\* The feed grows.
LEMMA InvEvent ==
  ASSUME IInv, NEW s \in Subjects, NEW d \in BOOLEAN, NEW n \in 0 .. MaxEvents + 1,
         Len(feed) < MaxEvents, dir' = [dir EXCEPT ![s] = n],
         feed' = Append(feed, [subject |-> s, departing |-> d]),
         UNCHANGED <<pruned, ds, refs, link, conn, wk, faults, history>>
  PROVE  IInv'
<1>1. TypeOK /\ Len(feed) \in Nat /\ ConnShape /\ NoEventLost /\ conn \in ConnRow
  BY TypesOf
<1>2. PICK R : R = [subject : Subjects, departing : BOOLEAN]
  OBVIOUS
<1>3. PICK e \in R : e = [subject |-> s, departing |-> d]
  BY <1>2
<1>4. feed \in Seq(R) /\ feed' = Append(feed, e)
  BY <1>1, <1>2, <1>3 DEF TypeOK
<1>5. feed' \in Seq(R) /\ Len(feed') = Len(feed) + 1
  BY <1>4
<1>6. dir' \in [Subjects -> 0 .. MaxEvents + 1]
  BY <1>1 DEF TypeOK
<1>7. TypeOK'
  BY <1>1, <1>2, <1>5, <1>6 DEF TypeOK, history
<1>8. ConnShape'
  <2>1. Len(feed') \in Nat /\ Len(feed) <= Len(feed') /\ Len(feed') <= MaxEvents
    BY <1>1, <1>5, LimitAssumption
  <2> QED BY <1>1, <2>1 DEF ConnShape
<1>9. NoEventLost'
  BY <1>1 DEF NoEventLost, history
<1>10. ASSUME NEW v \in Workers PROVE PassShape(v)' /\ TailShape(v)'
  <2>1. /\ Len(feed') \in Nat /\ Len(feed) <= Len(feed')
        /\ settled \subseteq settled' /\ missed \subseteq missed'
    BY <1>1, <1>5 DEF history
  <2> QED BY <2>1, OtherKept
<1>11. PruneShape'
  <2>1. PruneShape /\ pruned' = pruned /\ missed' = missed
    BY TypesOf DEF history
  <2>2. 1 .. Len(feed) \subseteq 1 .. Len(feed')
    BY <1>1, <1>5
  <2> QED BY <2>1, <2>2 DEF PruneShape
<1> QED BY <1>7, <1>8, <1>9, <1>10, <1>11 DEF IInv

LEMMA PauseIs ==
  ASSUME conn \in ConnRow, PauseLapses
  PROVE  RowKept
<1>1. PICK r \in ConnRow : r = conn
  OBVIOUS
<1>2. conn' = [r EXCEPT !.paused = FALSE]
  BY <1>1 DEF PauseLapses
<1> QED BY <1>1, <1>2 DEF ConnRow, RowKept

LEMMA InvPause ==
  ASSUME IInv, PauseLapses
  PROVE  IInv'
<1>1. TypeOK /\ Len(feed) \in Nat /\ ConnShape /\ NoEventLost /\ conn \in ConnRow
  BY TypesOf
<1>2. RowKept
  BY <1>1, PauseIs
<1>3. UNCHANGED <<dir, feed, pruned, ds, refs, link, wk, faults, history>>
  BY DEF PauseLapses, source, downstream
<1>4. TypeOK'
  BY <1>1, <1>2, <1>3 DEF TypeOK, history, RowKept
<1>5. ConnShape'
  BY <1>1, <1>2, <1>3 DEF ConnShape, RowKept
<1>6. NoEventLost'
  BY <1>1, <1>2, <1>3 DEF NoEventLost, RowKept, history
<1>7. ASSUME NEW v \in Workers PROVE PassShape(v)' /\ TailShape(v)'
  BY <1>1, <1>2, <1>3, OtherKept DEF RowKept, history
<1>8. PruneShape'
  BY <1>2, <1>3, TypesOf DEF PruneShape, RowKept, history
<1> QED BY <1>4, <1>5, <1>6, <1>7, <1>8 DEF IInv

\* Retention deletes an event.
LEMMA InvPrune ==
  ASSUME IInv, NEW i \in 1 .. Len(feed), Prune(i)
  PROVE  IInv'
<1>1. TypeOK /\ Len(feed) \in Nat /\ ConnShape /\ PruneShape /\ NoEventLost /\ conn \in ConnRow
  BY TypesOf
<1>2. /\ UNCHANGED <<dir, feed, ds, refs, link, conn, wk, settled, covered, refused, orphaned, contested, skipped>>
      /\ pruned' = pruned \cup {i} /\ missed \subseteq missed'
      /\ missed' = IF conn.backfill = "done" /\ i <= conn.cursor THEN missed ELSE missed \cup {i}
  BY DEF Prune, downstream
<1>3. faults' \in 0 .. MaxFaults
  BY <1>1, LimitAssumption DEF Prune, TypeOK
<1>4. TypeOK'
  <2>1. pruned' \subseteq Nat /\ missed' \subseteq Nat
    BY <1>1, <1>2 DEF TypeOK
  <2> QED BY <1>1, <1>2, <1>3, <2>1 DEF TypeOK
<1>5. ConnShape'
  BY <1>1, <1>2 DEF ConnShape
<1>6. NoEventLost'
  BY <1>1, <1>2 DEF NoEventLost
<1>7. PruneShape'
  BY <1>1, <1>2 DEF PruneShape
<1>8. ASSUME NEW v \in Workers PROVE PassShape(v)' /\ TailShape(v)'
  BY <1>1, <1>2, OtherKept
<1> QED BY <1>4, <1>5, <1>6, <1>7, <1>8 DEF IInv

LEMMA InvInit == Init => IInv
<1> SUFFICES ASSUME Init PROVE IInv
  OBVIOUS
<1>1. Idle \in WorkerState /\ Idle.pc = "idle"
  BY DEF Idle, WorkerState
<1>2. conn \in ConnRow /\ conn.backfill = "pending"
  BY DEF Init, ConnRow
<1>3. feed \in Seq([subject : Subjects, departing : BOOLEAN]) /\ Len(feed) = 0
  BY DEF Init
<1>4. dir \in [Subjects -> 0 .. MaxEvents + 1] /\ ds \in [Subjects -> 0 .. MaxEvents + 1]
  BY LimitAssumption DEF Init
<1>5. TypeOK
  BY <1>1, <1>2, <1>3, <1>4, LimitAssumption DEF Init, TypeOK
<1>6. ConnShape /\ NoEventLost /\ PruneShape
  BY <1>2, <1>3, LimitAssumption DEF ConnShape, NoEventLost, PruneShape, Init
<1>7. ASSUME NEW w \in Workers PROVE PassShape(w) /\ TailShape(w)
  <2>1. wk[w].pc = "idle"
    BY <1>1 DEF Init
  <2> QED BY <2>1 DEF PassShape, TailShape, Handling
<1> QED BY <1>5, <1>6, <1>7 DEF IInv

LEMMA InvChange ==
  ASSUME IInv, NEW s \in Subjects, Change(s)
  PROVE  IInv'
<1>1. PICK n \in 0 .. MaxEvents + 1 : n = Len(feed) + 2
  BY TypesOf, LimitAssumption DEF Change
<1> QED BY <1>1, InvEvent DEF Change, downstream

LEMMA InvDepart ==
  ASSUME IInv, NEW s \in Subjects, NEW d \in BOOLEAN, Depart(s, d)
  PROVE  IInv'
<1>1. 0 \in 0 .. MaxEvents + 1
  BY LimitAssumption
<1> QED BY <1>1, InvEvent DEF Depart, downstream

LEMMA InvStep == IInv /\ [Next]_vars => IInv'
<1> SUFFICES ASSUME IInv, [Next]_vars PROVE IInv'
  OBVIOUS
<1>1. ASSUME NEW w \in Workers, Step(w) PROVE IInv'
  BY <1>1, InvTick, InvBegin, InvDue, InvGet, InvReadPage, InvHandover, InvDecide, InvPush,
     InvRecordLink, InvCheckpoint, InvProgress, InvRefusal, InvFailure DEF Step
<1>2. CASE UNCHANGED vars
  <2>1. UNCHANGED <<dir, feed, pruned, ds, refs, link, conn, wk, faults, settled, covered, refused, orphaned,
                  contested, skipped, missed>>
    BY <1>2 DEF vars, history, source, downstream
  <2>2. TypeOK' /\ ConnShape' /\ NoEventLost' /\ PruneShape'
    BY <2>1 DEF IInv, TypeOK, ConnShape, NoEventLost, PruneShape
  <2>3. ASSUME NEW v \in Workers PROVE PassShape(v)' /\ TailShape(v)'
    BY <2>1, TypesOf, OtherKept
  <2> QED BY <2>2, <2>3 DEF IInv
<1> QED BY <1>1, <1>2, InvChange, InvDepart, InvPause, InvPrune, InvCrash DEF Next

\* Every state has its type, with any number of schedulers.
THEOREM TypeCorrect == Spec => []TypeOK
<1>1. IInv => TypeOK
  BY DEF IInv
<1> QED BY <1>1, InvInit, InvStep, PTL DEF Spec

\* No event is lost between the backfill's position and the cursor, however
\* many schedulers run their passes and however these interleave, fail, crash
\* and lose the compare-and-set of advance.
THEOREM NoEventIsLost == Spec => []NoEventLost
<1>1. IInv => NoEventLost
  BY DEF IInv
<1> QED BY <1>1, InvInit, InvStep, PTL DEF Spec


-----------------------------------------------------------------------------
(* The cursor.                                                             *)

LEMMA CursorStep ==
  ASSUME IInv, Next, conn.backfill = "done"
  PROVE  conn'.backfill = "done" /\ conn'.cursor >= conn.cursor
<1>1. conn \in ConnRow /\ wk \in [Workers -> WorkerState] /\ ConnShape /\ Len(feed) \in Nat
  BY TypesOf
<1>2. conn.cursor \in Nat
  BY <1>1 DEF ConnShape
<1>3. SUFFICES ASSUME conn' # conn, ~RowKept PROVE conn'.backfill = "done" /\ conn'.cursor >= conn.cursor
  BY <1>2 DEF RowKept
<1>4. ASSUME NEW w \in Workers, Step(w) PROVE conn'.backfill = "done" /\ conn'.cursor >= conn.cursor
  <2>1. CASE BeginBackfill(w) \/ Handover(w)
    BY <1>1, <1>3, <2>1 DEF BeginBackfill, Handover, WorkerState
  <2>2. CASE Checkpoint(w)
    <3>1. MayAdvance(w) /\ conn' = [conn EXCEPT !.cursor = wk[w].version, !.failures = 0, !.paused = FALSE]
      BY <1>3, <2>2 DEF Checkpoint
    <3>2. conn'.backfill = conn.backfill /\ conn'.cursor = wk[w].version
      BY <1>1, <3>1 DEF ConnRow
    <3>3. PassShape(w) /\ TailShape(w) /\ wk[w].pc = "checkpoint"
      BY <2>2, TypesOf DEF Checkpoint
    <3>4. wk[w].version \in wk[w].base .. Len(feed) /\ wk[w].base = conn.cursor
      BY <3>1, <3>3 DEF PassShape, TailShape, MayAdvance
    <3> QED BY <1>1, <1>2, <3>2, <3>4
  <2>3. CASE RecordProgress(w)
    BY <1>3, <2>3 DEF RecordProgress
  <2>4. CASE RecordRefusal(w)
    BY <1>1, <1>3, <2>4, FailedIs DEF RecordRefusal
  <2>5. CASE RecordFailure(w)
    <3>1. wk[w].pause \in BOOLEAN
      BY <1>1 DEF WorkerState
    <3> QED BY <1>1, <1>3, <2>5, <3>1, FailedIs DEF RecordFailure
  <2> QED BY <1>3, <1>4, <2>1, <2>2, <2>3, <2>4, <2>5
          DEF Step, Tick, Due, Get, ReadPage, Decide, Push, RecordLink
<1>5. CASE PauseLapses
  BY <1>1, <1>3, <1>5, PauseIs
<1> QED BY <1>3, <1>4, <1>5 DEF Next, Change, Depart, Prune, Crash

\* The cursor of a connection that tails never goes back, however many schedulers
\* checkpoint it and in whatever order.
THEOREM CursorMonotone == Spec => CursorNeverBack
<1>1. IInv /\ [Next]_vars =>
        [conn.backfill = "done" => conn'.backfill = "done" /\ conn'.cursor >= conn.cursor]_vars
  BY CursorStep
<1> QED BY <1>1, InvInit, InvStep, PTL DEF Spec, CursorNeverBack

-----------------------------------------------------------------------------
(* The backfill, for any number of schedulers.                             *)

\* What a step may do to the sets an enumerated subject is in.
Grows == /\ covered \subseteq covered' /\ skipped \subseteq skipped'
         /\ \A s \in Subjects : dir'[s] = 1 => dir[s] = 1

LEMMA EnumeratedKept ==
  ASSUME Grows, NEW s \in Subjects, Enumerated(s)
  PROVE  Enumerated(s)'
BY DEF Grows, Enumerated

LEMMA CollectionIs == \A coll : Collection(coll) \subseteq Subjects
BY SubjectsAreNat DEF Collection

\* A pass is not disturbed by the steps of the others.
LEMMA BackfillOther ==
  ASSUME NEW v \in Workers, wk'[v] = wk[v], BackfillShape(v), Grows
  PROVE  BackfillShape(v)'
<1>1. PICK own : own = Collection(wk[v].coll)
  OBVIOUS
<1>2. own \subseteq Subjects /\ Collection(wk[v].coll)' = own
  BY <1>1, CollectionIs DEF Collection
<1>3. \A s \in own : Enumerated(s) => Enumerated(s)'
  BY <1>2, EnumeratedKept
<1>4. Item(v)' = Item(v) /\ covered \subseteq covered'
  BY DEF Item, Grows
<1> HIDE DEF Grows
<1> QED BY <1>1, <1>2, <1>3, <1>4 DEF BackfillShape

LEMMA RowShapeKept ==
  ASSUME RowShape, Grows, conn'.backfill = conn.backfill, conn'.after = conn.after
  PROVE  RowShape'
<1>1. \A s \in Subjects : Enumerated(s) => Enumerated(s)'
  BY EnumeratedKept
<1> QED BY <1>1, SubjectsAreNat DEF RowShape

\* A worker that is not in the middle of an enumeration.
LEMMA NotEnumerating ==
  ASSUME NEW w \in Workers, wk'[w].pc \notin {"handover", "progress", "refusal"},
         wk'[w].kind = "tail" \/ wk'[w].pc \notin Handling \cup {"page"}
  PROVE  BackfillShape(w)'
BY DEF BackfillShape, Handling

BackfillPart == RowShape /\ \A w \in Workers : BackfillShape(w)

LEMMA BackfillFrame ==
  ASSUME BackfillPart, NEW w \in Workers, Only(w), Grows, RowShape', BackfillShape(w)'
  PROVE  BackfillPart'
<1>1. ASSUME NEW v \in Workers PROVE BackfillShape(v)'
  BY BackfillOther DEF BackfillPart, Only
<1> QED BY <1>1 DEF BackfillPart

LEMMA BackfillTick ==
  ASSUME IInv, BackfillPart, NEW w \in Workers, Tick(w)
  PROVE  BackfillPart'
<1>1. wk \in [Workers -> WorkerState] /\ Len(feed) \in Nat
  BY TypesOf
<1>2. Grows /\ conn' = conn
  BY DEF Tick, Grows, source, history
<1>3. Only(w) /\ wk'[w].pc \in {"starting", "due"}
  BY <1>1, StartIs, GotoIs DEF Tick, PCs
<1>4. BackfillShape(w)'
  BY <1>3, NotEnumerating DEF Handling
<1> QED BY <1>2, <1>3, <1>4, RowShapeKept, BackfillFrame DEF BackfillPart

LEMMA BackfillBegin ==
  ASSUME IInv, BackfillPart, NEW w \in Workers, BeginBackfill(w)
  PROVE  BackfillPart'
<1>1. wk \in [Workers -> WorkerState] /\ conn \in ConnRow
  BY TypesOf
<1>2. Grows
  BY DEF BeginBackfill, Grows, source, history
<1>3. Only(w) /\ wk'[w].pc = "due"
  BY <1>1, GotoIs DEF BeginBackfill, PCs
<1>4. BackfillShape(w)'
  BY <1>3, NotEnumerating DEF Handling
<1>5. CASE conn.backfill # "pending"
  BY <1>2, <1>3, <1>4, <1>5, RowShapeKept, BackfillFrame DEF BackfillPart, BeginBackfill
<1>6. CASE conn.backfill = "pending"
  <2>1. conn'.backfill = "users" /\ conn'.after = 0
    BY <1>1, <1>6 DEF BeginBackfill, ConnRow, BackfillPart, RowShape
  <2>2. \A s \in Users : ~(s <= 0)
    BY SubjectsAreNat
  <2>3. RowShape'
    BY <2>1, <2>2 DEF RowShape
  <2> QED BY <1>2, <1>3, <1>4, <2>3, BackfillFrame
<1> QED BY <1>5, <1>6

LEMMA BackfillDue ==
  ASSUME IInv, BackfillPart, NEW w \in Workers, Due(w)
  PROVE  BackfillPart'
<1>1. wk \in [Workers -> WorkerState]
  BY TypesOf
<1>2. Grows /\ conn' = conn
  BY DEF Due, Grows, source, history
<1>3. Only(w) /\ wk'[w].pc \in {"idle", "get"}
  BY <1>1, ReturnIs, DueIs DEF Due
<1>4. BackfillShape(w)'
  BY <1>3, NotEnumerating DEF Handling
<1> QED BY <1>2, <1>3, <1>4, RowShapeKept, BackfillFrame DEF BackfillPart

\* The outcomes of Get and of ReadPage for the pass.
LEMMA GetMoves ==
  ASSUME IInv, NEW w \in Workers, Get(w)
  PROVE  /\ Only(w)
         /\ \/ wk'[w].pc \in {"idle", "fail"}
            \/ wk'[w].pc = "page" /\ wk'[w].kind = "tail"
            \/ /\ wk'[w].pc = "page" /\ conn.backfill \in {"users", "groups"}
               /\ wk'[w].base = conn.after /\ wk'[w].coll = conn.backfill
<1>1. wk \in [Workers -> WorkerState] /\ conn \in ConnRow
  BY TypesOf
<1>2. /\ conn.cursor \in Nat \cup {NULL} /\ conn.after \in Nat \cup {NULL} /\ conn.failures \in Nat
  <2>1. conn.cursor \in Nat \cup {NULL} /\ conn.after \in Subjects \cup {0} /\ conn.failures \in Nat
    BY <1>1 DEF ConnRow
  <2>2. conn.after \in Nat
    BY <2>1, PositionIsNat
  <2> QED BY <2>1, <2>2
<1>3. CASE Return(w) \/ Fail(w, FALSE)
  BY <1>1, <1>3, ReturnIs, FailIs
<1>4. CASE /\ wk[w].kind = "tail"
           /\ wk' = [wk EXCEPT ![w].pc = "page", ![w].base = conn.cursor, ![w].failures = conn.failures]
  <2>1. Only(w) /\ wk'[w].pc = "page" /\ wk'[w].kind = wk[w].kind /\ wk'[w].base = conn.cursor
    BY <1>1, <1>2, <1>4, GetTailIs
  <2> QED BY <1>4, <2>1
<1>5. CASE /\ conn.backfill \in {"users", "groups"}
           /\ wk' = [wk EXCEPT ![w].pc = "page", ![w].base = conn.after, ![w].coll = conn.backfill,
                               ![w].failures = conn.failures]
  <2>1. /\ Only(w) /\ wk'[w].pc = "page" /\ wk'[w].kind = wk[w].kind /\ wk'[w].base = conn.after
        /\ wk'[w].coll = conn.backfill
    BY <1>1, <1>2, <1>5, GetBackfillIs, ZenonT(60)
  <2> QED BY <1>5, <2>1
<1> QED BY <1>3, <1>4, <1>5 DEF Get

LEMMA PageMoves ==
  ASSUME IInv, NEW w \in Workers, ReadPage(w)
  PROVE  /\ Only(w)
         /\ \/ wk'[w].pc \in {"idle", "fail"}
            \/ /\ Page(w) = {} /\ wk'[w].pc = "handover" /\ wk[w].kind = "backfill"
               /\ wk'[w].coll = wk[w].coll
            \/ /\ Page(w) # {} /\ wk'[w].pc = "decide" /\ wk'[w].kind = wk[w].kind
               /\ wk'[w].coll = wk[w].coll /\ wk'[w].todo = Page(w)
<1>1. wk \in [Workers -> WorkerState] /\ wk[w].kind \in {"tail", "backfill"} /\ Len(feed) \in Nat
  BY TypesOf DEF WorkerState
<1>2. CASE Return(w) \/ Fail(w, FALSE)
  BY <1>1, <1>2, ReturnIs, FailIs
<1>3. CASE Page(w) = {} /\ wk[w].kind = "backfill" /\ Goto(w, "handover")
  <2>1. Only(w) /\ wk'[w].pc = "handover" /\ SamePass(w)
    BY <1>1, <1>3, GotoIs DEF PCs
  <2> QED BY <1>3, <2>1 DEF SamePass
<1>4. CASE Page(w) # {} /\ wk' = [wk EXCEPT ![w].pc = "decide", ![w].todo = Page(w)]
  <2>1. Page(w) \subseteq 1 .. Len(feed) \/ Page(w) \subseteq Subjects
    BY CollectionIs DEF Page, Lowest
  <2>2. PICK T \in SUBSET Nat : T = Page(w)
    BY <1>1, <2>1, SubjectsAreNat
  <2>3. Only(w) /\ wk'[w].pc = "decide" /\ SamePass(w) /\ wk'[w].todo = T
    BY <1>1, <1>4, <2>2, PageIs
  <2> QED BY <1>4, <2>2, <2>3 DEF SamePass
<1> QED BY <1>2, <1>3, <1>4 DEF ReadPage

\* The pass starts where the row says, and the row says what is enumerated.
LEMMA BackfillGet ==
  ASSUME IInv, BackfillPart, NEW w \in Workers, Get(w)
  PROVE  BackfillPart'
<1>1. Only(w)
  BY GetMoves
<1>2. Grows /\ conn' = conn
  BY DEF Get, Grows, source, history
<1>3. CASE wk'[w].pc \in {"idle", "fail"} \/ (wk'[w].pc = "page" /\ wk'[w].kind = "tail")
  <2>1. BackfillShape(w)'
    BY <1>3, NotEnumerating DEF Handling
  <2> QED BY <1>1, <1>2, <2>1, RowShapeKept, BackfillFrame DEF BackfillPart
<1>4. CASE /\ wk'[w].pc = "page" /\ conn.backfill \in {"users", "groups"}
           /\ wk'[w].base = conn.after /\ wk'[w].coll = conn.backfill
  <2>2. \A s \in Collection(conn.backfill) : s <= conn.after => Enumerated(s)
    BY <1>4, SubjectsAreNat DEF BackfillPart, RowShape, Collection
  <2>3. \A s \in Collection(conn.backfill) : s <= conn.after => Enumerated(s)'
    BY <1>2, <2>2, CollectionIs, EnumeratedKept
  <2>4. BackfillShape(w)'
    BY <1>4, <2>3 DEF BackfillShape, Handling, Collection
  <2> QED BY <1>1, <1>2, <2>4, RowShapeKept, BackfillFrame DEF BackfillPart
<1> QED BY <1>3, <1>4, GetMoves

\* A page of the enumeration leaves nobody out.
LEMMA BackfillReadPage ==
  ASSUME IInv, BackfillPart, NEW w \in Workers, ReadPage(w)
  PROVE  BackfillPart'
<1>1. Only(w) /\ wk \in [Workers -> WorkerState] /\ wk[w].kind \in {"tail", "backfill"}
  BY PageMoves, TypesOf DEF WorkerState
<1>2. Grows /\ conn' = conn /\ wk[w].pc = "page" /\ BackfillShape(w)
  BY DEF ReadPage, Grows, source, history, BackfillPart
<1>3. SUFFICES BackfillShape(w)'
  BY <1>1, <1>2, RowShapeKept, BackfillFrame DEF BackfillPart
<1>4. CASE wk'[w].pc \in {"idle", "fail"}
  BY <1>4, NotEnumerating DEF Handling
<1>5. CASE wk[w].kind = "tail" /\ wk'[w].pc = "decide" /\ wk'[w].kind = wk[w].kind
  BY <1>5, NotEnumerating
<1>6. CASE wk[w].kind = "backfill" /\ wk'[w].pc \in {"handover", "decide"}
  <2> DEFINE S == {s \in Collection(wk[w].coll) : dir[s] # 0 /\ s > wk[w].base}
  <2>1. S \in SUBSET Nat /\ Page(w) = Lowest(S, Limit) /\ Limit \in Nat \ {0}
    BY <1>6, CollectionIs, SubjectsAreNat, LimitAssumption DEF Page
  <2>2. /\ Page(w) \subseteq S /\ (S # {} => Page(w) # {})
        /\ \A i \in S, j \in Page(w) : i <= j => i \in Page(w)
    <3>1. PICK T \in SUBSET Nat : T = S
      BY <2>1
    <3>2. /\ Lowest(T, Limit) \subseteq T /\ (T # {} => Least(T) \in Lowest(T, Limit))
          /\ \A i \in T, j \in Lowest(T, Limit) : i <= j => i \in Lowest(T, Limit)
      BY <2>1, LowestIs
    <3> HIDE DEF S
    <3> QED BY <2>1, <3>1, <3>2
  <2>3. wk[w].base \in Nat \cup {NULL} /\ Collection(wk[w].coll) \subseteq Nat
    BY <1>1, CollectionIs, SubjectsAreNat DEF WorkerState
  <2>4. \A s \in Collection(wk[w].coll) : s \in S \/ Enumerated(s)
    <3>1. \A s \in Collection(wk[w].coll) : s <= wk[w].base => Enumerated(s)
      BY <1>2, <1>6 DEF BackfillShape
    <3>2. \A s \in Collection(wk[w].coll) : s <= wk[w].base \/ s > wk[w].base
      BY <2>3
    <3> QED BY <3>1, <3>2 DEF Enumerated
  <2>5. \A s \in Collection(wk[w].coll) : s \in S \/ Enumerated(s)'
    BY <1>2, <2>4, CollectionIs, EnumeratedKept
  <2>6. CASE Page(w) = {}
    <3>1. wk'[w].pc = "handover" /\ wk'[w].coll = wk[w].coll
      BY <1>6, <2>6, PageMoves
    <3> HIDE DEF S
    <3> QED BY <2>2, <2>5, <2>6, <3>1 DEF BackfillShape, Handling, Collection
  <2>7. CASE Page(w) # {}
    <3>1. wk'[w].pc = "decide" /\ wk'[w].coll = wk[w].coll /\ wk'[w].todo = Page(w)
      BY <1>6, <2>7, PageMoves
    <3>2. Page(w) \subseteq Collection(wk[w].coll) /\ Page(w) \subseteq Nat
      BY <2>1, <2>2
    <3> HIDE DEF S
    <3>3. \A j \in Page(w) : \A s \in Collection(wk[w].coll) : s < j => s \in Page(w) \/ Enumerated(s)'
      <4>1. \A j \in Page(w) : \A s \in Collection(wk[w].coll) : s < j => s <= j
        BY <2>3, <3>2
      <4> QED BY <2>2, <2>5, <4>1
    <3> QED BY <3>1, <3>2, <3>3 DEF BackfillShape, Handling, Collection
  <2> QED BY <2>6, <2>7
<1> QED BY <1>1, <1>4, <1>5, <1>6, PageMoves

\* A collection is handed over when all of it is enumerated.
LEMMA BackfillHandover ==
  ASSUME IInv, BackfillPart, NEW w \in Workers, Handover(w)
  PROVE  BackfillPart'
<1>1. wk \in [Workers -> WorkerState] /\ conn \in ConnRow /\ wk[w].coll \in {"users", "groups"}
  BY TypesOf DEF WorkerState
<1>2. Grows /\ wk[w].pc = "handover" /\ RowShape
  BY DEF Handover, Grows, source, history, BackfillPart
<1>3. \A s \in Collection(wk[w].coll) : Enumerated(s)
  BY <1>2 DEF BackfillPart, BackfillShape
<1>4. \A s \in Subjects : Enumerated(s) => Enumerated(s)'
  BY <1>2, EnumeratedKept
<1>5. CASE conn' = conn /\ Fail(w, TRUE)
  <2>1. Only(w) /\ BackfillShape(w)'
    BY <1>1, <1>5, FailIs, NotEnumerating DEF Handling
  <2> QED BY <1>2, <1>5, <2>1, RowShapeKept, BackfillFrame DEF BackfillPart
<1>6. CASE /\ conn.backfill = wk[w].coll /\ Return(w)
           /\ conn' = IF wk[w].coll = "users"
                      THEN [conn EXCEPT !.backfill = "groups", !.after = 0]
                      ELSE [conn EXCEPT !.backfill = "done", !.after = 0, !.cursor = conn.from]
  <2>1. Only(w) /\ BackfillShape(w)'
    BY <1>1, <1>6, ReturnIs, NotEnumerating DEF Handling
  <2>2. CASE wk[w].coll = "users"
    <3>1. conn'.backfill = "groups" /\ conn'.after = 0
      BY <1>1, <1>6, <2>2 DEF ConnRow
    <3>2. \A s \in Subjects : ~(s <= 0)
      BY SubjectsAreNat
    <3>3. \A s \in Users : Enumerated(s)'
      BY <1>3, <1>4, <2>2, SubjectsAreNat DEF Collection
    <3> QED BY <3>1, <3>2, <3>3, <1>2, <2>1, BackfillFrame DEF RowShape
  <2>3. CASE wk[w].coll = "groups"
    <3>1. conn'.backfill = "done" /\ conn.backfill = "groups"
      BY <1>1, <1>6, <2>3 DEF ConnRow
    <3>2. \A s \in Subjects : Enumerated(s)
      <4>1. \A s \in Groups : Enumerated(s)
        BY <1>3, <2>3 DEF Collection
      <4>2. \A s \in Users : Enumerated(s)
        BY <1>2, <3>1, SubjectsAreNat DEF RowShape
      <4> QED BY <4>1, <4>2 DEF Subjects
    <3>3. \A s \in Subjects : Enumerated(s)'
      BY <1>4, <3>2
    <3>4. RowShape'
      BY <3>1, <3>3 DEF RowShape
    <3> QED BY <3>4, <1>2, <2>1, BackfillFrame
  <2> QED BY <1>1, <2>2, <2>3
<1> QED BY <1>5, <1>6 DEF Handover

\* A pass keeps the items of its page, or ends one of them.
LEMMA BackfillSameItems ==
  ASSUME NEW w \in Workers, BackfillShape(w), Grows, wk[w].pc \in Handling,
         wk'[w].pc \in Handling, SamePass(w), wk'[w].todo = wk[w].todo
  PROVE  BackfillShape(w)'
<1>1. CASE wk[w].kind # "backfill"
  BY <1>1 DEF BackfillShape, SamePass, Handling
<1>2. CASE wk[w].kind = "backfill"
  <2>1. PICK own : own = Collection(wk[w].coll)
    OBVIOUS
  <2>2. own \subseteq Subjects /\ Collection(wk[w].coll)' = own
    BY <2>1, CollectionIs DEF Collection, SamePass
  <2>3. \A s \in own : Enumerated(s) => Enumerated(s)'
    BY <2>2, EnumeratedKept
  <2>4. /\ wk[w].todo \subseteq own
        /\ \A j \in wk[w].todo : \A s \in own : s < j => s \in wk[w].todo \/ Enumerated(s)
    BY <1>2, <2>1 DEF BackfillShape
  <2> QED BY <2>1, <2>2, <2>3, <2>4 DEF BackfillShape, Handling
<1> QED BY <1>1, <1>2

LEMMA BackfillFinish ==
  ASSUME IInv, NEW w \in Workers, BackfillShape(w), NEW b \in BOOLEAN, wk[w].pc \in Handling,
         Finish(w, b), dir' = dir, skipped' = skipped
  PROVE  Only(w) /\ Grows /\ BackfillShape(w)'
<1>1. wk \in [Workers -> WorkerState] /\ wk[w].todo # {}
  BY TypesOf, Handled
<1>2. /\ Only(w) /\ SamePass(w)
      /\ \/ /\ wk[w].kind = "tail" /\ covered' = covered
            /\ wk'[w].pc \in {"checkpoint", "decide"}
         \/ /\ wk[w].kind = "backfill" /\ wk'[w].pc = "progress" /\ wk'[w].todo = wk[w].todo
            /\ covered' = covered \cup {Item(w)}
  BY <1>1, FinishIs
<1>3. Grows
  BY <1>2 DEF Grows
<1>4. CASE wk[w].kind = "tail"
  BY <1>2, <1>3, <1>4, NotEnumerating DEF SamePass, Handling
<1>5. CASE wk[w].kind = "backfill"
  <2>1. PICK own : own = Collection(wk[w].coll)
    OBVIOUS
  <2>2. own \subseteq Subjects /\ Collection(wk[w].coll)' = own
    BY <1>2, <2>1, CollectionIs DEF Collection, SamePass
  <2>3. \A s \in own : Enumerated(s) => Enumerated(s)'
    BY <1>3, <2>2, EnumeratedKept
  <2>4. /\ wk[w].todo \subseteq own
        /\ \A j \in wk[w].todo : \A s \in own : s < j => s \in wk[w].todo \/ Enumerated(s)
    BY <1>5, <2>1 DEF BackfillShape
  <2>5. Item(w)' = Item(w) /\ Item(w) \in covered' /\ wk'[w].pc = "progress"
    BY <1>2, <1>5 DEF Item
  <2> QED BY <1>2, <1>3, <1>5, <2>1, <2>2, <2>3, <2>4, <2>5 DEF BackfillShape, Handling, SamePass
<1> QED BY <1>2, <1>4, <1>5

LEMMA BackfillDecide ==
  ASSUME IInv, BackfillPart, NEW w \in Workers, Decide(w)
  PROVE  BackfillPart'
<1>1. /\ wk \in [Workers -> WorkerState] /\ BackfillShape(w) /\ RowShape /\ wk[w].pc = "decide"
      /\ wk[w].pc \in Handling /\ dir' = dir /\ skipped' = skipped /\ conn' = conn
  BY TypesOf DEF Decide, BackfillPart, source, Handling
<1>2. CASE Finish(w, FALSE)
  <2>1. Only(w) /\ Grows /\ BackfillShape(w)'
    BY <1>1, <1>2, BackfillFinish
  <2> QED BY <1>1, <2>1, RowShapeKept, BackfillFrame
<1>3. CASE Decision(w) # "skip"
  <2>1. Subject(w) \in Subjects
    BY <1>1, Handled
  <2>2. PICK a \in {"converge", "withdraw"}, n \in Nat, U \in SUBSET Users :
          a = Decision(w) /\ n = dir[Subject(w)] /\ U = Named(Subject(w))
    <3>1. Decision(w) \in {"converge", "withdraw"}
      BY <1>3 DEF Decision
    <3>2. dir[Subject(w)] \in Nat
      BY <2>1, TypesOf, LimitAssumption DEF TypeOK
    <3>3. Named(Subject(w)) \in SUBSET Users
      BY MembersAssumption DEF Named
    <3> QED BY <3>1, <3>2, <3>3
  <2>3. wk' = [wk EXCEPT ![w] = [wk[w] EXCEPT !.pc = "push", !.act = a, !.version = n, !.named = U]]
    BY <1>3, <2>2 DEF Decide
  <2>4. Only(w) /\ wk'[w].pc = "push" /\ SamePass(w) /\ wk'[w].todo = wk[w].todo
    BY <1>1, <2>3, PushingIs
  <2>5. Grows
    BY <1>1, <1>3 DEF Decide, Grows
  <2>6. BackfillShape(w)'
    BY <1>1, <2>4, <2>5, BackfillSameItems DEF Handling
  <2> QED BY <1>1, <2>4, <2>5, <2>6, RowShapeKept, BackfillFrame
<1> QED BY <1>2, <1>3 DEF Decide

LEMMA BackfillPush ==
  ASSUME IInv, BackfillPart, NEW w \in Workers, Push(w)
  PROVE  BackfillPart'
<1>1. /\ wk \in [Workers -> WorkerState] /\ BackfillShape(w) /\ RowShape /\ wk[w].pc = "push"
      /\ wk[w].pc \in Handling /\ dir' = dir /\ skipped' = skipped /\ conn' = conn
  BY TypesOf DEF Push, BackfillPart, source, Handling
<1>2. CASE Finish(w, TRUE)
  <2>1. Only(w) /\ Grows /\ BackfillShape(w)'
    BY <1>1, <1>2, BackfillFinish
  <2> QED BY <1>1, <2>1, RowShapeKept, BackfillFrame
<1>3. CASE Goto(w, "link") /\ covered' = covered
  <2>1. Only(w) /\ wk'[w].pc = "link" /\ SamePass(w) /\ SameItem(w)
    BY <1>1, <1>3, GotoIs DEF PCs
  <2>2. Grows
    BY <1>1, <1>3 DEF Grows
  <2>3. BackfillShape(w)'
    BY <1>1, <2>1, <2>2, BackfillSameItems DEF Handling, SameItem
  <2> QED BY <1>1, <2>1, <2>2, <2>3, RowShapeKept, BackfillFrame
<1>4. CASE (\E p \in BOOLEAN : Fail(w, p)) /\ covered' = covered
  <2>1. Only(w) /\ BackfillShape(w)'
    BY <1>1, <1>4, FailIs, NotEnumerating DEF Handling
  <2>2. Grows
    BY <1>1, <1>4 DEF Grows
  <2> QED BY <1>1, <2>1, <2>2, RowShapeKept, BackfillFrame
<1> QED BY <1>2, <1>3, <1>4 DEF Push

LEMMA BackfillLink ==
  ASSUME IInv, BackfillPart, NEW w \in Workers, RecordLink(w)
  PROVE  BackfillPart'
<1>1. /\ BackfillShape(w) /\ RowShape /\ wk[w].pc \in Handling
      /\ dir' = dir /\ skipped' = skipped /\ conn' = conn /\ Finish(w, FALSE)
  BY DEF RecordLink, BackfillPart, source, Handling
<1>2. Only(w) /\ Grows /\ BackfillShape(w)'
  BY <1>1, BackfillFinish
<1> QED BY <1>1, <1>2, RowShapeKept, BackfillFrame

LEMMA BackfillCheckpoint ==
  ASSUME IInv, BackfillPart, NEW w \in Workers, Checkpoint(w)
  PROVE  BackfillPart'
<1>1. wk \in [Workers -> WorkerState] /\ conn \in ConnRow
  BY TypesOf
<1>2. Grows
  BY DEF Checkpoint, Grows, source, history
<1>3. Only(w) /\ BackfillShape(w)'
  BY <1>1, ReturnIs, NotEnumerating DEF Checkpoint, Handling
<1>4. conn'.backfill = conn.backfill /\ conn'.after = conn.after
  BY <1>1 DEF Checkpoint, ConnRow
<1> QED BY <1>2, <1>3, <1>4, RowShapeKept, BackfillFrame DEF BackfillPart

\* Everybody of the collection up to the item of a pass is enumerated.
LEMMA UpToItem ==
  ASSUME IInv, NEW w \in Workers, BackfillShape(w), wk[w].pc \in {"progress", "refusal"}
  PROVE  /\ wk[w].todo # {} /\ wk[w].todo \subseteq Collection(wk[w].coll) /\ Item(w) \in Subjects
         /\ \A s \in Collection(wk[w].coll) : s <= Item(w) => Enumerated(s)
<1>1. wk \in [Workers -> WorkerState] /\ PassShape(w)
  BY TypesOf
<1>2. wk[w].todo # {} /\ wk[w].kind = "backfill"
  BY <1>1 DEF PassShape
<1>3. /\ wk[w].todo \subseteq Collection(wk[w].coll) /\ Item(w) \in covered
      /\ \A j \in wk[w].todo : \A s \in Collection(wk[w].coll) : s < j => s \in wk[w].todo \/ Enumerated(s)
  BY <1>2 DEF BackfillShape
<1>4. Item(w) \in wk[w].todo /\ \A j \in wk[w].todo : Item(w) <= j
  BY <1>1, <1>2, ItemIs
<1>5. Collection(wk[w].coll) \subseteq Nat /\ Item(w) \in Subjects /\ Item(w) \in Nat
  BY <1>3, <1>4, CollectionIs, SubjectsAreNat
<1>6. ASSUME NEW s \in Collection(wk[w].coll), s <= Item(w) PROVE Enumerated(s)
  <2>1. CASE s = Item(w)
    BY <1>3, <2>1 DEF Enumerated
  <2>2. CASE s # Item(w)
    <3>1. s < Item(w) /\ ~(Item(w) <= s)
      BY <1>5, <1>6, <2>2
    <3> QED BY <1>3, <1>4, <3>1
  <2> QED BY <2>1, <2>2
<1> QED BY <1>2, <1>3, <1>5, <1>6

\* The pass goes on to the next subject of its page.
LEMMA BackfillNext ==
  ASSUME IInv, NEW w \in Workers, BackfillShape(w), wk[w].pc \in {"progress", "refusal"}, Grows,
         NEW f \in Nat, NextSubject(w, f)
  PROVE  Only(w) /\ BackfillShape(w)'
<1>1. wk \in [Workers -> WorkerState] /\ PassShape(w)
  BY TypesOf
<1>2. /\ Only(w)
      /\ \/ wk'[w].pc = "idle"
         \/ /\ wk'[w].pc = "decide" /\ SamePass(w) /\ wk'[w].todo = wk[w].todo \ {Item(w)}
  BY <1>1, NextIs
<1>3. CASE wk'[w].pc = "idle"
  BY <1>2, <1>3, NotEnumerating DEF Handling
<1>4. CASE wk'[w].pc = "decide" /\ SamePass(w) /\ wk'[w].todo = wk[w].todo \ {Item(w)}
  <2>1. PICK own : own = Collection(wk[w].coll)
    OBVIOUS
  <2>2. own \subseteq Subjects /\ Collection(wk[w].coll)' = own
    BY <1>4, <2>1, CollectionIs DEF Collection, SamePass
  <2>3. \A s \in own : Enumerated(s) => Enumerated(s)'
    BY <2>2, EnumeratedKept
  <2>4. /\ wk[w].todo \subseteq own /\ Item(w) \in covered
        /\ \A j \in wk[w].todo : \A s \in own : s < j => s \in wk[w].todo \/ Enumerated(s)
    BY <1>1, <2>1 DEF BackfillShape, PassShape
  <2>5. Enumerated(Item(w))
    BY <2>4 DEF Enumerated
  <2>6. PICK x : x = Item(w)
    OBVIOUS
  <2>7. PICK T : T = wk[w].todo \ {x}
    OBVIOUS
  <2>8. T \subseteq own /\ \A j \in T : \A s \in own : s < j => s \in T \/ Enumerated(s)'
    BY <2>3, <2>4, <2>5, <2>6, <2>7
  <2> QED BY <1>2, <1>4, <2>1, <2>2, <2>6, <2>7, <2>8 DEF BackfillShape, Handling
<1> QED BY <1>2, <1>3, <1>4

\* The position a pass writes covers its own collection up to there; what it writes
\* over the position of the other collection is the exception the model names.
LEMMA BackfillProgress ==
  ASSUME IInv, BackfillPart, NEW w \in Workers, RecordProgress(w)
  PROVE  BackfillPart'
<1>1. /\ wk \in [Workers -> WorkerState] /\ conn \in ConnRow /\ BackfillShape(w) /\ RowShape
      /\ wk[w].pc = "progress" /\ dir' = dir /\ covered' = covered
  BY TypesOf DEF RecordProgress, BackfillPart, source
<1>2. CASE conn' = conn /\ skipped' = skipped /\ Fail(w, TRUE)
  <2>1. Only(w) /\ BackfillShape(w)'
    BY <1>1, <1>2, FailIs, NotEnumerating DEF Handling
  <2>2. Grows
    BY <1>1, <1>2 DEF Grows
  <2> QED BY <1>1, <1>2, <2>1, <2>2, RowShapeKept, BackfillFrame
<1>3. CASE /\ conn.backfill \in {"users", "groups"}
           /\ conn' = [conn EXCEPT !.after = Item(w), !.failures = 0, !.paused = FALSE]
           /\ skipped' = IF conn.backfill = wk[w].coll THEN skipped
                         ELSE skipped \cup {s \in Collection(conn.backfill) : s <= Item(w)}
           /\ IF wk[w].refused THEN Goto(w, "refusal") ELSE NextSubject(w, 0)
  <2>1. Grows
    BY <1>1, <1>3 DEF Grows
  <2>2. PICK x \in Subjects : x = Item(w)
    BY <1>1, UpToItem
  <2>3. conn' \in ConnRow /\ conn'.backfill = conn.backfill /\ conn'.after = Item(w)
    BY <1>1, <1>3, <2>2, ProgressRowIs
  <2>4. \A s \in Collection(conn.backfill) : s <= Item(w) => Enumerated(s)'
    <3>1. CASE conn.backfill = wk[w].coll
      <4>1. \A s \in Collection(conn.backfill) : s <= Item(w) => Enumerated(s)
        BY <1>1, <3>1, UpToItem
      <4> QED BY <2>1, <4>1, CollectionIs, EnumeratedKept
    <3>2. CASE conn.backfill # wk[w].coll
      <4>1. \A s \in Collection(conn.backfill) : s <= Item(w) => s \in skipped'
        BY <1>3, <3>2
      <4> QED BY <4>1 DEF Enumerated
    <3> QED BY <3>1, <3>2
  <2>5. RowShape'
    <3>1. CASE conn.backfill = "users"
      BY <2>3, <2>4, <3>1 DEF RowShape, Collection
    <3>2. CASE conn.backfill = "groups"
      <4>1. \A s \in Users : Enumerated(s)'
        BY <1>1, <2>1, <3>2, SubjectsAreNat, EnumeratedKept DEF RowShape
      <4> QED BY <2>3, <2>4, <3>2, <4>1 DEF RowShape, Collection, Subjects
    <3> QED BY <1>3, <3>1, <3>2
  <2>6. Only(w) /\ BackfillShape(w)'
    <3>1. CASE NextSubject(w, 0)
      BY <1>1, <2>1, <3>1, BackfillNext
    <3>2. CASE Goto(w, "refusal")
      <4>1. Only(w) /\ wk'[w].pc = "refusal" /\ SamePass(w) /\ SameItem(w)
        BY <1>1, <3>2, GotoIs DEF PCs
      <4>2. PICK own : own = Collection(wk[w].coll)
        OBVIOUS
      <4>3. own \subseteq Subjects /\ Collection(wk[w].coll)' = own
        BY <4>1, <4>2, CollectionIs DEF Collection, SamePass
      <4>4. \A s \in own : Enumerated(s) => Enumerated(s)'
        BY <2>1, <4>3, EnumeratedKept
      <4>5. wk[w].kind = "backfill"
        BY <1>1, TypesOf DEF PassShape
      <4>6. /\ wk[w].todo \subseteq own /\ Item(w) \in covered
            /\ \A j \in wk[w].todo : \A s \in own : s < j => s \in wk[w].todo \/ Enumerated(s)
        BY <1>1, <4>2, <4>5 DEF BackfillShape
      <4>7. Item(w)' = Item(w) /\ wk'[w].todo = wk[w].todo
        BY <4>1 DEF Item, SameItem
      <4> QED BY <1>1, <4>1, <4>2, <4>3, <4>4, <4>6, <4>7 DEF BackfillShape, Handling
    <3> QED BY <1>3, <3>1, <3>2
  <2> QED BY <2>1, <2>5, <2>6, BackfillFrame
<1> QED BY <1>2, <1>3 DEF RecordProgress

LEMMA BackfillRefusal ==
  ASSUME IInv, BackfillPart, NEW w \in Workers, RecordRefusal(w)
  PROVE  BackfillPart'
<1>1. wk \in [Workers -> WorkerState] /\ conn \in ConnRow /\ BackfillShape(w) /\ wk[w].pc = "refusal"
  BY TypesOf DEF RecordRefusal, BackfillPart
<1>2. Grows
  BY DEF RecordRefusal, Grows, source, history
<1>3. PICK f \in Nat : f = wk[w].failures + 1
  BY <1>1 DEF WorkerState
<1>4. NextSubject(w, f)
  BY <1>3 DEF RecordRefusal
<1>5. Only(w) /\ BackfillShape(w)'
  BY <1>1, <1>2, <1>4, BackfillNext
<1>6. RowKept
  BY <1>1, FailedIs DEF RecordRefusal
<1> QED BY <1>2, <1>5, <1>6, RowShapeKept, BackfillFrame DEF BackfillPart, RowKept

LEMMA BackfillFailure ==
  ASSUME IInv, BackfillPart, NEW w \in Workers, RecordFailure(w)
  PROVE  BackfillPart'
<1>1. wk \in [Workers -> WorkerState] /\ conn \in ConnRow /\ wk[w].pause \in BOOLEAN
  BY TypesOf DEF WorkerState
<1>2. Grows
  BY DEF RecordFailure, Grows, source, history
<1>3. Only(w) /\ BackfillShape(w)'
  BY <1>1, ReturnIs, NotEnumerating DEF RecordFailure, Handling
<1>4. RowKept
  BY <1>1, FailedIs DEF RecordFailure
<1> QED BY <1>2, <1>3, <1>4, RowShapeKept, BackfillFrame DEF BackfillPart, RowKept

LEMMA BackfillCrash ==
  ASSUME IInv, BackfillPart, NEW w \in Workers, Crash(w)
  PROVE  BackfillPart'
<1>1. wk \in [Workers -> WorkerState] /\ conn' = conn
  BY TypesOf DEF Crash
<1>2. Grows
  BY DEF Crash, Grows, source
<1>3. Only(w) /\ BackfillShape(w)'
  BY <1>1, ReturnIs, NotEnumerating DEF Crash, Handling
<1> QED BY <1>1, <1>2, <1>3, RowShapeKept, BackfillFrame DEF BackfillPart

\* A change gives a subject a version above 1 and a departure takes it away, so
\* neither makes a new subject of the first enumeration.
LEMMA BackfillStill ==
  ASSUME BackfillPart, Grows, wk' = wk, conn'.backfill = conn.backfill, conn'.after = conn.after
  PROVE  BackfillPart'
<1>1. ASSUME NEW v \in Workers PROVE BackfillShape(v)'
  BY BackfillOther DEF BackfillPart
<1> QED BY <1>1, RowShapeKept DEF BackfillPart

LEMMA BackfillInit == Init => BackfillInv
<1> SUFFICES ASSUME Init PROVE BackfillInv
  OBVIOUS
<1>1. Idle.pc = "idle" /\ conn.backfill = "pending" /\ conn.after = 0
  BY DEF Init, Idle
<1>2. ASSUME NEW w \in Workers PROVE BackfillShape(w)
  BY <1>1 DEF Init, BackfillShape, Handling
<1> QED BY <1>1, <1>2, InvInit DEF BackfillInv, RowShape

LEMMA BackfillStep == BackfillInv /\ [Next]_vars => BackfillInv'
<1> SUFFICES ASSUME BackfillInv, [Next]_vars PROVE BackfillInv'
  OBVIOUS
<1>1. IInv /\ BackfillPart /\ IInv'
  BY InvStep DEF BackfillInv, BackfillPart
<1>2. SUFFICES BackfillPart'
  BY <1>1 DEF BackfillInv, BackfillPart
<1>3. dir \in [Subjects -> 0 .. MaxEvents + 1] /\ conn \in ConnRow /\ Len(feed) \in Nat
  BY <1>1, TypesOf DEF TypeOK
<1>4. ASSUME NEW w \in Workers, Step(w) PROVE BackfillPart'
  BY <1>1, <1>4, BackfillTick, BackfillBegin, BackfillDue, BackfillGet, BackfillReadPage,
     BackfillHandover, BackfillDecide, BackfillPush, BackfillLink, BackfillCheckpoint,
     BackfillProgress, BackfillRefusal, BackfillFailure DEF Step
<1>5. ASSUME NEW s \in Subjects, Change(s) PROVE BackfillPart'
  <2>1. Grows
    BY <1>3, <1>5 DEF Change, Grows, history
  <2> QED BY <1>1, <1>5, <2>1, BackfillStill DEF Change
<1>6. ASSUME NEW s \in Subjects, NEW d \in BOOLEAN, Depart(s, d) PROVE BackfillPart'
  <2>1. Grows
    BY <1>3, <1>6 DEF Depart, Grows, history
  <2> QED BY <1>1, <1>6, <2>1, BackfillStill DEF Depart
<1>7. ASSUME NEW i \in 1 .. Len(feed), Prune(i) PROVE BackfillPart'
  BY <1>1, <1>7, BackfillStill DEF Prune, Grows
<1>8. CASE PauseLapses
  BY <1>1, <1>3, <1>8, PauseIs, BackfillStill DEF PauseLapses, Grows, RowKept, source, history
<1>9. CASE UNCHANGED vars
  BY <1>1, <1>9, BackfillStill DEF vars, Grows, source, history
<1> QED BY <1>1, <1>4, <1>5, <1>6, <1>7, <1>8, <1>9, BackfillCrash DEF Next

\* The backfill skips nobody, however many schedulers run it and however their
\* passes interleave, but for the subjects below a position that a pass of the
\* other collection wrote over the row's.
THEOREM BackfillComplete == Spec => []BackfillSkipsNobody
<1>1. BackfillInv => BackfillSkipsNobody
  BY DEF BackfillInv, RowShape, Enumerated, BackfillSkipsNobody
<1> QED BY <1>1, BackfillInit, BackfillStep, PTL DEF Spec

=============================================================================
