------------------------- MODULE FeedAndPoolProofs -------------------------
(***************************************************************************)
(* Proofs about EventFeed and, after them, about HashingPool, for every    *)
(* value of their constants.  The two share no state and no constant: each *)
(* part rests on the assumption and the definitions of its own module.     *)
(***************************************************************************)
EXTENDS EventFeed, HashingPool, FiniteSetTheorems, SequenceTheorems, TLAPS

LEMMA Bounds == /\ Limit \in Nat \ {0} /\ MaxRows \in Nat /\ MaxXid \in Nat
                /\ Rows = 1 .. MaxRows /\ Xids = 1 .. MaxXid
BY FeedAssumption DEF Rows, Xids

-----------------------------------------------------------------------------
(* The rows that statements write are rows.                                *)

LEMMA FieldTypes ==
  /\ \A t \in TxType : t.st \in {"new", "running", "committed", "aborted"} /\ t.row \in 0 .. MaxRows
  /\ \A t \in RowType : /\ t.st \in {"unused", "open", "committed", "gone"}
                        /\ t.kind \in Kinds /\ t.xmin \in 0 .. MaxXid
BY DEF TxType, RowType

LEMMA TxUpdates ==
  ASSUME NEW t \in TxType
  PROVE  /\ \A st \in {"running", "committed", "aborted"} : [t EXCEPT !.st = st] \in TxType
         /\ \A s \in 0 .. MaxRows : [t EXCEPT !.row = s] \in TxType
         /\ \A s \in 0 .. MaxRows : [st |-> "running", row |-> s] \in TxType
BY DEF TxType

LEMMA RowUpdates ==
  ASSUME NEW t \in RowType
  PROVE  /\ \A st \in {"committed", "gone"} : [t EXCEPT !.st = st] \in RowType
         /\ \A x \in 0 .. MaxXid, e \in BOOLEAN : [t EXCEPT !.xmin = x, !.ended = e] \in RowType
         /\ \A x \in 0 .. MaxXid, k \in Kinds :
              [st |-> "open", kind |-> k, xmin |-> x, ended |-> FALSE] \in RowType
BY DEF RowType

\* What a transaction's first write changes.
LEMMA FirstWriteEffect ==
  ASSUME TypeOK, NEW x \in Xids, NEW s \in 0 .. MaxRows, FirstWrite(x, s)
  PROVE  /\ tx' \in [Xids -> TxType] /\ lastXid' \in 0 .. MaxXid
         /\ x = lastXid + 1 /\ lastXid' = x
         /\ tx'[x].st = "running" /\ tx'[x].row = s
         /\ \A y \in Xids \ {x} : tx'[y] = tx[y]
<1>1. [st |-> "running", row |-> s] \in TxType
  BY TxUpdates DEF TypeOK
<1>2. tx' = [tx EXCEPT ![x] = [st |-> "running", row |-> s]]
  BY DEF FirstWrite
<1>3. tx \in [Xids -> TxType]
  BY DEF TypeOK
<1>4. tx' \in [Xids -> TxType] /\ tx'[x] = [st |-> "running", row |-> s]
      /\ \A y \in Xids \ {x} : tx'[y] = tx[y]
  BY <1>1, <1>2, <1>3
<1> QED BY <1>4, Bounds DEF FirstWrite

\* What a transaction's end changes.
LEMMA EndTxEffect ==
  ASSUME TypeOK, NEW x \in Xids, NEW st \in {"committed", "aborted"}, EndTx(x, st)
  PROVE  /\ tx' \in [Xids -> TxType] /\ tx'[x].st = st /\ tx'[x].row = tx[x].row
         /\ \A y \in Xids \ {x} : tx'[y] = tx[y]
         /\ appendLock' = IF appendLock = x THEN 0 ELSE appendLock
         /\ appendLock' \in 0 .. MaxXid
         /\ lastXid' = lastXid /\ lastSeq' = lastSeq
<1>1. tx' = [tx EXCEPT ![x].st = st] /\ tx[x] \in TxType /\ tx \in [Xids -> TxType]
  BY DEF EndTx, TypeOK
<1>2. [tx[x] EXCEPT !.st = st] \in TxType
  BY <1>1, TxUpdates
<1>3. tx' \in [Xids -> TxType] /\ tx'[x] = [tx[x] EXCEPT !.st = st]
      /\ \A y \in Xids \ {x} : tx'[y] = tx[y]
  BY <1>1, <1>2
<1>4. tx'[x].st = st /\ tx'[x].row = tx[x].row
  BY <1>1, <1>3 DEF TxType
<1>5. appendLock' \in 0 .. MaxXid /\ appendLock' = IF appendLock = x THEN 0 ELSE appendLock
  BY FeedAssumption DEF EndTx, TypeOK
<1> QED BY <1>3, <1>4, <1>5 DEF EndTx

\* What the insert of a row changes, as a transaction's first write or a later one.
LEMMA InsertEffect ==
  ASSUME TypeOK, NEW x \in Xids, NEW k \in Kinds, Insert(x, k)
  PROVE  /\ lastSeq + 1 \in Rows /\ lastSeq' = lastSeq + 1 /\ lastSeq' \in 0 .. MaxRows
         /\ tx' \in [Xids -> TxType] /\ tx'[x].st = "running" /\ tx'[x].row = lastSeq + 1
         /\ \A y \in Xids \ {x} : tx'[y] = tx[y]
         /\ lastXid' \in 0 .. MaxXid
         /\ \/ x = lastXid + 1 /\ lastXid' = x
            \/ tx[x].st = "running" /\ tx[x].row = 0 /\ lastXid' = lastXid
         /\ rows' \in [Rows -> RowType]
         /\ rows'[lastSeq + 1].st = "open" /\ rows'[lastSeq + 1].kind = k
         /\ rows'[lastSeq + 1].xmin = x
         /\ \A s \in Rows \ {lastSeq + 1} : rows'[s] = rows[s]
<1>1. lastSeq + 1 \in Rows /\ lastSeq' = lastSeq + 1 /\ lastSeq' \in 0 .. MaxRows
  BY Bounds DEF Insert, TypeOK
<1> DEFINE fresh == [st |-> "open", kind |-> k, xmin |-> x, ended |-> FALSE]
<1>2. fresh \in RowType
  BY Bounds DEF RowType
<1>3. rows' = [rows EXCEPT ![lastSeq + 1] = fresh] /\ rows \in [Rows -> RowType]
  BY DEF Insert, TypeOK
<1>4. fresh.st = "open" /\ fresh.kind = k /\ fresh.xmin = x
  OBVIOUS
<1> HIDE DEF fresh
<1>5. /\ rows' \in [Rows -> RowType] /\ rows'[lastSeq + 1] = fresh
      /\ \A s \in Rows \ {lastSeq + 1} : rows'[s] = rows[s]
  BY <1>1, <1>2, <1>3
<1>6. CASE FirstWrite(x, lastSeq + 1)
  BY <1>1, <1>4, <1>5, <1>6, FirstWriteEffect
<1>7. CASE /\ Running(x) /\ tx[x].row = 0
           /\ tx' = [tx EXCEPT ![x].row = lastSeq + 1]
           /\ UNCHANGED lastXid
  <2>1. tx[x] \in TxType /\ tx \in [Xids -> TxType] /\ lastXid' \in 0 .. MaxXid
    BY <1>7 DEF TypeOK
  <2>2. [tx[x] EXCEPT !.row = lastSeq + 1] \in TxType
    BY <2>1, <1>1, TxUpdates
  <2>3. tx' \in [Xids -> TxType] /\ tx'[x] = [tx[x] EXCEPT !.row = lastSeq + 1]
        /\ \A y \in Xids \ {x} : tx'[y] = tx[y]
    BY <2>1, <2>2, <1>7
  <2>4. tx'[x].st = "running" /\ tx'[x].row = lastSeq + 1
    BY <2>1, <2>3, <1>7 DEF TxType, Running
  <2> QED BY <1>1, <1>4, <1>5, <1>7, <2>1, <2>3, <2>4 DEF Running
<1> QED BY <1>6, <1>7 DEF Insert

\* A change of one row's state.
LEMMA RowStateEffect ==
  ASSUME TypeOK, NEW s \in Rows, NEW st \in {"committed", "gone"},
         rows' = [rows EXCEPT ![s].st = st]
  PROVE  /\ rows' \in [Rows -> RowType] /\ rows'[s].st = st
         /\ rows'[s].kind = rows[s].kind /\ rows'[s].xmin = rows[s].xmin
         /\ \A u \in Rows \ {s} : rows'[u] = rows[u]
<1>1. rows[s] \in RowType /\ rows \in [Rows -> RowType]
  BY DEF TypeOK
<1>2. [rows[s] EXCEPT !.st = st] \in RowType
  BY <1>1, RowUpdates
<1>3. /\ rows' \in [Rows -> RowType] /\ rows'[s] = [rows[s] EXCEPT !.st = st]
      /\ \A u \in Rows \ {s} : rows'[u] = rows[u]
  BY <1>1, <1>2
<1>4. rows'[s].st = st /\ rows'[s].kind = rows[s].kind /\ rows'[s].xmin = rows[s].xmin
  BY <1>1, <1>3 DEF RowType
<1> QED BY <1>3, <1>4

\* What a commit changes: nothing, the row it inserted or the version of another.
LEMMA CommitEffect ==
  ASSUME TypeOK, NEW x \in Xids, Commit(x)
  PROVE  /\ rows' \in [Rows -> RowType]
         /\ \/ tx[x].row = 0 /\ rows' = rows /\ commits' = commits
            \/ /\ tx[x].row \in Rows /\ rows[tx[x].row].st = "open"
               /\ rows'[tx[x].row].st = "committed"
               /\ \A u \in Rows \ {tx[x].row} : rows'[u] = rows[u]
               /\ commits' = IF rows[tx[x].row].kind = "event"
                               THEN Append(commits, tx[x].row) ELSE commits
            \/ /\ tx[x].row \in Rows /\ rows[tx[x].row].st = "committed"
               /\ rows'[tx[x].row].st = "committed"
               /\ \A u \in Rows \ {tx[x].row} : rows'[u] = rows[u]
               /\ commits' = commits
<1> DEFINE s == tx[x].row
<1>1. s \in 0 .. MaxRows /\ (s # 0 => s \in Rows)
  BY FieldTypes, Bounds DEF TypeOK
<1>2. CASE s = 0 /\ UNCHANGED <<rows, commits>>
  BY <1>2 DEF TypeOK
<1>3. CASE /\ s # 0 /\ rows[s].st = "open"
           /\ rows' = [rows EXCEPT ![s].st = "committed"]
           /\ commits' = IF rows[s].kind = "event" THEN Append(commits, s) ELSE commits
  <2> HIDE DEF s
  <2>1. s \in Rows
    BY <1>1, <1>3
  <2>2. rows' \in [Rows -> RowType] /\ rows'[s].st = "committed"
        /\ \A u \in Rows \ {s} : rows'[u] = rows[u]
    BY <2>1, <1>3, RowStateEffect
  <2> QED BY <1>3, <2>1, <2>2 DEF s
<1>4. CASE /\ s # 0 /\ Visible(s)
           /\ \E e \in BOOLEAN : rows' = [rows EXCEPT ![s].xmin = x, ![s].ended = e]
           /\ UNCHANGED commits
  <2> HIDE DEF s
  <2>1. s \in Rows /\ rows[s] \in RowType /\ rows \in [Rows -> RowType] /\ x \in 0 .. MaxXid
    BY <1>1, <1>4, Bounds DEF TypeOK
  <2>2. PICK e \in BOOLEAN : rows' = [rows EXCEPT ![s].xmin = x, ![s].ended = e]
    BY <1>4
  <2>3. [rows[s] EXCEPT !.xmin = x, !.ended = e] \in RowType
    BY <2>1, RowUpdates
  <2>4. /\ rows' \in [Rows -> RowType] /\ rows'[s] = [rows[s] EXCEPT !.xmin = x, !.ended = e]
        /\ \A u \in Rows \ {s} : rows'[u] = rows[u]
    BY <2>1, <2>2, <2>3
  <2>5. rows'[s].st = rows[s].st
    BY <2>1, <2>4 DEF RowType
  <2> QED BY <1>4, <2>1, <2>4, <2>5 DEF s, Visible
<1> QED BY <1>2, <1>3, <1>4 DEF Commit

\* What a rollback changes: an open row of the transaction is gone.
LEMMA RollbackEffect ==
  ASSUME TypeOK, NEW x \in Xids, Rollback(x)
  PROVE  /\ rows' \in [Rows -> RowType]
         /\ \A s \in Rows :
              IF s = tx[x].row /\ rows[s].st = "open" THEN rows'[s].st = "gone" ELSE rows'[s] = rows[s]
<1>1. rows' = [s \in Rows |-> IF s = tx[x].row /\ rows[s].st = "open"
                             THEN [rows[s] EXCEPT !.st = "gone"] ELSE rows[s]]
  BY DEF Rollback
<1>2. ASSUME NEW s \in Rows
      PROVE  /\ [rows[s] EXCEPT !.st = "gone"] \in RowType /\ rows[s] \in RowType
             /\ [rows[s] EXCEPT !.st = "gone"].st = "gone"
  <2>1. rows[s] \in RowType
    BY DEF TypeOK
  <2> QED BY <2>1, RowUpdates DEF RowType
<1> QED BY <1>1, <1>2

\* What a window check changes: the cursor of a reader that has aged out, who is told.
LEMMA CheckEffect ==
  ASSUME TypeOK, NEW r \in Readers, CheckWindow(r)
  PROVE  /\ pc' \in [Readers -> {"idle", "checked"}]
         /\ cursor' \in [Readers -> 0 .. MaxRows] /\ told' \in [Readers -> SUBSET Rows]
         /\ UNCHANGED <<feed, served, pruned, inverted>>
         /\ \A q \in Readers \ {r} : cursor'[q] = cursor[q] /\ told'[q] = told[q]
         /\ \/ cursor' = cursor /\ told' = told
            \/ \E oldest \in Rows :
                 /\ Visible(oldest) /\ oldest > cursor[r] + 1
                 /\ cursor'[r] = oldest - 1
                 /\ told'[r] = told[r] \cup (cursor[r] + 1) .. (oldest - 1)
<1>1. /\ pc \in [Readers -> {"idle", "checked"}] /\ cursor \in [Readers -> 0 .. MaxRows]
      /\ told \in [Readers -> SUBSET Rows]
  BY DEF TypeOK
<1>2. UNCHANGED <<feed, served, pruned>>
  BY DEF CheckWindow
<1>3. CASE pc' = [pc EXCEPT ![r] = "checked"] /\ UNCHANGED <<cursor, told, inverted>>
  BY <1>1, <1>2, <1>3
<1>4. ASSUME NEW oldest \in Retained, AgedOut(r, oldest),
             cursor' = [cursor EXCEPT ![r] = ResumeAt(oldest)],
             told' = [told EXCEPT ![r] = @ \cup (cursor[r] + 1) .. (oldest - 1)],
             UNCHANGED <<pc, inverted>>
      PROVE  /\ pc' \in [Readers -> {"idle", "checked"}]
             /\ cursor' \in [Readers -> 0 .. MaxRows] /\ told' \in [Readers -> SUBSET Rows]
             /\ UNCHANGED <<feed, served, pruned, inverted>>
             /\ \A q \in Readers \ {r} : cursor'[q] = cursor[q] /\ told'[q] = told[q]
             /\ Visible(oldest) /\ oldest > cursor[r] + 1 /\ oldest \in Rows
             /\ cursor'[r] = oldest - 1
             /\ told'[r] = told[r] \cup (cursor[r] + 1) .. (oldest - 1)
  <2> DEFINE gap == (cursor[r] + 1) .. (oldest - 1)
  <2>1. /\ oldest \in Rows /\ Visible(oldest) /\ cursor[r] \in 0 .. MaxRows
        /\ oldest > cursor[r] + 1
    BY <1>1, <1>4 DEF Retained, AgedOut
  <2>2. oldest - 1 \in 0 .. MaxRows /\ gap \subseteq Rows
    BY <2>1, Bounds
  <2>3. cursor' = [cursor EXCEPT ![r] = oldest - 1] /\ told' = [told EXCEPT ![r] = told[r] \cup gap]
    BY <1>4 DEF ResumeAt
  <2> HIDE DEF gap
  <2>4. /\ cursor' \in [Readers -> 0 .. MaxRows] /\ cursor'[r] = oldest - 1
        /\ \A q \in Readers \ {r} : cursor'[q] = cursor[q]
    BY <2>2, <2>3, <1>1
  <2>5. told[r] \cup gap \in SUBSET Rows
    BY <2>2, <1>1
  <2>6. /\ told' \in [Readers -> SUBSET Rows] /\ told'[r] = told[r] \cup gap
        /\ \A q \in Readers \ {r} : told'[q] = told[q]
    BY <2>5, <2>3, <1>1
  <2> QED BY <1>1, <1>2, <1>4, <2>1, <2>4, <2>6 DEF gap
<1>5. CASE \E oldest \in Retained :
             /\ AgedOut(r, oldest)
             /\ cursor' = [cursor EXCEPT ![r] = ResumeAt(oldest)]
             /\ told' = [told EXCEPT ![r] = @ \cup (cursor[r] + 1) .. (oldest - 1)]
             /\ UNCHANGED <<pc, inverted>>
  <2>1. PICK oldest \in Retained :
             /\ AgedOut(r, oldest)
             /\ cursor' = [cursor EXCEPT ![r] = ResumeAt(oldest)]
             /\ told' = [told EXCEPT ![r] = @ \cup (cursor[r] + 1) .. (oldest - 1)]
             /\ UNCHANGED <<pc, inverted>>
    BY <1>5
  <2> QED BY <2>1, <1>4
<1> QED BY <1>3, <1>5 DEF CheckWindow

\* What a page read changes: the reader's cursor and histories.
LEMMA PageEffect ==
  ASSUME TypeOK, NEW r \in Readers, ReadPage(r)
  PROVE  /\ pc' \in [Readers -> {"idle", "checked"}]
         /\ cursor' \in [Readers -> 0 .. MaxRows] /\ told' \in [Readers -> SUBSET Rows]
         /\ served' \in [Readers -> SUBSET Rows] /\ inverted' \in [Readers -> SUBSET Rows]
         /\ UNCHANGED <<feed, pruned>>
         /\ \A q \in Readers \ {r} : /\ cursor'[q] = cursor[q] /\ told'[q] = told[q]
                                     /\ served'[q] = served[q] /\ inverted'[q] = inverted[q]
         /\ told[r] \subseteq told'[r]
         /\ \/ cursor' = cursor /\ served' = served /\ inverted' = inverted
            \/ \E last \in Page(r) :
                 /\ \A s \in Page(r) : s <= last
                 /\ cursor'[r] = last
                 /\ served'[r] = served[r] \cup Page(r)
                 /\ inverted'[r] = inverted[r] \cup PassedOver(r)
<1>1. /\ pc \in [Readers -> {"idle", "checked"}] /\ cursor \in [Readers -> 0 .. MaxRows]
      /\ told \in [Readers -> SUBSET Rows] /\ served \in [Readers -> SUBSET Rows]
      /\ inverted \in [Readers -> SUBSET Rows] /\ pruned \in [Readers -> SUBSET Rows]
  BY DEF TypeOK
<1>2. UNCHANGED <<feed, pruned>>
  BY DEF ReadPage
<1>3. Page(r) \subseteq Rows /\ PassedOver(r) \subseteq Rows
  BY DEF Page, After, PassedOver
<1>4. /\ told' \in [Readers -> SUBSET Rows] /\ told[r] \subseteq told'[r]
      /\ \A q \in Readers \ {r} : told'[q] = told[q]
  <2> DEFINE T == IF cursor[r] = 0 THEN told[r] \cup pruned[r] ELSE told[r]
  <2>1. told' = [told EXCEPT ![r] = T]
    BY DEF ReadPage
  <2>2. T \in SUBSET Rows /\ told[r] \subseteq T
    BY <1>1
  <2> HIDE DEF T
  <2> QED BY <2>1, <2>2, <1>1
<1>5. pc' \in [Readers -> {"idle", "checked"}]
  BY <1>1 DEF ReadPage
<1> DEFINE P == Page(r)  O == PassedOver(r)
<1>6. \/ UNCHANGED <<cursor, served, inverted>>
      \/ \E last \in P :
          /\ \A s \in P : s <= last
          /\ cursor' = [cursor EXCEPT ![r] = last]
          /\ served' = [served EXCEPT ![r] = @ \cup P]
          /\ inverted' = [inverted EXCEPT ![r] = @ \cup O]
  BY DEF ReadPage
<1>7. P \subseteq Rows /\ O \subseteq Rows
  BY <1>3
<1> HIDE DEF P, O
<1>8. CASE UNCHANGED <<cursor, served, inverted>>
  BY <1>1, <1>2, <1>4, <1>5, <1>8
<1>9. ASSUME NEW last \in P, \A s \in P : s <= last,
             cursor' = [cursor EXCEPT ![r] = last],
             served' = [served EXCEPT ![r] = @ \cup P],
             inverted' = [inverted EXCEPT ![r] = @ \cup O]
      PROVE  /\ cursor' \in [Readers -> 0 .. MaxRows]
             /\ served' \in [Readers -> SUBSET Rows] /\ inverted' \in [Readers -> SUBSET Rows]
             /\ \A q \in Readers \ {r} : /\ cursor'[q] = cursor[q]
                                         /\ served'[q] = served[q] /\ inverted'[q] = inverted[q]
             /\ cursor'[r] = last /\ served'[r] = served[r] \cup P /\ inverted'[r] = inverted[r] \cup O
  <2>1. /\ cursor' \in [Readers -> 0 .. MaxRows] /\ cursor'[r] = last
        /\ \A q \in Readers \ {r} : cursor'[q] = cursor[q]
    BY <1>1, <1>7, <1>9, Bounds
  <2>2. /\ served' \in [Readers -> SUBSET Rows] /\ served'[r] = served[r] \cup P
        /\ \A q \in Readers \ {r} : served'[q] = served[q]
    BY <1>1, <1>7, <1>9
  <2>3. /\ inverted' \in [Readers -> SUBSET Rows] /\ inverted'[r] = inverted[r] \cup O
        /\ \A q \in Readers \ {r} : inverted'[q] = inverted[q]
    BY <1>1, <1>7, <1>9
  <2> QED BY <2>1, <2>2, <2>3
<1>10. CASE \E last \in P :
          /\ \A s \in P : s <= last
          /\ cursor' = [cursor EXCEPT ![r] = last]
          /\ served' = [served EXCEPT ![r] = @ \cup P]
          /\ inverted' = [inverted EXCEPT ![r] = @ \cup O]
  <2>1. PICK last \in P :
          /\ \A s \in P : s <= last
          /\ cursor' = [cursor EXCEPT ![r] = last]
          /\ served' = [served EXCEPT ![r] = @ \cup P]
          /\ inverted' = [inverted EXCEPT ![r] = @ \cup O]
    BY <1>10
  <2> QED BY <2>1, <1>2, <1>4, <1>5, <1>9 DEF P, O
<1> QED BY <1>6, <1>8, <1>10

-----------------------------------------------------------------------------
(* Type correctness.                                                       *)

LEMMA TypeInit == Init => TypeOK
BY Bounds DEF Init, TypeOK, TxType, RowType, Kinds

\* The state keeps its types in every step.
LEMMA TypeStep == TypeOK /\ [Next]_vars => TypeOK'
<1> SUFFICES ASSUME TypeOK, [Next]_vars PROVE TypeOK'
  OBVIOUS
<1>1. ASSUME NEW x \in Xids, BeginWrite(x) PROVE TypeOK'
  <2>1. tx' \in [Xids -> TxType] /\ lastXid' \in 0 .. MaxXid
    BY <1>1, FirstWriteEffect, Bounds DEF BeginWrite
  <2> QED BY <1>1, <2>1 DEF TypeOK, BeginWrite, reading
<1>2. ASSUME NEW x \in Xids, NEW k \in Kinds, Insert(x, k) PROVE TypeOK'
  <2>1. appendLock' \in 0 .. MaxXid
    BY <1>2, Bounds DEF Insert, TypeOK
  <2>2. /\ tx' \in [Xids -> TxType] /\ lastXid' \in 0 .. MaxXid /\ lastSeq' \in 0 .. MaxRows
        /\ rows' \in [Rows -> RowType]
    BY <1>2, InsertEffect
  <2>3. UNCHANGED <<commits, reading, pruned>>
    BY <1>2 DEF Insert
  <2> QED BY <2>1, <2>2, <2>3 DEF TypeOK, reading
<1>3. ASSUME NEW x \in Xids, NEW s \in Rows, Update(x, s) PROVE TypeOK'
  <2>1. tx' \in [Xids -> TxType] /\ lastXid' \in 0 .. MaxXid
    <3>1. FirstWrite(x, s) /\ s \in 0 .. MaxRows
      BY <1>3, Bounds DEF Update
    <3> QED BY <3>1, FirstWriteEffect
  <2> QED BY <1>3, <2>1 DEF TypeOK, Update, reading
<1>4. ASSUME NEW x \in Xids, Commit(x) PROVE TypeOK'
  <2>1. EndTx(x, "committed")
    BY <1>4 DEF Commit
  <2>2. /\ tx' \in [Xids -> TxType] /\ appendLock' \in 0 .. MaxXid
        /\ lastXid' = lastXid /\ lastSeq' = lastSeq
    BY <2>1, EndTxEffect
  <2>3. rows' \in [Rows -> RowType] /\ commits' \in Seq(Rows)
    <3>1. commits \in Seq(Rows)
      BY DEF TypeOK
    <3>2. ASSUME NEW s \in Rows PROVE Append(commits, s) \in Seq(Rows)
      BY <3>1
    <3> QED BY <1>4, <3>1, <3>2, CommitEffect
  <2> QED BY <2>1, <2>2, <2>3 DEF TypeOK, EndTx, reading
<1>5. ASSUME NEW x \in Xids, Rollback(x) PROVE TypeOK'
  <2>1. EndTx(x, "aborted")
    BY <1>5 DEF Rollback
  <2>2. /\ tx' \in [Xids -> TxType] /\ appendLock' \in 0 .. MaxXid
        /\ lastXid' = lastXid /\ lastSeq' = lastSeq
    BY <2>1, EndTxEffect
  <2>3. rows' \in [Rows -> RowType] /\ commits' \in Seq(Rows)
    BY <1>5, RollbackEffect DEF TypeOK, Rollback
  <2> QED BY <2>1, <2>2, <2>3 DEF TypeOK, EndTx, reading
<1>6. ASSUME NEW s \in Rows, Reap(s) PROVE TypeOK'
  <2>1. rows' \in [Rows -> RowType]
    BY <1>6, RowStateEffect DEF Reap
  <2>2. pruned' \in [Readers -> SUBSET Rows]
    BY <1>6 DEF Reap, TypeOK
  <2> QED BY <1>6, <2>1, <2>2 DEF TypeOK, Reap, reading
<1>7. ASSUME NEW r \in Readers, CheckWindow(r) PROVE TypeOK'
  <2>1. UNCHANGED <<feed, served, pruned>>
    BY <1>7 DEF CheckWindow
  <2>2. /\ cursor' \in [Readers -> 0 .. MaxRows] /\ pc' \in [Readers -> {"idle", "checked"}]
        /\ told' \in [Readers -> SUBSET Rows] /\ inverted' \in [Readers -> SUBSET Rows]
    BY <1>7, CheckEffect DEF CheckWindow, TypeOK
  <2> QED BY <2>1, <2>2 DEF TypeOK, feed
<1>8. ASSUME NEW r \in Readers, ReadPage(r) PROVE TypeOK'
  <2>1. UNCHANGED <<feed, pruned>>
    BY <1>8 DEF ReadPage
  <2>2. Page(r) \subseteq Rows /\ PassedOver(r) \subseteq Rows
    BY DEF Page, After, PassedOver
  <2>3. /\ cursor' \in [Readers -> 0 .. MaxRows] /\ pc' \in [Readers -> {"idle", "checked"}]
        /\ served' \in [Readers -> SUBSET Rows] /\ inverted' \in [Readers -> SUBSET Rows]
        /\ told' \in [Readers -> SUBSET Rows]
    BY <1>8, <2>2, PageEffect DEF ReadPage, TypeOK
  <2> QED BY <2>1, <2>3 DEF TypeOK, feed
<1>9. ASSUME UNCHANGED vars PROVE TypeOK'
  BY <1>9 DEF vars, feed, reading, TypeOK
<1> QED BY <1>1, <1>2, <1>3, <1>4, <1>5, <1>6, <1>7, <1>8, <1>9 DEF Next

\* Every reachable state of the feed is well typed: sequences, xids and cursors stay
\* in their ranges through inserts, updates, endings, the sweep and the page reads.
THEOREM TypeCorrect == Spec => []TypeOK
BY TypeInit, TypeStep, PTL DEF Spec
-----------------------------------------------------------------------------
(* The inductive invariant.                                                *)

LEMMA InvInit == Init => IInv
<1> SUFFICES ASSUME Init PROVE IInv
  OBVIOUS
<1>1. TypeOK
  BY TypeInit
<1>2. TxShape /\ RowShape /\ LockShape /\ GoneShape /\ EventsInCommitOrder /\ Accounted
  BY Bounds DEF Init, TxShape, RowShape, LockShape, GoneShape, EventsInCommitOrder, Accounted,
                Running, OpenEvent, Present
<1> QED BY <1>1, <1>2 DEF IInv

\* A row that was rolled back stays so while its transaction and its state are kept.
LEMMA RolledBackKept ==
  ASSUME TypeOK, NEW s \in Rows, RolledBack(s), rows'[s].st = "gone",
         \A x \in Xids : tx[x].st = "aborted" => tx'[x] = tx[x]
  PROVE  RolledBack(s)'
BY DEF RolledBack

\* Writers change nothing of what was passed: the readers' shapes follow.
LEMMA ReadersKept ==
  ASSUME IInv, lastSeq' \in Nat, lastSeq <= lastSeq',
         \A s \in Rows : rows[s].st = "gone" => rows'[s].st = "gone",
         \A s \in Rows : rows'[s].st = "gone" /\ rows[s].st # "gone" => RolledBack(s)',
         \A x \in Xids : tx[x].st = "aborted" => tx'[x] = tx[x],
         UNCHANGED <<reading, pruned>>
  PROVE  GoneShape' /\ Accounted'
<1> USE DEF IInv
<1>1. TypeOK /\ GoneShape /\ Accounted
  OBVIOUS
<1>2. \A s \in Rows : RolledBack(s) => RolledBack(s)'
  BY <1>1, RolledBackKept DEF RolledBack
<1>3. GoneShape'
  <2>1. \A r \in Readers : cursor'[r] <= lastSeq'
    BY <1>1, Bounds DEF GoneShape, TypeOK, reading
  <2>2. ASSUME NEW s \in Rows, rows'[s].st = "gone"
        PROVE  RolledBack(s)' \/ \A r \in Readers : s <= cursor'[r] \/ s \in pruned'[r]
    <3>1. CASE rows[s].st # "gone"
      BY <3>1, <2>2
    <3>2. CASE rows[s].st = "gone"
      BY <3>2, <1>1, <1>2 DEF GoneShape, reading
    <3> QED BY <3>1, <3>2
  <2> QED BY <2>1, <2>2 DEF GoneShape
<1>4. Accounted'
  BY <1>1, <1>2 DEF Accounted, reading
<1> QED BY <1>3, <1>4

LEMMA BeginStep ==
  ASSUME IInv, TypeOK', NEW x \in Xids, NEW s \in 0 .. MaxRows, FirstWrite(x, s),
         s # 0 => Visible(s) /\ \A y \in Xids : ~Writes(y, s),
         UNCHANGED <<rows, lastSeq, appendLock, commits, reading, pruned>>
  PROVE  IInv'
<1>1. TypeOK /\ TxShape /\ RowShape /\ LockShape /\ EventsInCommitOrder
  BY DEF IInv
<1>2. /\ x = lastXid + 1 /\ lastXid' = x /\ tx'[x].st = "running" /\ tx'[x].row = s
      /\ \A y \in Xids \ {x} : tx'[y] = tx[y]
  BY <1>1, FirstWriteEffect
<1>3. tx[x].st = "new" /\ lastXid \in Nat /\ lastSeq \in Nat
  BY <1>1, <1>2, Bounds DEF TxShape, TypeOK
<1>4. TxShape'
  <2>1. \A y \in Xids : y > lastXid' => tx'[y].st = "new"
    BY <1>1, <1>2, <1>3, Bounds DEF TxShape
  <2>2. \A y \in Xids : Running(y)' /\ tx'[y].row # 0 => Present(tx[y].row)'
    BY <1>1, <1>2 DEF TxShape, Running, Present, Visible
  <2>3. \A y, z \in Xids :
          Running(y)' /\ Running(z)' /\ tx'[y].row = tx'[z].row /\ tx'[y].row # 0 => y = z
    BY <1>1, <1>2 DEF TxShape, Running, Writes
  <2> QED BY <2>1, <2>2, <2>3 DEF TxShape
<1>5. RowShape'
  <2>1. ASSUME NEW u \in Rows, rows[u].st = "open"
        PROVE  rows[u].xmin \in Xids /\ Writes(rows[u].xmin, u)'
    <3>1. rows[u].xmin \in Xids /\ Writes(rows[u].xmin, u)
      BY <2>1, <1>1 DEF RowShape
    <3>2. tx'[rows[u].xmin] = tx[rows[u].xmin]
      BY <3>1, <1>2, <1>3 DEF Writes, Running
    <3> QED BY <3>1, <3>2 DEF Writes, Running
  <2> QED BY <1>1, <2>1 DEF RowShape
<1>6. LockShape' /\ EventsInCommitOrder'
  BY <1>1 DEF LockShape, EventsInCommitOrder, OpenEvent
<1>7. GoneShape' /\ Accounted'
  <2>1. \A y \in Xids : tx[y].st = "aborted" => tx'[y] = tx[y]
    BY <1>2, <1>3
  <2> QED BY <2>1, <1>3, ReadersKept
<1> QED BY <1>4, <1>5, <1>6, <1>7 DEF IInv

LEMMA InsertStep ==
  ASSUME IInv, TypeOK', NEW x \in Xids, NEW k \in Kinds, Insert(x, k)
  PROVE  IInv'
<1> DEFINE s == lastSeq + 1
<1>1. TypeOK /\ TxShape /\ RowShape /\ LockShape /\ EventsInCommitOrder
  BY DEF IInv
<1>2. /\ s \in Rows /\ lastSeq' = s
      /\ tx'[x].st = "running" /\ tx'[x].row = s
      /\ \A y \in Xids \ {x} : tx'[y] = tx[y]
      /\ \/ x = lastXid + 1 /\ lastXid' = x
         \/ tx[x].st = "running" /\ tx[x].row = 0 /\ lastXid' = lastXid
      /\ rows'[s].st = "open" /\ rows'[s].kind = k /\ rows'[s].xmin = x
      /\ \A u \in Rows \ {s} : rows'[u] = rows[u]
  BY <1>1, InsertEffect
<1>3. /\ k = "event" => appendLock = 0 /\ appendLock' = x
      /\ k # "event" => appendLock' = appendLock
      /\ commits' = commits /\ UNCHANGED <<reading, pruned>>
  BY DEF Insert, TakesLock
<1>4. lastSeq \in Nat /\ lastXid \in Nat
  BY <1>1, Bounds DEF TypeOK
<1>5. /\ rows[s].st = "unused"
      /\ tx[x].st \in {"new", "running"} /\ (tx[x].st = "running" => tx[x].row = 0)
  BY <1>1, <1>2, <1>4, Bounds DEF TxShape, RowShape
<1>6. \A y \in Xids : Running(y) => tx[y].row # s
  BY <1>1, <1>2, <1>4, <1>5 DEF TxShape, Present
<1> HIDE DEF s
<1>7. TxShape'
  <2>1. \A y \in Xids : y > lastXid' => tx'[y].st = "new"
    BY <1>1, <1>2, <1>4, Bounds DEF TxShape
  <2>2. \A y \in Xids : Running(y)' /\ tx'[y].row # 0 => Present(tx[y].row)'
    <3> TAKE y \in Xids
    <3>1. CASE y = x
      BY <3>1, <1>2 DEF Present
    <3>2. CASE y # x
      <4>1. tx'[y] = tx[y]
        BY <3>2, <1>2
      <4>2. tx[y].row \in 0 .. MaxRows
        BY <1>1, FieldTypes DEF TypeOK
      <4>3. tx[y].row # 0 => tx[y].row \in Rows
        BY <4>2, Bounds
      <4> QED BY <4>1, <4>3, <1>1, <1>2, <1>6 DEF TxShape, Running, Present
    <3> QED BY <3>1, <3>2
  <2>3. \A y, z \in Xids :
          Running(y)' /\ Running(z)' /\ tx'[y].row = tx'[z].row /\ tx'[y].row # 0 => y = z
    BY <1>1, <1>2, <1>6 DEF TxShape, Running
  <2> QED BY <2>1, <2>2, <2>3 DEF TxShape
<1>8. RowShape'
  <2>1. \A u \in Rows : rows'[u].st = "unused" <=> u > lastSeq'
    BY <1>1, <1>2, <1>4, Bounds DEF RowShape, s
  <2>2. \A u \in Rows : rows'[u].st = "open" => rows'[u].xmin \in Xids /\ Writes(rows[u].xmin, u)'
    <3> SUFFICES ASSUME NEW u \in Rows, rows'[u].st = "open"
                 PROVE  rows'[u].xmin \in Xids /\ Writes(rows[u].xmin, u)'
      OBVIOUS
    <3>1. CASE u = s
      BY <3>1, <1>2 DEF Writes, Running
    <3>2. CASE u # s
      <4>1. rows'[u] = rows[u] /\ rows[u].xmin \in Xids /\ Writes(rows[u].xmin, u)
        BY <3>2, <1>1, <1>2 DEF RowShape
      <4>2. rows[u].xmin # x /\ u # 0
        BY <4>1, <1>5, Bounds DEF Writes, Running
      <4> QED BY <4>1, <4>2, <1>2 DEF Writes, Running
    <3> QED BY <3>1, <3>2
  <2> QED BY <2>1, <2>2 DEF RowShape
<1>9. LockShape'
  <2>1. k = "event" => \A u \in Rows : ~OpenEvent(u)
    BY <1>1, <1>3, Bounds DEF LockShape, RowShape, OpenEvent
  <2>2. \A u \in Rows : OpenEvent(u)' => appendLock' = rows'[u].xmin
    BY <2>1, <1>1, <1>2, <1>3 DEF LockShape, OpenEvent
  <2>3. ASSUME NEW i \in 1 .. Len(commits')
        PROVE  commits'[i] <= lastSeq' /\ \A u \in Rows : OpenEvent(u)' => commits'[i] < u
    <3>1. i \in 1 .. Len(commits) /\ commits'[i] = commits[i] /\ commits[i] \in Rows
      BY <2>3, <1>1, <1>3 DEF TypeOK
    <3>2. commits[i] <= lastSeq /\ \A u \in Rows : OpenEvent(u) => commits[i] < u
      BY <3>1, <1>1 DEF LockShape
    <3> QED BY <3>1, <3>2, <1>2, <1>4, Bounds DEF OpenEvent, s
  <2> QED BY <2>2, <2>3 DEF LockShape
<1>10. EventsInCommitOrder'
  BY <1>1, <1>3 DEF EventsInCommitOrder
<1>11. GoneShape' /\ Accounted'
  <2>1. \A y \in Xids : tx[y].st = "aborted" => tx'[y] = tx[y]
    BY <1>2, <1>5
  <2>2. lastSeq' \in Nat /\ lastSeq <= lastSeq'
    BY <1>2, <1>4 DEF s
  <2>3. \A u \in Rows : rows'[u].st = "gone" <=> rows[u].st = "gone"
    BY <1>2, <1>5
  <2> QED BY <2>1, <2>2, <2>3, <1>3, ReadersKept
<1> QED BY <1>7, <1>8, <1>9, <1>10, <1>11 DEF IInv

LEMMA CommitStep ==
  ASSUME IInv, TypeOK', NEW x \in Xids, Commit(x)
  PROVE  IInv'
<1> DEFINE s == tx[x].row
<1>1. TypeOK /\ TxShape /\ RowShape /\ LockShape /\ EventsInCommitOrder
  BY DEF IInv
<1>2. EndTx(x, "committed") /\ Running(x)
  BY DEF Commit, EndTx
<1>3. /\ tx'[x].st = "committed" /\ tx'[x].row = s
      /\ \A y \in Xids \ {x} : tx'[y] = tx[y]
      /\ appendLock' = IF appendLock = x THEN 0 ELSE appendLock
      /\ lastXid' = lastXid /\ lastSeq' = lastSeq
  BY <1>1, <1>2, EndTxEffect
<1>4. \/ s = 0 /\ rows' = rows /\ commits' = commits
      \/ /\ s \in Rows /\ rows[s].st = "open" /\ rows'[s].st = "committed"
         /\ \A u \in Rows \ {s} : rows'[u] = rows[u]
         /\ commits' = IF rows[s].kind = "event" THEN Append(commits, s) ELSE commits
      \/ /\ s \in Rows /\ rows[s].st = "committed" /\ rows'[s].st = "committed"
         /\ \A u \in Rows \ {s} : rows'[u] = rows[u]
         /\ commits' = commits
  BY <1>1, CommitEffect
<1>5. lastSeq \in Nat /\ commits \in Seq(Rows) /\ lastXid \in Nat
  BY <1>1, Bounds DEF TypeOK
<1>6. \A u \in Rows : Writes(x, u) => u = s
  BY DEF Writes
<1> HIDE DEF s
<1>7. \A u \in Rows : rows[u].st = "open" /\ u # s => rows'[u] = rows[u] /\ rows[u].xmin # x
  BY <1>1, <1>4, <1>6 DEF RowShape
<1>8. \A u \in Rows : /\ rows'[u].st = "open" => rows'[u] = rows[u] /\ rows[u].xmin # x
                      /\ rows'[u].st = "gone" <=> rows[u].st = "gone"
                      /\ rows'[u].st = "unused" <=> rows[u].st = "unused"
                      /\ Present(u) => Present(u)'
  <2>1. s = 0 => s \notin Rows
    BY Bounds
  <2>2. \A u \in Rows : rows[u].st = "open" => Writes(rows[u].xmin, u)
    BY <1>1 DEF RowShape
  <2> QED BY <1>4, <1>6, <2>1, <2>2 DEF Present
<1>9. TxShape'
  <2>1. \A y \in Xids : y > lastXid' => tx'[y].st = "new"
    BY <1>1, <1>2, <1>3 DEF TxShape, Running
  <2>2. \A y \in Xids : Running(y)' /\ tx'[y].row # 0 => Present(tx[y].row)'
    <3> SUFFICES ASSUME NEW y \in Xids, Running(y)', tx'[y].row # 0 PROVE Present(tx[y].row)'
      OBVIOUS
    <3>1. y # x /\ tx'[y] = tx[y]
      BY <1>3 DEF Running
    <3>2. tx[y].row \in Rows
      BY <3>1, <1>1, FieldTypes, Bounds DEF TypeOK
    <3> QED BY <3>1, <3>2, <1>1, <1>8 DEF TxShape, Running, Present
  <2>3. \A y, z \in Xids :
          Running(y)' /\ Running(z)' /\ tx'[y].row = tx'[z].row /\ tx'[y].row # 0 => y = z
    BY <1>1, <1>3 DEF TxShape, Running
  <2> QED BY <2>1, <2>2, <2>3 DEF TxShape
<1>10. RowShape'
  <2>1. ASSUME NEW u \in Rows, rows'[u].st = "open"
        PROVE  rows'[u].xmin \in Xids /\ Writes(rows[u].xmin, u)'
    <3>1. rows'[u] = rows[u] /\ rows[u].xmin \in Xids /\ Writes(rows[u].xmin, u) /\ rows[u].xmin # x
      BY <2>1, <1>1, <1>8 DEF RowShape
    <3>2. tx'[rows[u].xmin] = tx[rows[u].xmin]
      BY <3>1, <1>3
    <3> QED BY <3>1, <3>2 DEF Writes, Running
  <2> QED BY <1>1, <1>3, <1>8, <2>1 DEF RowShape
<1>11. \A u \in Rows : OpenEvent(u)' => OpenEvent(u) /\ appendLock # x /\ rows'[u] = rows[u]
  BY <1>1, <1>8 DEF OpenEvent, LockShape
<1>12. \/ commits' = commits
       \/ commits' = Append(commits, s) /\ s \in Rows /\ OpenEvent(s) /\ rows[s].xmin = x
  <2>1. ASSUME s \in Rows, rows[s].st = "open"
        PROVE  rows[s].xmin = x
    <3>1. rows[s].xmin \in Xids /\ Writes(rows[s].xmin, s) /\ s # 0
      BY <2>1, <1>1, Bounds DEF RowShape
    <3> QED BY <3>1, <1>1, <1>2 DEF TxShape, Writes, s
  <2> QED BY <1>4, <2>1 DEF OpenEvent
<1>13. LockShape'
  <2>1. \A u \in Rows : OpenEvent(u)' => appendLock' = rows'[u].xmin
    BY <1>1, <1>3, <1>11 DEF LockShape
  <2>2. CASE commits' = commits
    BY <2>1, <2>2, <1>1, <1>3, <1>11 DEF LockShape
  <2>3. CASE commits' = Append(commits, s) /\ s \in Rows /\ OpenEvent(s) /\ rows[s].xmin = x
    <3>1. \A u \in Rows : ~OpenEvent(u)'
      BY <2>3, <1>1, <1>11 DEF LockShape
    <3>2. s <= lastSeq
      BY <2>3, <1>1, <1>5, Bounds DEF RowShape, OpenEvent
    <3>3. ASSUME NEW i \in 1 .. Len(commits') PROVE commits'[i] <= lastSeq'
      <4>1. CASE i \in 1 .. Len(commits)
        BY <4>1, <2>3, <1>1, <1>3, <1>5 DEF LockShape
      <4>2. CASE i = Len(commits) + 1
        BY <4>2, <2>3, <3>2, <1>3, <1>5
      <4> QED BY <3>3, <4>1, <4>2, <2>3, <1>5
    <3> QED BY <3>1, <3>3 DEF LockShape
  <2> QED BY <2>2, <2>3, <1>12
<1>14. EventsInCommitOrder'
  <2>1. CASE commits' = commits
    BY <2>1, <1>1 DEF EventsInCommitOrder
  <2>2. CASE commits' = Append(commits, s) /\ s \in Rows /\ OpenEvent(s)
    <3>1. \A i \in 1 .. Len(commits) : commits[i] < s /\ commits'[i] = commits[i]
      BY <2>2, <1>1, <1>5 DEF LockShape
    <3>2. Len(commits') = Len(commits) + 1 /\ commits'[Len(commits) + 1] = s /\ Len(commits) \in Nat
      BY <2>2, <1>5
    <3>3. ASSUME NEW i \in 1 .. Len(commits'), NEW j \in 1 .. Len(commits'), i < j
          PROVE  commits'[i] < commits'[j]
      <4>1. i \in 1 .. Len(commits)
        BY <3>2, <3>3
      <4>2. CASE j \in 1 .. Len(commits)
        BY <4>1, <4>2, <3>1, <3>3, <1>1 DEF EventsInCommitOrder
      <4>3. CASE j = Len(commits) + 1
        BY <4>1, <4>3, <3>1, <3>2
      <4> QED BY <4>2, <4>3, <3>2, <3>3
    <3> QED BY <3>3 DEF EventsInCommitOrder
  <2> QED BY <2>1, <2>2, <1>12
<1>15. GoneShape' /\ Accounted'
  <2>1. \A y \in Xids : tx[y].st = "aborted" => tx'[y] = tx[y]
    BY <1>2, <1>3 DEF Running
  <2>2. UNCHANGED <<reading, pruned>>
    BY <1>2 DEF EndTx
  <2> QED BY <2>1, <2>2, <1>3, <1>5, <1>8, ReadersKept
<1> QED BY <1>9, <1>10, <1>13, <1>14, <1>15 DEF IInv

LEMMA RollbackStep ==
  ASSUME IInv, TypeOK', NEW x \in Xids, Rollback(x)
  PROVE  IInv'
<1>1. TypeOK /\ TxShape /\ RowShape /\ LockShape /\ EventsInCommitOrder
  BY DEF IInv
<1>2. EndTx(x, "aborted") /\ Running(x) /\ commits' = commits
  BY DEF Rollback, EndTx
<1>3. /\ tx'[x].st = "aborted" /\ tx'[x].row = tx[x].row
      /\ \A y \in Xids \ {x} : tx'[y] = tx[y]
      /\ appendLock' = IF appendLock = x THEN 0 ELSE appendLock
      /\ lastXid' = lastXid /\ lastSeq' = lastSeq
  BY <1>1, <1>2, EndTxEffect
<1>4. \A s \in Rows :
        IF s = tx[x].row /\ rows[s].st = "open" THEN rows'[s].st = "gone" ELSE rows'[s] = rows[s]
  BY <1>1, RollbackEffect
<1>5. lastSeq \in Nat
  BY <1>1, Bounds DEF TypeOK
<1>6. \A u \in Rows : rows[u].st = "open" /\ u # tx[x].row => rows[u].xmin # x
  BY <1>1 DEF RowShape, Writes
<1>7. \A u \in Rows : rows'[u].st = "open" => rows'[u] = rows[u] /\ rows[u].xmin # x
  BY <1>4, <1>6
<1>8. TxShape'
  <2>1. \A y \in Xids : y > lastXid' => tx'[y].st = "new"
    BY <1>1, <1>2, <1>3 DEF TxShape, Running
  <2>2. \A y \in Xids : Running(y)' /\ tx'[y].row # 0 => Present(tx[y].row)'
    <3> SUFFICES ASSUME NEW y \in Xids, Running(y)', tx'[y].row # 0 PROVE Present(tx[y].row)'
      OBVIOUS
    <3>1. y # x /\ tx'[y] = tx[y] /\ Running(y)
      BY <1>3 DEF Running
    <3>2. tx[y].row \in Rows /\ tx[y].row # tx[x].row
      BY <3>1, <1>1, <1>2, FieldTypes, Bounds DEF TypeOK, TxShape
    <3> QED BY <3>1, <3>2, <1>1, <1>4 DEF TxShape, Present
  <2>3. \A y, z \in Xids :
          Running(y)' /\ Running(z)' /\ tx'[y].row = tx'[z].row /\ tx'[y].row # 0 => y = z
    BY <1>1, <1>3 DEF TxShape, Running
  <2> QED BY <2>1, <2>2, <2>3 DEF TxShape
<1>9. RowShape'
  <2>1. ASSUME NEW u \in Rows, rows'[u].st = "open"
        PROVE  rows'[u].xmin \in Xids /\ Writes(rows[u].xmin, u)'
    <3>1. rows'[u] = rows[u] /\ rows[u].xmin \in Xids /\ Writes(rows[u].xmin, u) /\ rows[u].xmin # x
      BY <2>1, <1>1, <1>7 DEF RowShape
    <3>2. tx'[rows[u].xmin] = tx[rows[u].xmin]
      BY <3>1, <1>3
    <3> QED BY <3>1, <3>2 DEF Writes, Running
  <2>2. \A u \in Rows : rows'[u].st = "unused" <=> rows[u].st = "unused"
    BY <1>4
  <2> QED BY <1>1, <1>3, <2>1, <2>2 DEF RowShape
<1>10. LockShape' /\ EventsInCommitOrder'
  <2>1. \A u \in Rows : OpenEvent(u)' => OpenEvent(u) /\ appendLock # x /\ rows'[u] = rows[u]
    BY <1>1, <1>7 DEF OpenEvent, LockShape
  <2> QED BY <2>1, <1>1, <1>2, <1>3 DEF LockShape, EventsInCommitOrder
<1>11. GoneShape' /\ Accounted'
  <2>1. \A y \in Xids : tx[y].st = "aborted" => tx'[y] = tx[y]
    BY <1>2, <1>3 DEF Running
  <2>2. UNCHANGED <<reading, pruned>>
    BY <1>2 DEF EndTx
  <2>3. \A s \in Rows : rows'[s].st = "gone" /\ rows[s].st # "gone" => RolledBack(s)'
    BY <1>3, <1>4 DEF RolledBack
  <2>4. \A s \in Rows : rows[s].st = "gone" => rows'[s].st = "gone"
    BY <1>4
  <2> QED BY <2>1, <2>2, <2>3, <2>4, <1>3, <1>5, ReadersKept
<1> QED BY <1>8, <1>9, <1>10, <1>11 DEF IInv

LEMMA ReapStep ==
  ASSUME IInv, TypeOK', NEW s \in Rows, Reap(s)
  PROVE  IInv'
<1>1. TypeOK /\ TxShape /\ RowShape /\ LockShape /\ EventsInCommitOrder /\ GoneShape /\ Accounted
  BY DEF IInv
<1>2. /\ rows[s].st = "committed" /\ \A x \in Xids : ~Writes(x, s)
      /\ pruned' = [r \in Readers |-> IF s > cursor[r] THEN pruned[r] \cup {s} ELSE pruned[r]]
      /\ UNCHANGED <<tx, lastXid, lastSeq, appendLock, commits, reading>>
  BY DEF Reap, Visible
<1>3. rows'[s].st = "gone" /\ \A u \in Rows \ {s} : rows'[u] = rows[u]
  BY <1>1, RowStateEffect DEF Reap
<1>4. TxShape'
  <2>1. ASSUME NEW y \in Xids, Running(y)', tx'[y].row # 0 PROVE Present(tx[y].row)'
    <3>1. Running(y) /\ tx[y].row \in Rows /\ tx[y].row # s /\ tx' = tx
      BY <2>1, <1>1, <1>2, FieldTypes, Bounds DEF TypeOK, Running, Writes
    <3>2. Present(tx[y].row)
      BY <3>1, <2>1, <1>1 DEF TxShape
    <3> QED BY <3>1, <3>2, <1>3 DEF Present
  <2> QED BY <1>1, <1>2, <2>1 DEF TxShape, Running
<1>5. RowShape'
  <2>1. ASSUME NEW u \in Rows, rows'[u].st = "open"
        PROVE  rows'[u].xmin \in Xids /\ Writes(rows[u].xmin, u)'
    <3>1. rows'[u] = rows[u] /\ rows[u].xmin \in Xids /\ Writes(rows[u].xmin, u)
      BY <2>1, <1>1, <1>3 DEF RowShape
    <3> QED BY <3>1, <1>2 DEF Writes, Running
  <2> QED BY <1>1, <1>2, <1>3, <2>1 DEF RowShape
<1>6. LockShape' /\ EventsInCommitOrder'
  <2>1. \A u \in Rows : OpenEvent(u)' => OpenEvent(u) /\ rows'[u] = rows[u]
    BY <1>3 DEF OpenEvent
  <2> QED BY <2>1, <1>1, <1>2 DEF LockShape, EventsInCommitOrder
<1>7. \A u \in Rows : RolledBack(u) => RolledBack(u)'
  BY <1>2, <1>3 DEF RolledBack
<1>8. \A r \in Readers : pruned[r] \subseteq pruned'[r] /\ (s > cursor[r] => s \in pruned'[r])
  BY <1>2
<1>9. cursor' = cursor /\ cursor \in [Readers -> 0 .. MaxRows]
  BY <1>1, <1>2 DEF reading, TypeOK
<1>10. GoneShape'
  <2>1. \A r \in Readers : s <= cursor'[r] \/ s \in pruned'[r]
    BY <1>8, <1>9, Bounds
  <2>2. \A u \in Rows \ {s} : rows'[u].st = "gone" =>
          RolledBack(u)' \/ \A r \in Readers : u <= cursor'[r] \/ u \in pruned'[r]
    BY <1>1, <1>3, <1>7, <1>8, <1>9 DEF GoneShape
  <2> QED BY <2>1, <2>2, <1>1, <1>2, <1>9 DEF GoneShape
<1>11. Accounted'
  BY <1>1, <1>2, <1>7, <1>8 DEF Accounted, reading
<1> QED BY <1>4, <1>5, <1>6, <1>10, <1>11 DEF IInv

-----------------------------------------------------------------------------
(* The readers.                                                            *)

\* A page leaves no settled row out below its last one: whatever it leaves out below
\* that one is newer, by xid, than the last row.
LEMMA PageLeavesOut ==
  ASSUME IInv, NEW r \in Readers, NEW last \in Page(r),
         NEW s \in Rows, cursor[r] < s, s < last, s \notin Page(r), Present(s)
  PROVE  s \in PassedOver(r)
<1>1. TypeOK /\ RowShape
  BY DEF IInv
<1>2. last \in Rows /\ last \in After(r) /\ Settled(last)
  BY DEF Page, After
<1>3. s \notin After(r)
  <2> SUFFICES ASSUME s \in After(r) PROVE FALSE
    OBVIOUS
  <2> DEFINE A == {u \in After(r) : u < s}
             B == {u \in After(r) : u < last}
  <2>1. IsFiniteSet(B)
    <3>1. IsFiniteSet(Rows)
      BY Bounds, FS_Interval
    <3>2. B \subseteq Rows
      BY DEF After
    <3> QED BY <3>1, <3>2, FS_Subset
  <2>2. A \subseteq B
    BY <1>2, Bounds DEF After
  <2>3. /\ Cardinality(A) <= Cardinality(B)
        /\ Cardinality(A) \in Nat /\ Cardinality(B) \in Nat
    <3>1. IsFiniteSet(A)
      BY <2>1, <2>2, FS_Subset
    <3> QED BY <3>1, <2>1, <2>2, FS_Subset, FS_CardinalityType
  <2>4. Cardinality(B) < Limit
    BY DEF Page
  <2>5. Cardinality(A) < Limit
    BY <2>3, <2>4, Bounds
  <2> QED BY <2>5 DEF Page
<1>4. ~Settled(s)
  BY <1>3 DEF After
<1>5. rows[s].xmin \in Nat /\ rows[last].xmin \in Nat
  BY <1>1, <1>2, FieldTypes, Bounds DEF TypeOK
<1>6. rows[last].xmin < rows[s].xmin
  <2>1. \A x \in Xids : Running(x) => rows[last].xmin < x
    BY <1>2 DEF Settled
  <2>2. CASE rows[s].st = "open"
    <3>1. rows[s].xmin \in Xids /\ Running(rows[s].xmin)
      BY <2>2, <1>1 DEF RowShape, Writes
    <3> QED BY <3>1, <2>1
  <2>3. CASE rows[s].st = "committed"
    <3>1. PICK x \in Xids : Running(x) /\ ~(rows[s].xmin < x)
      BY <2>3, <1>4 DEF Settled, Visible
    <3> QED BY <3>1, <2>1, <1>5, Bounds
  <2> QED BY <2>2, <2>3 DEF Present
<1> QED BY <1>6 DEF PassedOver

\* The rows a reader's cursor has passed stay accounted for while its histories grow.
LEMMA AccountedStep ==
  ASSUME IInv, TypeOK', NEW r \in Readers, UNCHANGED <<feed, pruned>>,
         \A q \in Readers \ {r} : /\ cursor'[q] = cursor[q] /\ told'[q] = told[q]
                                  /\ served'[q] = served[q] /\ inverted'[q] = inverted[q],
         told[r] \subseteq told'[r], served[r] \subseteq served'[r], inverted[r] \subseteq inverted'[r],
         cursor[r] <= cursor'[r], cursor'[r] <= lastSeq,
         \A s \in Rows : cursor[r] < s /\ s <= cursor'[r] =>
           \/ s \in served'[r] \cup told'[r] \cup pruned[r] \cup inverted'[r]
           \/ RolledBack(s)
  PROVE  IInv'
<1>1. TypeOK /\ TxShape /\ RowShape /\ LockShape /\ EventsInCommitOrder /\ GoneShape /\ Accounted
  BY DEF IInv
<1>2. /\ tx' = tx /\ lastXid' = lastXid /\ lastSeq' = lastSeq /\ rows' = rows
      /\ appendLock' = appendLock /\ commits' = commits /\ pruned' = pruned
  BY DEF feed
<1>3. TxShape' /\ RowShape' /\ LockShape' /\ EventsInCommitOrder'
  BY <1>1, <1>2 DEF TxShape, RowShape, LockShape, EventsInCommitOrder, Running, Present, Writes,
                    OpenEvent
<1>4. \A s \in Rows : RolledBack(s)' <=> RolledBack(s)
  BY <1>2 DEF RolledBack
<1>5. \A q \in Readers : cursor[q] <= cursor'[q] /\ cursor[q] \in Nat /\ cursor'[q] \in Nat
  <2>1. \A q \in Readers : cursor[q] \in Nat /\ cursor'[q] \in Nat
    BY <1>1, Bounds DEF TypeOK
  <2> QED BY <2>1
<1>6. GoneShape'
  <2>1. \A q \in Readers : cursor'[q] <= lastSeq'
    BY <1>1, <1>2 DEF GoneShape
  <2>2. \A s \in Rows, q \in Readers : s <= cursor[q] => s <= cursor'[q]
    BY <1>5, Bounds
  <2> QED BY <2>1, <2>2, <1>1, <1>2, <1>4 DEF GoneShape
<1>7. Accounted'
  <2> SUFFICES ASSUME NEW q \in Readers, NEW s \in Rows, s <= cursor'[q]
               PROVE  s \in served'[q] \cup told'[q] \cup pruned'[q] \cup inverted'[q] \/ RolledBack(s)'
    BY DEF Accounted
  <2>1. CASE q # r \/ s <= cursor[r]
    BY <2>1, <1>1, <1>2, <1>4 DEF Accounted
  <2>2. CASE q = r /\ cursor[r] < s
    BY <2>2, <1>2, <1>4
  <2> QED BY <2>1, <2>2, <1>5, Bounds
<1> QED BY <1>3, <1>6, <1>7 DEF IInv

LEMMA CheckStep ==
  ASSUME IInv, TypeOK', NEW r \in Readers, CheckWindow(r)
  PROVE  IInv'
<1>1. TypeOK /\ RowShape /\ GoneShape
  BY DEF IInv
<1>2. /\ UNCHANGED <<feed, served, pruned, inverted>>
      /\ \A q \in Readers \ {r} : cursor'[q] = cursor[q] /\ told'[q] = told[q]
  BY <1>1, CheckEffect
<1>3. cursor[r] \in Nat /\ lastSeq \in Nat
  BY <1>1, Bounds DEF TypeOK
<1>4. CASE cursor' = cursor /\ told' = told
  BY <1>1, <1>2, <1>3, <1>4, Bounds, AccountedStep DEF GoneShape
<1>5. CASE \E oldest \in Rows :
             /\ Visible(oldest) /\ oldest > cursor[r] + 1
             /\ cursor'[r] = oldest - 1
             /\ told'[r] = told[r] \cup (cursor[r] + 1) .. (oldest - 1)
  <2>1. PICK oldest \in Rows :
             /\ Visible(oldest) /\ oldest > cursor[r] + 1
             /\ cursor'[r] = oldest - 1
             /\ told'[r] = told[r] \cup (cursor[r] + 1) .. (oldest - 1)
    BY <1>5
  <2>2. oldest <= lastSeq
    BY <2>1, <1>1, <1>3, Bounds DEF RowShape, Visible
  <2>3. \A s \in Rows : cursor[r] < s /\ s <= cursor'[r] => s \in told'[r]
    BY <2>1, <1>3, Bounds
  <2>4. told[r] \subseteq told'[r] /\ cursor[r] <= cursor'[r] /\ cursor'[r] <= lastSeq
    BY <2>1, <2>2, <1>3, Bounds
  <2> QED BY <2>3, <2>4, <1>2, AccountedStep
<1> QED BY <1>1, <1>4, <1>5, CheckEffect

LEMMA PageStep ==
  ASSUME IInv, TypeOK', NEW r \in Readers, ReadPage(r)
  PROVE  IInv'
<1>1. TypeOK /\ RowShape /\ GoneShape
  BY DEF IInv
<1>2. /\ UNCHANGED <<feed, pruned>> /\ told[r] \subseteq told'[r]
      /\ \A q \in Readers \ {r} : /\ cursor'[q] = cursor[q] /\ told'[q] = told[q]
                                  /\ served'[q] = served[q] /\ inverted'[q] = inverted[q]
  BY <1>1, PageEffect
<1>3. cursor[r] \in Nat /\ lastSeq \in Nat
  BY <1>1, Bounds DEF TypeOK
<1>4. CASE cursor' = cursor /\ served' = served /\ inverted' = inverted
  BY <1>1, <1>2, <1>3, <1>4, Bounds, AccountedStep DEF GoneShape
<1>5. CASE \E last \in Page(r) :
             /\ \A s \in Page(r) : s <= last
             /\ cursor'[r] = last
             /\ served'[r] = served[r] \cup Page(r)
             /\ inverted'[r] = inverted[r] \cup PassedOver(r)
  <2>1. PICK last \in Page(r) :
             /\ cursor'[r] = last
             /\ served'[r] = served[r] \cup Page(r)
             /\ inverted'[r] = inverted[r] \cup PassedOver(r)
    BY <1>5
  <2>2. last \in Rows /\ last > cursor[r] /\ last <= lastSeq
    BY <1>1, <1>3, Bounds DEF Page, After, Settled, Visible, RowShape
  <2>3. ASSUME NEW s \in Rows, cursor[r] < s, s <= last
        PROVE  s \in served'[r] \cup told'[r] \cup pruned[r] \cup inverted'[r] \/ RolledBack(s)
    <3>1. CASE s \in Page(r)
      BY <3>1, <2>1
    <3>2. CASE s \notin Page(r) /\ Present(s)
      <4>1. s < last
        BY <3>2, <2>2, <2>3, Bounds
      <4> QED BY <4>1, <3>2, <2>1, <2>3, PageLeavesOut
    <3>3. CASE rows[s].st = "gone"
      <4>1. ~(s <= cursor[r])
        BY <2>3, <1>3, Bounds
      <4> QED BY <4>1, <3>3, <1>1 DEF GoneShape
    <3>4. rows[s].st # "unused"
      BY <2>2, <2>3, <1>1, <1>3, Bounds DEF RowShape
    <3>5. rows[s].st \in {"unused", "open", "committed", "gone"}
      BY <1>1, FieldTypes DEF TypeOK
    <3> QED BY <3>1, <3>2, <3>3, <3>4, <3>5 DEF Present
  <2>4. /\ served[r] \subseteq served'[r] /\ inverted[r] \subseteq inverted'[r]
        /\ cursor[r] <= cursor'[r] /\ cursor'[r] <= lastSeq
    BY <2>1, <2>2, <1>3, Bounds
  <2> QED BY <2>1, <2>3, <2>4, <1>2, AccountedStep
<1> QED BY <1>1, <1>4, <1>5, PageEffect

-----------------------------------------------------------------------------
(* The theorems.                                                           *)

LEMMA InvStep == IInv /\ [Next]_vars => IInv'
<1> SUFFICES ASSUME IInv, [Next]_vars PROVE IInv'
  OBVIOUS
<1>0. TypeOK'
  BY TypeStep DEF IInv
<1>1. ASSUME NEW x \in Xids, BeginWrite(x) PROVE IInv'
  <2>1. 0 \in 0 .. MaxRows
    BY Bounds
  <2> QED BY <1>0, <1>1, <2>1, BeginStep DEF BeginWrite
<1>2. ASSUME NEW x \in Xids, NEW s \in Rows, Update(x, s) PROVE IInv'
  <2>1. s \in 0 .. MaxRows
    BY Bounds
  <2> QED BY <1>0, <1>2, <2>1, BeginStep DEF Update
<1>3. ASSUME UNCHANGED vars PROVE IInv'
  <2>1. UNCHANGED <<feed, reading, pruned>> /\ IInv
    BY <1>3 DEF vars
  <2>2. TxShape' /\ RowShape' /\ LockShape' /\ EventsInCommitOrder'
    BY <2>1 DEF IInv, TxShape, RowShape, LockShape, EventsInCommitOrder, Running, Present, Writes,
                OpenEvent, feed
  <2>3. GoneShape' /\ Accounted'
    BY <2>1 DEF IInv, GoneShape, Accounted, RolledBack, feed, reading
  <2> QED BY <1>0, <2>2, <2>3 DEF IInv
<1> QED BY <1>0, <1>1, <1>2, <1>3, InsertStep, CommitStep, RollbackStep, ReapStep, CheckStep, PageStep
        DEF Next

LEMMA Invariant == Spec => []IInv
BY InvInit, InvStep, PTL DEF Spec

\* Event rows commit in the order of their sequences (take_event_append_lock), for any
\* number of transactions, rows and readers.
THEOREM CommitOrder == Spec => []EventsInCommitOrder
BY Invariant, PTL DEF IInv

\* Every row a consumer's cursor has passed was served to it, announced, rolled back,
\* deleted before the page reached it, or passed over for an older xid
\* (events_page_after and events_after), for any page size.
THEOREM NothingUnaccounted == Spec => []Accounted
BY Invariant, PTL DEF IInv

-----------------------------------------------------------------------------
(*                            The hashing pool                             *)
-----------------------------------------------------------------------------
(* Depths, keys and fills.                                                 *)

LEMMA Depths ==
  /\ PerEnv \in Nat \ {0} /\ PerTenant \in Nat \ {0} /\ Global \in Nat \ {0}
  /\ PerEnv <= PerTenant /\ 2 * PerTenant <= Global
  /\ IsFiniteSet(Calls) /\ Calls \subseteq Nat /\ 0 \notin Calls
<1>1. Cardinality(Calls) \in Nat
  BY DepthAssumption, FS_CardinalityType
<1> QED BY <1>1, DepthAssumption

LEMMA KeyIn == ASSUME NEW c \in Calls PROVE KeyOf[c] \in Keys /\ KeyOf[c][1] \in Tenants
BY DEF Keys, Tenants

LEMMA WaitingIs ==
  ASSUME PoolTypeOK, NEW k \in Keys
  PROVE  sub[k] \in Seq(Calls) /\ Waiting(k) \in Nat
BY DEF PoolTypeOK, Waiting

\* What waits is finite, and a tenant's fill is a part of it.
LEMMA FillsFinite ==
  /\ IsFiniteSet({c \in Calls : Queued(c)})
  /\ Cardinality({c \in Calls : Queued(c)}) \in Nat
  /\ \A t : IsFiniteSet(FillOf(t)) /\ Cardinality(FillOf(t)) \in Nat
<1> DEFINE All == {c \in Calls : Queued(c)}
<1>1. IsFiniteSet(All) /\ Cardinality(All) \in Nat
  <2>1. All \subseteq Calls
    OBVIOUS
  <2> HIDE DEF All
  <2> QED BY <2>1, Depths, FS_Subset, FS_CardinalityType
<1>2. ASSUME NEW t PROVE IsFiniteSet(FillOf(t)) /\ Cardinality(FillOf(t)) \in Nat
  <2>1. FillOf(t) \subseteq Calls
    BY DEF FillOf
  <2> QED BY <2>1, Depths, FS_Subset, FS_CardinalityType
<1> QED BY <1>1, <1>2

-----------------------------------------------------------------------------
(* Shedding.                                                               *)

\* A pool that is full holds jobs of three tenants: two fit in it with room to spare.
LEMMA ShedIsDeserved ==
  ASSUME PoolInv, NEW k \in Keys, Shedding(k)
  PROVE  Deserved(k)
<1> DEFINE All == {c \in Calls : Queued(c)}
<1>1. PoolTypeOK /\ CountShape /\ k[1] \in Tenants
  BY DEF PoolInv, Tenants
<1>2. CASE Waiting(k) >= PerEnv \/ totals[k[1]] >= PerTenant
  BY <1>1, <1>2 DEF Deserved, CountShape
<1>3. CASE total >= Global
  <2> SUFFICES ASSUME Cardinality(FillOf(k[1])) < PerTenant,
                      ~ \E t, u \in Tenants \ {k[1]} : t # u /\ FillOf(t) # {} /\ FillOf(u) # {}
               PROVE  FALSE
    BY FillsFinite, Depths DEF Deserved
  <2>1. PICK S : /\ All \subseteq FillOf(k[1]) \cup S /\ IsFiniteSet(S)
                 /\ Cardinality(S) \in Nat /\ Cardinality(S) <= PerTenant
    <3>1. CASE \E t \in Tenants \ {k[1]} : FillOf(t) # {}
      <4>1. PICK t \in Tenants \ {k[1]} : FillOf(t) # {}
        BY <3>1
      <4>2. All \subseteq FillOf(k[1]) \cup FillOf(t)
        <5> SUFFICES ASSUME NEW c \in Calls, Queued(c), c \notin FillOf(k[1]) PROVE c \in FillOf(t)
          OBVIOUS
        <5>1. KeyOf[c][1] \in Tenants \ {k[1]} /\ c \in FillOf(KeyOf[c][1])
          BY KeyIn DEF FillOf
        <5> QED BY <4>1, <5>1
      <4>3. Cardinality(FillOf(t)) <= PerTenant
        BY <1>1 DEF CountShape
      <4> QED BY <4>2, <4>3, FillsFinite
    <3>2. CASE \A t \in Tenants \ {k[1]} : FillOf(t) = {}
      <4>1. All \subseteq FillOf(k[1]) \cup {}
        <5> SUFFICES ASSUME NEW c \in Calls, Queued(c) PROVE c \in FillOf(k[1])
          OBVIOUS
        <5> QED BY <3>2, KeyIn DEF FillOf
      <4> QED BY <4>1, FS_EmptySet, Depths
    <3> QED BY <3>1, <3>2
  <2>2. Cardinality(All) <= Cardinality(FillOf(k[1]) \cup S)
        /\ Cardinality(FillOf(k[1]) \cup S) \in Nat
    <3>1. IsFiniteSet(FillOf(k[1]) \cup S)
      BY <2>1, FillsFinite, FS_Union
    <3> HIDE DEF All
    <3> QED BY <2>1, <3>1, FS_Subset, FS_CardinalityType
  <2>3. Cardinality(FillOf(k[1]) \cup S) <= Cardinality(FillOf(k[1])) + Cardinality(S)
    <3>1. IsFiniteSet(FillOf(k[1]) \cap S)
      BY <2>1, FS_Intersection
    <3>2. Cardinality(FillOf(k[1]) \cap S) \in Nat
      BY <3>1, FS_CardinalityType
    <3>3. Cardinality(FillOf(k[1]) \cup S)
            = Cardinality(FillOf(k[1])) + Cardinality(S) - Cardinality(FillOf(k[1]) \cap S)
      BY <2>1, FillsFinite, FS_Union
    <3> QED BY <3>2, <3>3, <2>1, <2>2, FillsFinite
  <2>4. Cardinality(All) = total /\ Cardinality(All) \in Nat
    BY <1>1, FillsFinite DEF CountShape
  <2> QED BY <1>3, <2>1, <2>2, <2>3, <2>4, FillsFinite, Depths
<1> QED BY <1>2, <1>3 DEF Shedding


-----------------------------------------------------------------------------
(* FairQueue::push and FairQueue::pop.                                     *)

\* The job of a call that was new is appended to the sub-queue of its key.
LEMMA PushSub ==
  ASSUME PoolTypeOK, SubShape, NEW c \in Calls, call[c] = "new",
         call' = [call EXCEPT ![c] = "awaiting"],
         sub' = [sub EXCEPT ![KeyOf[c]] = Append(@, c)]
  PROVE  /\ sub' \in [Keys -> Seq(Calls)] /\ SubShape'
         /\ ~Queued(c) /\ \A b \in Calls : Queued(b)' <=> b = c \/ Queued(b)
         /\ \A k \in Keys : Waiting(k)' = Waiting(k) + (IF k = KeyOf[c] THEN 1 ELSE 0)
<1> DEFINE h == KeyOf[c]
<1>1. h \in Keys /\ sub[h] \in Seq(Calls) /\ Len(sub[h]) \in Nat /\ Waiting(h) = Len(sub[h])
  BY KeyIn DEF PoolTypeOK, Waiting
<1>2. /\ Append(sub[h], c) \in Seq(Calls) /\ Len(Append(sub[h], c)) = Len(sub[h]) + 1
      /\ \A i \in 1 .. Len(sub[h]) : Append(sub[h], c)[i] = sub[h][i]
      /\ Append(sub[h], c)[Len(sub[h]) + 1] = c
  BY <1>1, AppendProperties
<1>3. /\ sub'[h] = Append(sub[h], c) /\ \A k \in Keys : k # h => sub'[k] = sub[k]
      /\ sub' \in [Keys -> Seq(Calls)]
  BY <1>1, <1>2 DEF PoolTypeOK
<1>4. \A k \in Keys : Waiting(k)' = Waiting(k) + (IF k = h THEN 1 ELSE 0) /\ Waiting(k) \in Nat
  <2> SUFFICES ASSUME NEW k \in Keys
               PROVE  Waiting(k)' = Waiting(k) + (IF k = h THEN 1 ELSE 0) /\ Waiting(k) \in Nat
    OBVIOUS
  <2>1. Waiting(k) \in Nat
    BY WaitingIs
  <2>2. CASE k = h
    BY <1>1, <1>2, <1>3, <2>2 DEF Waiting
  <2>3. CASE k # h
    BY <1>3, <2>1, <2>3 DEF Waiting
  <2> QED BY <2>1, <2>2, <2>3
<1>5. \A k \in Keys, i \in Nat :
        /\ i \in 1 .. Waiting(k) => sub'[k][i] = sub[k][i] /\ i \in 1 .. Waiting(k)'
        /\ i \in 1 .. Waiting(k)' => \/ i \in 1 .. Waiting(k)
                                     \/ k = h /\ i = Waiting(h) + 1 /\ sub'[k][i] = c
  <2> SUFFICES ASSUME NEW k \in Keys, NEW i \in Nat
               PROVE  /\ i \in 1 .. Waiting(k) => sub'[k][i] = sub[k][i] /\ i \in 1 .. Waiting(k)'
                      /\ i \in 1 .. Waiting(k)' => \/ i \in 1 .. Waiting(k)
                                                   \/ k = h /\ i = Waiting(h) + 1 /\ sub'[k][i] = c
    OBVIOUS
  <2>1. CASE k = h
    BY <1>1, <1>2, <1>3, <1>4, <2>1
  <2>2. CASE k # h
    BY <1>3, <1>4, <2>2
  <2> QED BY <2>1, <2>2
<1>6. \A k \in Keys : \A i \in 1 .. Waiting(k) : sub[k][i] \in Calls /\ sub[k][i] # c
  <2> SUFFICES ASSUME NEW k \in Keys, NEW i \in 1 .. Waiting(k) PROVE sub[k][i] \in Calls /\ sub[k][i] # c
    OBVIOUS
  <2>1. sub[k] \in Seq(Calls) /\ i \in 1 .. Len(sub[k])
    BY DEF PoolTypeOK, Waiting
  <2> QED BY <2>1, ElementOfSeq DEF SubShape
<1>7. SubShape'
  <2> SUFFICES ASSUME NEW k \in Keys, NEW i \in 1 .. Waiting(k)'
               PROVE  /\ KeyOf[sub'[k][i]] = k /\ call'[sub'[k][i]] # "new"
                      /\ \A j \in 1 .. Waiting(k)' : sub'[k][i] = sub'[k][j] => i = j
    BY DEF SubShape
  <2>1. Waiting(k) \in Nat /\ Waiting(k)' \in Nat /\ i \in Nat
    BY <1>4
  <2>2. CASE i \in 1 .. Waiting(k)
    <3>1. /\ sub'[k][i] = sub[k][i] /\ sub[k][i] \in Calls /\ sub[k][i] # c
          /\ KeyOf[sub[k][i]] = k /\ call[sub[k][i]] # "new"
      BY <1>5, <1>6, <2>1, <2>2 DEF SubShape
    <3>2. call'[sub[k][i]] # "new"
      BY <3>1 DEF PoolTypeOK
    <3>3. ASSUME NEW j \in 1 .. Waiting(k)', sub'[k][i] = sub'[k][j] PROVE i = j
      <4>1. j \in Nat
        BY <2>1
      <4>2. CASE j \in 1 .. Waiting(k)
        <5>1. sub[k][i] = sub[k][j]
          BY <1>5, <3>1, <3>3, <4>1, <4>2
        <5> QED BY <2>2, <4>2, <5>1 DEF SubShape
      <4>3. CASE sub'[k][j] = c
        BY <3>1, <3>3, <4>3
      <4> QED BY <1>5, <4>1, <4>2, <4>3
    <3> QED BY <3>1, <3>2, <3>3
  <2>3. CASE k = h /\ i = Waiting(h) + 1 /\ sub'[k][i] = c
    <3>1. call'[c] # "new"
      BY DEF PoolTypeOK
    <3>2. ASSUME NEW j \in 1 .. Waiting(k)', sub'[k][i] = sub'[k][j] PROVE i = j
      <4>1. j \in Nat
        BY <2>1
      <4>2. CASE j \in 1 .. Waiting(k)
        <5>1. sub'[k][j] = sub[k][j] /\ sub[k][j] # c
          BY <1>5, <1>6, <4>1, <4>2
        <5> QED BY <5>1, <2>3, <3>2
      <4>3. CASE j = Waiting(h) + 1
        BY <2>3, <4>3
      <4> QED BY <1>5, <4>1, <4>2, <4>3
    <3> QED BY <2>3, <3>1, <3>2
  <2> QED BY <1>5, <2>1, <2>2, <2>3
<1>8. ~Queued(c) /\ \A b \in Calls : Queued(b)' <=> b = c \/ Queued(b)
  <2>1. ~Queued(c)
    BY <1>1, <1>6 DEF Queued
  <2>2. Queued(c)'
    <3>1. Waiting(h) + 1 \in 1 .. Waiting(h)' /\ sub'[h][Waiting(h) + 1] = c
      BY <1>1, <1>2, <1>3, <1>4
    <3> QED BY <3>1 DEF Queued
  <2>3. ASSUME NEW b \in Calls, b # c PROVE Queued(b)' <=> Queued(b)
    <3>1. KeyOf[b] \in Keys /\ Waiting(KeyOf[b]) \in Nat /\ Waiting(KeyOf[b])' \in Nat
      BY <1>4, KeyIn
    <3>2. Queued(b) => Queued(b)'
      <4> SUFFICES ASSUME NEW i \in 1 .. Waiting(KeyOf[b]), sub[KeyOf[b]][i] = b PROVE Queued(b)'
        BY DEF Queued
      <4>1. i \in Nat
        BY <3>1
      <4> QED BY <1>5, <3>1, <4>1 DEF Queued
    <3>3. Queued(b)' => Queued(b)
      <4> SUFFICES ASSUME NEW i \in 1 .. Waiting(KeyOf[b])', sub'[KeyOf[b]][i] = b PROVE Queued(b)
        BY DEF Queued
      <4>1. i \in Nat
        BY <3>1
      <4> QED BY <1>5, <2>3, <3>1, <4>1 DEF Queued
    <3> QED BY <3>2, <3>3
  <2> QED BY <2>1, <2>2, <2>3
<1> QED BY <1>3, <1>4, <1>7, <1>8

\* The first job of sub-queue h is taken.
LEMMA PopSub ==
  ASSUME PoolTypeOK, SubShape, NEW h \in Keys, Waiting(h) > 0,
         UNCHANGED call, sub' = [sub EXCEPT ![h] = Tail(@)]
  PROVE  /\ sub' \in [Keys -> Seq(Calls)] /\ SubShape'
         /\ Head(sub[h]) \in Calls /\ KeyOf[Head(sub[h])] = h /\ Queued(Head(sub[h]))
         /\ \A b \in Calls : Queued(b)' <=> Queued(b) /\ b # Head(sub[h])
         /\ \A k \in Keys : Waiting(k)' = Waiting(k) - (IF k = h THEN 1 ELSE 0)
<1> DEFINE c == Head(sub[h])
<1>0. ASSUME NEW k \in Keys, NEW i \in 1 .. Waiting(k)
      PROVE  /\ KeyOf[sub[k][i]] = k /\ call[sub[k][i]] # "new"
             /\ \A j \in 1 .. Waiting(k) : sub[k][i] = sub[k][j] => i = j
  BY DEF SubShape
<1>1. sub[h] \in Seq(Calls) /\ sub[h] # <<>> /\ Len(sub[h]) \in Nat /\ Waiting(h) = Len(sub[h])
  <2>1. sub[h] \in Seq(Calls) /\ Len(sub[h]) \in Nat /\ Waiting(h) = Len(sub[h])
    BY DEF PoolTypeOK, Waiting
  <2> QED BY <2>1, EmptySeq
<1>2. /\ Tail(sub[h]) \in Seq(Calls) /\ Len(Tail(sub[h])) = Len(sub[h]) - 1
      /\ \A i \in 1 .. Len(Tail(sub[h])) : Tail(sub[h])[i] = sub[h][i + 1]
      /\ c \in Calls /\ c = sub[h][1]
  <2>1. c = sub[h][1]
    BY <1>1
  <2> QED BY <1>1, <2>1, HeadTailProperties
<1>3. /\ sub'[h] = Tail(sub[h]) /\ \A k \in Keys : k # h => sub'[k] = sub[k]
      /\ sub' \in [Keys -> Seq(Calls)]
  BY <1>2 DEF PoolTypeOK
<1>4. \A k \in Keys : Waiting(k)' = Waiting(k) - (IF k = h THEN 1 ELSE 0) /\ Waiting(k) \in Nat
                      /\ Waiting(k)' \in Nat
  <2> SUFFICES ASSUME NEW k \in Keys
               PROVE  Waiting(k)' = Waiting(k) - (IF k = h THEN 1 ELSE 0) /\ Waiting(k) \in Nat
                      /\ Waiting(k)' \in Nat
    OBVIOUS
  <2>1. Waiting(k) \in Nat
    BY WaitingIs
  <2>2. CASE k = h
    BY <1>1, <1>2, <1>3, <2>2 DEF Waiting
  <2>3. CASE k # h
    BY <1>3, <2>1, <2>3 DEF Waiting
  <2> QED BY <2>1, <2>2, <2>3
<1>5. \A i \in Nat : i \in 1 .. Waiting(h)' => sub'[h][i] = sub[h][i + 1] /\ i + 1 \in 1 .. Waiting(h)
  BY <1>1, <1>2, <1>3, <1>4
<1>6. SubShape'
  <2> SUFFICES ASSUME NEW k \in Keys, NEW i \in 1 .. Waiting(k)'
               PROVE  /\ KeyOf[sub'[k][i]] = k /\ call'[sub'[k][i]] # "new"
                      /\ \A j \in 1 .. Waiting(k)' : sub'[k][i] = sub'[k][j] => i = j
    BY DEF SubShape
  <2>1. CASE k = h
    <3>1. i \in Nat /\ \A j \in 1 .. Waiting(h)' : j \in Nat
      BY <1>4
    <3>2. PICK p \in 1 .. Waiting(h) : p = i + 1 /\ sub'[h][i] = sub[h][p]
      BY <1>5, <2>1, <3>1
    <3>3. /\ KeyOf[sub[h][p]] = h /\ call[sub[h][p]] # "new"
          /\ \A q \in 1 .. Waiting(h) : sub[h][p] = sub[h][q] => p = q
      BY <1>0
    <3>4. ASSUME NEW j \in 1 .. Waiting(h)', sub'[h][i] = sub'[h][j] PROVE i = j
      <4>1. PICK q \in 1 .. Waiting(h) : q = j + 1 /\ sub'[h][j] = sub[h][q]
        BY <1>5, <3>1
      <4>2. p = q
        <5>1. sub[h][p] = sub[h][q]
          BY <3>2, <3>4, <4>1
        <5> QED BY <3>3, <5>1
      <4> QED BY <4>1, <4>2, <3>1, <3>2
    <3>5. KeyOf[sub'[h][i]] = h /\ call'[sub'[h][i]] # "new"
      BY <3>2, <3>3
    <3> QED BY <2>1, <3>4, <3>5
  <2>2. CASE k # h
    <3>1. sub'[k] = sub[k] /\ Waiting(k)' = Waiting(k)
      BY <1>3, <2>2 DEF Waiting
    <3>2. KeyOf[sub[k][i]] = k /\ call[sub[k][i]] # "new"
          /\ \A j \in 1 .. Waiting(k) : sub[k][i] = sub[k][j] => i = j
      BY <1>0, <3>1
    <3> QED BY <3>1, <3>2
  <2> QED BY <2>1, <2>2
<1>7. KeyOf[c] = h /\ Queued(c)
  <2>1. 1 \in 1 .. Waiting(h)
    BY <1>4
  <2>2. KeyOf[c] = h
    BY <1>0, <1>2, <2>1
  <2> QED BY <1>2, <2>1, <2>2 DEF Queued
<1>8. ASSUME NEW b \in Calls PROVE Queued(b)' <=> Queued(b) /\ b # c
  <2>1. CASE KeyOf[b] = h
    <3>1. Queued(b)' => Queued(b) /\ b # c
      <4> SUFFICES ASSUME NEW i \in 1 .. Waiting(h)', sub'[h][i] = b PROVE Queued(b) /\ b # c
        BY <2>1 DEF Queued
      <4>0. i \in Nat
        BY <1>4
      <4>1. i \in Nat /\ sub[h][i + 1] = b /\ i + 1 \in 1 .. Waiting(h)
        BY <1>5, <4>0
      <4>2. b # c
        <5>1. 1 \in 1 .. Waiting(h) /\ i + 1 # 1
          BY <1>4, <4>1
        <5> QED BY <1>0, <1>2, <4>1, <5>1
      <4> QED BY <2>1, <4>1, <4>2 DEF Queued
    <3>2. Queued(b) /\ b # c => Queued(b)'
      <4> SUFFICES ASSUME NEW i \in 1 .. Waiting(h), sub[h][i] = b, b # c PROVE Queued(b)'
        BY <2>1 DEF Queued
      <4>1. i \in Nat /\ i # 1
        BY <1>2, <1>4
      <4>2. i - 1 \in 1 .. Waiting(h)' /\ i - 1 \in Nat /\ (i - 1) + 1 = i
        BY <1>4, <4>1
      <4>3. sub'[h][i - 1] = b
        BY <1>5, <4>2
      <4> QED BY <2>1, <4>2, <4>3 DEF Queued
    <3> QED BY <3>1, <3>2
  <2>2. CASE KeyOf[b] # h
    <3>1. sub'[KeyOf[b]] = sub[KeyOf[b]] /\ b # c
      BY <1>3, <1>7, <2>2, KeyIn
    <3> QED BY <3>1 DEF Queued, Waiting
  <2> QED BY <2>1, <2>2
<1> QED BY <1>2, <1>3, <1>4, <1>6, <1>7, <1>8

\* The counters follow the jobs.
LEMMA CountsAdd ==
  ASSUME PoolTypeOK, CountShape, NEW c \in Calls, ~Queued(c),
         \A b \in Calls : Queued(b)' <=> b = c \/ Queued(b),
         totals[KeyOf[c][1]] < PerTenant,
         total' = total + 1, totals' = [totals EXCEPT ![KeyOf[c][1]] = @ + 1]
  PROVE  total' \in Nat /\ totals' \in [Tenants -> Nat] /\ CountShape'
<1> DEFINE u == KeyOf[c][1]
           All == {b \in Calls : Queued(b)}
<1>1. u \in Tenants /\ totals[u] \in Nat /\ total \in Nat
  BY KeyIn DEF PoolTypeOK
<1>2. /\ totals'[u] = totals[u] + 1 /\ \A t \in Tenants : t # u => totals'[t] = totals[t]
      /\ totals' \in [Tenants -> Nat] /\ total' \in Nat
  BY <1>1 DEF PoolTypeOK
<1>3. total' = Cardinality(All')
  <2>1. All' = All \cup {c} /\ c \notin All
    OBVIOUS
  <2>2. IsFiniteSet(All) /\ Cardinality(All) = total
    BY FillsFinite DEF CountShape
  <2> HIDE DEF All
  <2> QED BY <2>1, <2>2, FS_AddElement
<1>4. ASSUME NEW t \in Tenants PROVE totals'[t] = Cardinality(FillOf(t)') /\ totals'[t] <= PerTenant
  <2>0. totals[t] = Cardinality(FillOf(t)) /\ totals[t] <= PerTenant /\ totals[t] \in Nat
    BY DEF CountShape, PoolTypeOK
  <2>1. CASE t = u
    <3>1. FillOf(t)' = FillOf(t) \cup {c} /\ c \notin FillOf(t)
      BY <2>1 DEF FillOf
    <3>2. Cardinality(FillOf(t)') = Cardinality(FillOf(t)) + 1
      BY <3>1, FillsFinite, FS_AddElement
    <3> QED BY <1>2, <2>0, <2>1, <3>2, Depths
  <2>2. CASE t # u
    <3>1. FillOf(t)' = FillOf(t)
      BY <2>2 DEF FillOf
    <3> QED BY <1>2, <2>0, <2>2, <3>1
  <2> QED BY <2>1, <2>2
<1> QED BY <1>2, <1>3, <1>4 DEF CountShape

LEMMA CountsRemove ==
  ASSUME PoolTypeOK, CountShape, NEW c \in Calls, Queued(c),
         \A b \in Calls : Queued(b)' <=> Queued(b) /\ b # c,
         total' = total - 1, totals' = [totals EXCEPT ![KeyOf[c][1]] = @ - 1]
  PROVE  total' \in Nat /\ totals' \in [Tenants -> Nat] /\ CountShape'
<1> DEFINE u == KeyOf[c][1]
           All == {b \in Calls : Queued(b)}
<1>1. total' = Cardinality(All') /\ total' \in Nat
  <2>1. All' = All \ {c} /\ c \in All
    OBVIOUS
  <2>2. IsFiniteSet(All) /\ Cardinality(All) = total
    BY FillsFinite DEF CountShape
  <2> HIDE DEF All
  <2>3. Cardinality(All') = Cardinality(All) - 1 /\ IsFiniteSet(All')
    BY <2>1, <2>2, FS_RemoveElement
  <2> QED BY <2>2, <2>3, FS_CardinalityType
<1>2. u \in Tenants /\ FillOf(u)' = FillOf(u) \ {c} /\ c \in FillOf(u)
  BY KeyIn DEF FillOf
<1>3. Cardinality(FillOf(u)') = totals[u] - 1 /\ totals[u] - 1 \in Nat /\ totals[u] \in Nat
  <2>1. Cardinality(FillOf(u)') = Cardinality(FillOf(u)) - 1 /\ IsFiniteSet(FillOf(u)')
    BY <1>2, FillsFinite, FS_RemoveElement
  <2>2. Cardinality(FillOf(u)') \in Nat
    BY <2>1, FS_CardinalityType
  <2> QED BY <1>2, <2>1, <2>2 DEF CountShape, PoolTypeOK
<1>4. /\ totals'[u] = totals[u] - 1 /\ \A t \in Tenants : t # u => totals'[t] = totals[t]
      /\ totals' \in [Tenants -> Nat]
  BY <1>2, <1>3 DEF PoolTypeOK
<1>5. ASSUME NEW t \in Tenants PROVE totals'[t] = Cardinality(FillOf(t)') /\ totals'[t] <= PerTenant
  <2>0. totals[t] = Cardinality(FillOf(t)) /\ totals[t] <= PerTenant
    BY DEF CountShape
  <2>1. CASE t = u
    BY <1>3, <1>4, <2>0, <2>1, Depths
  <2>2. CASE t # u
    <3>1. FillOf(t)' = FillOf(t)
      BY <2>2 DEF FillOf
    <3> QED BY <1>4, <2>0, <2>2, <3>1
  <2> QED BY <2>1, <2>2
<1> QED BY <1>1, <1>4, <1>5 DEF CountShape

-----------------------------------------------------------------------------
(* The schedule.                                                           *)

\* A sequence without repetition.
Once(o) == \A i, j \in 1 .. Len(o) : o[i] = o[j] => i = j

\* The one place of a key in such a sequence.
LEMMA OnePlace ==
  ASSUME NEW o, Once(o), NEW k, NEW i \in 1 .. Len(o), o[i] = k
  PROVE  (CHOOSE j \in 1 .. Len(o) : o[j] = k) = i
<1> DEFINE p == CHOOSE j \in 1 .. Len(o) : o[j] = k
<1>1. p \in 1 .. Len(o) /\ o[p] = k
  OBVIOUS
<1> QED BY <1>1 DEF Once

\* A key that is absent may be appended.
LEMMA OnceAppend ==
  ASSUME NEW o \in Seq(Keys), Once(o), NEW k \in Keys, ~ \E i \in 1 .. Len(o) : o[i] = k
  PROVE  /\ Append(o, k) \in Seq(Keys) /\ Once(Append(o, k))
         /\ \A i \in 1 .. Len(o) : i \in 1 .. Len(Append(o, k)) /\ Append(o, k)[i] = o[i]
         /\ \A g : (\E i \in 1 .. Len(Append(o, k)) : Append(o, k)[i] = g)
                     <=> g = k \/ \E i \in 1 .. Len(o) : o[i] = g
<1> DEFINE a == Append(o, k)
           n == Len(o)
<1>1. /\ a \in Seq(Keys) /\ Len(a) = n + 1 /\ n \in Nat
      /\ \A i \in 1 .. n : a[i] = o[i]
      /\ a[n + 1] = k
  BY AppendProperties
<1>2. 1 .. Len(a) = 1 .. n \cup {n + 1} /\ n + 1 \notin 1 .. n
  BY <1>1
<1>3. \A i \in 1 .. n : a[i] = o[i] /\ a[i] # k
  BY <1>1
<1> HIDE DEF a, n
<1>4. Once(a)
  <2> SUFFICES ASSUME NEW i \in 1 .. Len(a), NEW j \in 1 .. Len(a), a[i] = a[j] PROVE i = j
    BY DEF Once
  <2>1. CASE i = n + 1
    BY <1>1, <1>2, <1>3, <2>1
  <2>2. CASE j = n + 1
    BY <1>1, <1>2, <1>3, <2>2
  <2>3. CASE i \in 1 .. n /\ j \in 1 .. n
    BY <1>1, <2>3 DEF Once, n
  <2> QED BY <1>2, <2>1, <2>2, <2>3
<1>5. ASSUME NEW g PROVE (\E i \in 1 .. Len(a) : a[i] = g) <=> g = k \/ \E i \in 1 .. n : o[i] = g
  <2>1. (\E i \in 1 .. Len(a) : a[i] = g) <=> a[n + 1] = g \/ \E i \in 1 .. n : a[i] = g
    BY <1>2
  <2> QED BY <1>1, <2>1
<1> QED BY <1>1, <1>2, <1>4, <1>5 DEF a, n

\* Its first key may be taken away.
LEMMA OnceTail ==
  ASSUME NEW o \in Seq(Keys), Once(o), o # <<>>
  PROVE  /\ Tail(o) \in Seq(Keys) /\ Once(Tail(o)) /\ Head(o) \in Keys
         /\ 1 \in 1 .. Len(o) /\ o[1] = Head(o)
         /\ \A i \in 1 .. Len(o) : o[i] # Head(o) =>
              i \in Int /\ i - 1 \in 1 .. Len(Tail(o)) /\ Tail(o)[i - 1] = o[i]
         /\ \A g : (\E i \in 1 .. Len(Tail(o)) : Tail(o)[i] = g)
                     <=> g # Head(o) /\ \E i \in 1 .. Len(o) : o[i] = g
<1> DEFINE t == Tail(o)
           n == Len(o)
<1>1. /\ t \in Seq(Keys) /\ Len(t) = n - 1 /\ n \in Nat /\ n > 0 /\ Head(o) \in Keys
      /\ \A i \in 1 .. Len(t) : t[i] = o[i + 1]
  BY HeadTailProperties, EmptySeq, LenProperties
<1>2. o[1] = Head(o)
  OBVIOUS
<1>3. \A i \in 1 .. n : i # 1 => i - 1 \in 1 .. Len(t) /\ t[i - 1] = o[i]
  <2> SUFFICES ASSUME NEW i \in 1 .. n, i # 1 PROVE i - 1 \in 1 .. Len(t) /\ t[i - 1] = o[i]
    OBVIOUS
  <2> DEFINE j == i - 1
  <2>1. j \in 1 .. Len(t) /\ j + 1 = i
    BY <1>1
  <2>2. t[j] = o[j + 1]
    BY <1>1, <2>1
  <2> QED BY <2>1, <2>2
<1>4. \A i \in 1 .. Len(t) : i + 1 \in 1 .. n /\ i + 1 # 1 /\ t[i] = o[i + 1]
  BY <1>1
<1> HIDE DEF t, n
<1>5. Once(t)
  <2> SUFFICES ASSUME NEW i \in 1 .. Len(t), NEW j \in 1 .. Len(t), t[i] = t[j] PROVE i = j
    BY DEF Once
  <2>1. i + 1 = j + 1
    <3>1. PICK p \in 1 .. n : p = i + 1 /\ t[i] = o[p]
      BY <1>4
    <3>2. PICK q \in 1 .. n : q = j + 1 /\ t[j] = o[q]
      BY <1>4
    <3> QED BY <3>1, <3>2 DEF Once, n
  <2> QED BY <1>1, <2>1
<1>6. 1 \in 1 .. n /\ \A i \in 1 .. n : i \in Int /\ (o[i] # Head(o) => i # 1)
  BY <1>1, <1>2
<1>7. ASSUME NEW g PROVE (\E i \in 1 .. Len(t) : t[i] = g) <=> g # Head(o) /\ \E i \in 1 .. n : o[i] = g
  <2>1. ASSUME NEW i \in 1 .. Len(t), t[i] = g PROVE g # Head(o) /\ \E p \in 1 .. n : o[p] = g
    <3>1. PICK p \in 1 .. n : p # 1 /\ o[p] = g
      BY <1>4, <2>1
    <3> QED BY <1>2, <1>6, <3>1 DEF Once, n
  <2>2. ASSUME NEW p \in 1 .. n, o[p] = g, g # Head(o) PROVE \E i \in 1 .. Len(t) : t[i] = g
    BY <1>2, <1>3, <2>2
  <2> QED BY <2>1, <2>2
<1> QED BY <1>1, <1>2, <1>3, <1>5, <1>6, <1>7 DEF t, n

\* FairQueue::push gives a sub-queue that was empty the last turn.
LEMMA TurnPush ==
  ASSUME PoolTypeOK, TurnShape, NEW h \in Keys,
         order' = IF Waiting(h) = 0 THEN Append(order, h) ELSE order,
         \A k \in Keys : Waiting(k)' = Waiting(k) + (IF k = h THEN 1 ELSE 0)
  PROVE  /\ order' \in Seq(Keys) /\ TurnShape'
         /\ \A i \in 1 .. Len(order) : i \in 1 .. Len(order') /\ order'[i] = order[i]
<1>1. order \in Seq(Keys) /\ Once(order) /\ \A k \in Keys : Waiting(k) \in Nat
  BY WaitingIs DEF PoolTypeOK, TurnShape, Once
<1>2. \A k \in Keys : Waiting(k) > 0 <=> \E i \in 1 .. Len(order) : order[i] = k
  BY DEF TurnShape
<1>3. CASE Waiting(h) = 0
  <2>1. order' = Append(order, h) /\ ~ \E i \in 1 .. Len(order) : order[i] = h
    BY <1>2, <1>3
  <2>2. /\ order' \in Seq(Keys) /\ Once(order')
        /\ \A i \in 1 .. Len(order) : i \in 1 .. Len(order') /\ order'[i] = order[i]
        /\ \A g : (\E i \in 1 .. Len(order') : order'[i] = g)
                    <=> g = h \/ \E i \in 1 .. Len(order) : order[i] = g
    BY <1>1, <2>1, OnceAppend
  <2>3. ASSUME NEW k \in Keys PROVE Waiting(k)' > 0 <=> \E i \in 1 .. Len(order') : order'[i] = k
    <3>1. Waiting(k)' > 0 <=> k = h \/ Waiting(k) > 0
      BY <1>1
    <3> QED BY <1>2, <2>2, <3>1
  <2> QED BY <2>2, <2>3 DEF TurnShape, Once
<1>4. CASE Waiting(h) # 0
  <2>1. order' = order
    BY <1>4
  <2>2. ASSUME NEW k \in Keys PROVE Waiting(k)' > 0 <=> Waiting(k) > 0
    BY <1>1, <1>4
  <2> QED BY <1>1, <1>2, <2>1, <2>2 DEF TurnShape, Once
<1> QED BY <1>3, <1>4

\* FairQueue::pop takes the first turn away, or gives it the last one.
LEMMA TurnPop ==
  ASSUME PoolTypeOK, TurnShape, order # <<>>, order' = Rotated(Head(order)),
         \A k \in Keys : Waiting(k)' = Waiting(k) - (IF k = Head(order) THEN 1 ELSE 0)
  PROVE  /\ order' \in Seq(Keys) /\ TurnShape' /\ Head(order) \in Keys
         /\ \A i \in 1 .. Len(order) : order[i] # Head(order) =>
              i \in Int /\ i - 1 \in 1 .. Len(order') /\ order'[i - 1] = order[i]
<1> DEFINE h == Head(order)
           t == Tail(order)
<1>1. order \in Seq(Keys) /\ Once(order) /\ \A k \in Keys : Waiting(k) \in Nat
  BY WaitingIs DEF PoolTypeOK, TurnShape, Once
<1>2. \A k \in Keys : Waiting(k) > 0 <=> \E i \in 1 .. Len(order) : order[i] = k
  BY DEF TurnShape
<1>3. /\ t \in Seq(Keys) /\ Once(t) /\ h \in Keys
      /\ 1 \in 1 .. Len(order) /\ order[1] = h
      /\ \A i \in 1 .. Len(order) : order[i] # h =>
           i \in Int /\ i - 1 \in 1 .. Len(t) /\ t[i - 1] = order[i]
      /\ \A g : (\E i \in 1 .. Len(t) : t[i] = g)
                  <=> g # h /\ \E i \in 1 .. Len(order) : order[i] = g
  BY <1>1, OnceTail
<1>4. Waiting(h) > 0
  BY <1>2, <1>3
<1>5. CASE Waiting(h) > 1
  <2>1. order' = Append(t, h) /\ ~ \E i \in 1 .. Len(t) : t[i] = h
    BY <1>3, <1>5 DEF Rotated
  <2> HIDE DEF h, t
  <2>2. /\ order' \in Seq(Keys) /\ Once(order')
        /\ \A i \in 1 .. Len(t) : i \in 1 .. Len(order') /\ order'[i] = t[i]
        /\ \A g : (\E i \in 1 .. Len(order') : order'[i] = g)
                    <=> g = h \/ \E i \in 1 .. Len(t) : t[i] = g
    <3>1. t \in Seq(Keys) /\ Once(t) /\ h \in Keys
      BY <1>3
    <3>2. /\ Append(t, h) \in Seq(Keys) /\ Once(Append(t, h))
          /\ \A i \in 1 .. Len(t) : i \in 1 .. Len(Append(t, h)) /\ Append(t, h)[i] = t[i]
          /\ \A g : (\E i \in 1 .. Len(Append(t, h)) : Append(t, h)[i] = g)
                      <=> g = h \/ \E i \in 1 .. Len(t) : t[i] = g
      BY <2>1, <3>1, OnceAppend
    <3> QED BY <2>1, <3>2
  <2>3. ASSUME NEW k \in Keys PROVE Waiting(k)' > 0 <=> \E i \in 1 .. Len(order') : order'[i] = k
    <3>1. Waiting(k)' > 0 <=> Waiting(k) > 0
      BY <1>1, <1>5 DEF h
    <3> QED BY <1>2, <1>3, <2>2, <3>1
  <2>4. ASSUME NEW i \in 1 .. Len(order), order[i] # h
        PROVE  i \in Int /\ i - 1 \in 1 .. Len(order') /\ order'[i - 1] = order[i]
    BY <1>3, <2>2, <2>4
  <2> QED BY <1>3, <2>2, <2>3, <2>4 DEF TurnShape, Once, h
<1>6. CASE Waiting(h) = 1
  <2>1. order' = t
    BY <1>6 DEF Rotated
  <2>2. ASSUME NEW k \in Keys PROVE Waiting(k)' > 0 <=> \E i \in 1 .. Len(order') : order'[i] = k
    <3>1. Waiting(k)' > 0 <=> k # h /\ Waiting(k) > 0
      BY <1>1, <1>6
    <3> QED BY <1>2, <1>3, <2>1, <3>1
  <2> QED BY <1>3, <2>1, <2>2 DEF TurnShape, Once
<1> QED BY <1>1, <1>3, <1>4, <1>5, <1>6

-----------------------------------------------------------------------------
(* The invariant, one action after the other.                              *)

LEMMA PoolInitInv == PoolInit => PoolInv
<1> SUFFICES ASSUME PoolInit PROVE PoolInv
  OBVIOUS
<1>1. PoolTypeOK
  BY DEF PoolInit, PoolTypeOK
<1>2. \A k \in Keys : Waiting(k) = 0
  BY DEF PoolInit, Waiting
<1>3. \A c \in Calls : ~Queued(c)
  BY <1>2, KeyIn DEF Queued
<1>4. CountShape
  <2>1. {c \in Calls : Queued(c)} = {} /\ \A t \in Tenants : FillOf(t) = {}
    BY <1>3 DEF FillOf
  <2>2. total = 0 /\ (\A t \in Tenants : totals[t] = 0) /\ 0 <= PerTenant
    BY Depths DEF PoolInit
  <2>3. Cardinality({}) = 0
    BY FS_EmptySet
  <2> QED BY <2>1, <2>2, <2>3 DEF CountShape
<1>5. SubShape /\ TurnShape
  BY <1>2 DEF SubShape, TurnShape, PoolInit
<1> QED BY <1>1, <1>4, <1>5 DEF PoolInv, ShedForOwnFill, PoolInit

\* What a step does to the turns: the second half of NoHeadOfLine.
Nearer ==
  \A k \in Keys :
    Waiting(k) > 0 /\ Waiting(k)' >= Waiting(k) =>
      Place(k)' = Place(k) - (IF total' < total THEN 1 ELSE 0)

\* A step that leaves the queue alone and makes no call new.
LEMMA QueueSame ==
  ASSUME PoolInv, PoolTypeOK', UNCHANGED <<fair, wronged>>,
         \A c \in Calls : call[c] # "new" => call'[c] # "new"
  PROVE  PoolInv' /\ Nearer
<1>1. sub' = sub /\ totals' = totals /\ order' = order /\ total' = total /\ wronged' = wronged
  BY DEF fair
<1>2. \A c \in Calls : Queued(c)' <=> Queued(c)
  BY <1>1 DEF Queued, Waiting
<1>3. CountShape'
  <2>1. {c \in Calls : Queued(c)}' = {c \in Calls : Queued(c)}
        /\ \A t \in Tenants : FillOf(t)' = FillOf(t)
    BY <1>2 DEF FillOf
  <2> QED BY <1>1, <2>1 DEF CountShape, PoolInv
<1>4. SubShape'
  <2> SUFFICES ASSUME NEW k \in Keys, NEW i \in 1 .. Waiting(k)
               PROVE  /\ KeyOf[sub[k][i]] = k /\ call'[sub[k][i]] # "new"
                      /\ \A j \in 1 .. Waiting(k) : sub[k][i] = sub[k][j] => i = j
    BY <1>1 DEF SubShape, Waiting
  <2>1. sub[k][i] \in Calls
    BY ElementOfSeq DEF PoolInv, PoolTypeOK, Waiting
  <2>2. /\ KeyOf[sub[k][i]] = k /\ call[sub[k][i]] # "new"
        /\ \A j \in 1 .. Waiting(k) : sub[k][i] = sub[k][j] => i = j
    BY DEF PoolInv, SubShape
  <2> QED BY <2>1, <2>2
<1>5. TurnShape' /\ ShedForOwnFill'
  BY <1>1 DEF PoolInv, TurnShape, ShedForOwnFill, Waiting
<1>6. Nearer
  <2> SUFFICES ASSUME NEW k \in Keys, Waiting(k) > 0
               PROVE  Place(k)' = Place(k) - (IF total' < total THEN 1 ELSE 0)
    BY DEF Nearer
  <2>1. Place(k)' = Place(k)
    BY <1>1 DEF Place
  <2>2. Place(k) \in Int
    <3>1. PICK i \in 1 .. Len(order) : order[i] = k
      BY DEF PoolInv, TurnShape
    <3>2. Place(k) = i /\ Len(order) \in Nat
      BY <3>1, OnePlace DEF PoolInv, TurnShape, Once, Place, PoolTypeOK
    <3> QED BY <3>2
  <2>3. ~ (total' < total)
    BY <1>1 DEF PoolInv, PoolTypeOK
  <2> QED BY <2>1, <2>2, <2>3
<1> QED BY <1>3, <1>4, <1>5, <1>6 DEF PoolInv

\* submit and enqueue.
LEMMA SubmitStep ==
  ASSUME PoolInv, NEW c \in Calls, Submit(c)
  PROVE  PoolInv' /\ Nearer
<1> DEFINE h == KeyOf[c]
<1>1. PoolTypeOK /\ SubShape /\ CountShape /\ TurnShape /\ h \in Keys /\ h[1] \in Tenants
  BY KeyIn DEF PoolInv
<1>2. call[c] = "new" /\ UNCHANGED <<thread, op, owner, faults>>
  BY DEF Submit
<1>3. CASE Shedding(h)
  <2>1. call' = [call EXCEPT ![c] = "over"] /\ UNCHANGED <<owed, fair>> /\ wronged' = wronged
    BY <1>1, <1>3, ShedIsDeserved DEF Submit
  <2>2. PoolTypeOK'
    BY <1>1, <1>2, <2>1 DEF PoolTypeOK, fair
  <2>3. \A b \in Calls : call[b] # "new" => call'[b] # "new"
    BY <1>1, <2>1 DEF PoolTypeOK
  <2> QED BY <2>1, <2>2, <2>3, QueueSame
<1>4. CASE ~Shedding(h)
  <2>1. /\ call' = [call EXCEPT ![c] = "awaiting"]
        /\ owed' = owed \cup {c}
        /\ sub' = [sub EXCEPT ![h] = Append(@, c)]
        /\ total' = total + 1
        /\ totals' = [totals EXCEPT ![h[1]] = @ + 1]
        /\ order' = IF Waiting(h) = 0 THEN Append(order, h) ELSE order
        /\ UNCHANGED wronged
    BY <1>4 DEF Submit
  <2>2. /\ sub' \in [Keys -> Seq(Calls)] /\ SubShape'
        /\ ~Queued(c) /\ \A b \in Calls : Queued(b)' <=> b = c \/ Queued(b)
        /\ \A k \in Keys : Waiting(k)' = Waiting(k) + (IF k = h THEN 1 ELSE 0)
    BY <1>1, <1>2, <2>1, PushSub
  <2>3. totals[h[1]] < PerTenant
    BY <1>1, <1>4, Depths DEF Shedding, PoolTypeOK
  <2>4. total' \in Nat /\ totals' \in [Tenants -> Nat] /\ CountShape'
    BY <1>1, <2>1, <2>2, <2>3, CountsAdd
  <2>5. /\ order' \in Seq(Keys) /\ TurnShape'
        /\ \A i \in 1 .. Len(order) : i \in 1 .. Len(order') /\ order'[i] = order[i]
    BY <1>1, <2>1, <2>2, TurnPush
  <2>6. call' \in [Calls -> {"new", "awaiting", "over"}] /\ owed' \subseteq Calls
    BY <1>1, <2>1 DEF PoolTypeOK
  <2>7. PoolTypeOK'
    BY <1>1, <1>2, <2>1, <2>2, <2>4, <2>5, <2>6 DEF PoolTypeOK
  <2>8. Nearer
    <3> SUFFICES ASSUME NEW k \in Keys, Waiting(k) > 0
                 PROVE  Place(k)' = Place(k) - (IF total' < total THEN 1 ELSE 0)
      BY DEF Nearer
    <3>1. PICK i \in 1 .. Len(order) : order[i] = k
      BY <1>1 DEF TurnShape
    <3>2. Once(order) /\ Once(order') /\ i \in 1 .. Len(order') /\ order'[i] = k
      BY <1>1, <2>5, <3>1 DEF TurnShape, Once
    <3>3. Place(k) = i /\ Place(k)' = i
      BY <3>1, <3>2, OnePlace DEF Place
    <3>4. Len(order) \in Nat /\ i \in Int /\ ~ (total' < total)
      BY <1>1, <2>1 DEF PoolTypeOK
    <3> QED BY <3>3, <3>4
  <2> QED BY <2>1, <2>2, <2>4, <2>5, <2>7, <2>8 DEF PoolInv, ShedForOwnFill
<1> QED BY <1>3, <1>4

\* A worker's look at the queue.
LEMMA LookStep ==
  ASSUME PoolInv, NEW w \in Workers, Look(w)
  PROVE  PoolInv' /\ Nearer
<1>1. PoolTypeOK /\ SubShape /\ CountShape /\ TurnShape
  BY DEF PoolInv
<1>2. UNCHANGED <<call, owed, owner, faults, wronged>>
  BY DEF Look
<1>3. CASE order # <<>> /\ Pop(w)
  <2> DEFINE h == Head(order)
             c == Head(sub[h])
  <2>1. /\ thread' = [thread EXCEPT ![w] = "running"]
        /\ op' = [op EXCEPT ![w] = c]
        /\ sub' = [sub EXCEPT ![h] = Tail(@)]
        /\ total' = total - 1
        /\ totals' = [totals EXCEPT ![h[1]] = @ - 1]
        /\ order' = Rotated(h)
    BY <1>3 DEF Pop, Taken
  <2>2. h \in Keys /\ Waiting(h) > 0
    <3>1. order \in Seq(Keys) /\ Once(order)
      BY <1>1 DEF PoolTypeOK, TurnShape, Once
    <3>2. h \in Keys /\ 1 \in 1 .. Len(order) /\ order[1] = h
      BY <1>3, <3>1, OnceTail
    <3> QED BY <1>1, <3>2 DEF TurnShape
  <2>3. /\ sub' \in [Keys -> Seq(Calls)] /\ SubShape'
        /\ c \in Calls /\ KeyOf[c] = h /\ Queued(c)
        /\ \A b \in Calls : Queued(b)' <=> Queued(b) /\ b # c
        /\ \A k \in Keys : Waiting(k)' = Waiting(k) - (IF k = h THEN 1 ELSE 0)
    BY <1>1, <1>2, <2>1, <2>2, PopSub
  <2>4. total' \in Nat /\ totals' \in [Tenants -> Nat] /\ CountShape'
    <3> HIDE DEF c, h
    <3> QED BY <1>1, <2>1, <2>3, CountsRemove
  <2>5. /\ order' \in Seq(Keys) /\ TurnShape'
        /\ \A i \in 1 .. Len(order) : order[i] # h =>
             i \in Int /\ i - 1 \in 1 .. Len(order') /\ order'[i - 1] = order[i]
    BY <1>1, <1>3, <2>1, <2>3, TurnPop
  <2>6. /\ thread' \in [Workers -> {"top", "parking", "waiting", "running", "gone"}]
        /\ op' \in [Workers -> Calls \cup {NONE}]
    BY <1>1, <2>1, <2>3 DEF PoolTypeOK
  <2>7. PoolTypeOK'
    BY <1>1, <1>2, <2>3, <2>4, <2>5, <2>6 DEF PoolTypeOK
  <2>8. Nearer
    <3> SUFFICES ASSUME NEW k \in Keys, Waiting(k) > 0, Waiting(k)' >= Waiting(k)
                 PROVE  Place(k)' = Place(k) - (IF total' < total THEN 1 ELSE 0)
      BY DEF Nearer
    <3>0. k # h /\ total' < total
      BY <1>1, <2>1, <2>3, WaitingIs DEF PoolTypeOK
    <3>1. PICK i \in 1 .. Len(order) : order[i] = k
      BY <1>1 DEF TurnShape
    <3>2. Once(order) /\ Once(order') /\ i - 1 \in 1 .. Len(order') /\ order'[i - 1] = k
      BY <1>1, <2>5, <3>0, <3>1 DEF TurnShape, Once
    <3>3. Place(k) = i
      BY <3>1, <3>2, OnePlace DEF Place
    <3>4. Place(k)' = i - 1
      <4> DEFINE j == i - 1
      <4>1. j \in 1 .. Len(order') /\ order'[j] = k
        BY <3>2
      <4> HIDE DEF j
      <4>2. Place(k)' = j
        BY <3>2, <4>1, OnePlace DEF Place
      <4> QED BY <4>2 DEF j
    <3> QED BY <3>0, <3>3, <3>4
  <2> QED BY <1>2, <2>3, <2>4, <2>5, <2>7, <2>8 DEF PoolInv, ShedForOwnFill
<1>4. CASE /\ thread' = [thread EXCEPT ![w] = IF ShuttingDown THEN "gone" ELSE "parking"]
           /\ UNCHANGED <<fair, op>>
  <2>1. PoolTypeOK'
    BY <1>1, <1>2, <1>4 DEF PoolTypeOK, fair
  <2> QED BY <1>2, <1>4, <2>1, QueueSame
<1> QED BY <1>3, <1>4 DEF Look

\* A job's end, whichever way.
LEMMA EndsStep ==
  ASSUME PoolInv, NEW w \in Workers, NEW to \in {"top", "gone"}, Ends(w, to)
  PROVE  PoolInv' /\ Nearer
<1>1. PoolTypeOK'
  BY DEF PoolInv, PoolTypeOK, Ends, fair
<1>2. \A b \in Calls : call[b] # "new" => call'[b] # "new"
  BY DEF PoolInv, PoolTypeOK, Ends
<1> QED BY <1>1, <1>2, QueueSame DEF Ends

\* Every step.
LEMMA PoolStep ==
  ASSUME PoolInv, [PoolNext]_poolVars
  PROVE  PoolInv' /\ (Nearer \/ UNCHANGED poolVars)
<1>1. CASE UNCHANGED poolVars
  <2>1. PoolTypeOK'
    BY <1>1 DEF PoolInv, PoolTypeOK, poolVars, fair
  <2> QED BY <1>1, <2>1, QueueSame DEF poolVars
<1>2. ASSUME NEW c \in Calls, Submit(c) PROVE PoolInv' /\ Nearer
  BY <1>2, SubmitStep
<1>3. ASSUME NEW c \in Calls, Notify(c) PROVE PoolInv' /\ Nearer
  <2>1. UNCHANGED <<call, fair, op, owner, faults, wronged>> /\ owed' \subseteq owed
    BY <1>3 DEF Notify
  <2>2. thread' \in [Workers -> {"top", "parking", "waiting", "running", "gone"}]
    BY <1>3 DEF PoolInv, PoolTypeOK, Notify
  <2>3. PoolTypeOK'
    BY <2>1, <2>2 DEF PoolInv, PoolTypeOK, fair
  <2> QED BY <2>1, <2>3, QueueSame
<1>4. ASSUME NEW c \in Calls, Cancel(c) PROVE PoolInv' /\ Nearer
  <2>1. PoolTypeOK'
    BY <1>4 DEF PoolInv, PoolTypeOK, Cancel, fair
  <2>2. \A b \in Calls : call[b] # "new" => call'[b] # "new"
    BY <1>4 DEF PoolInv, PoolTypeOK, Cancel
  <2> QED BY <1>4, <2>1, <2>2, QueueSame DEF Cancel
<1>5. ASSUME NEW w \in Workers, Look(w) PROVE PoolInv' /\ Nearer
  BY <1>5, LookStep
<1>6. ASSUME NEW w \in Workers, Park(w) \/ SpuriousWakeup(w) PROVE PoolInv' /\ Nearer
  <2>1. UNCHANGED <<call, owed, fair, op, owner, wronged>>
    BY <1>6 DEF Park, SpuriousWakeup
  <2>2. PoolTypeOK'
    BY <1>6, <2>1 DEF PoolInv, PoolTypeOK, Park, SpuriousWakeup, fair
  <2> QED BY <2>1, <2>2, QueueSame
<1>7. ASSUME NEW w \in Workers, Run(w) \/ Panic(w) PROVE PoolInv' /\ Nearer
  BY <1>7, EndsStep DEF Run, Panic
<1>8. ASSUME Drop PROVE PoolInv' /\ Nearer
  <2>1. UNCHANGED <<call, owed, fair, op, wronged>>
    BY <1>8 DEF Drop, Flag, NotifyAll, Join
  <2>2. owner' \in {"held", "flagged", "joining", "joined"}
        /\ thread' \in [Workers -> {"top", "parking", "waiting", "running", "gone"}]
    BY <1>8 DEF Drop, Flag, NotifyAll, Join, PoolInv, PoolTypeOK
  <2>3. PoolTypeOK'
    BY <2>1, <2>2 DEF PoolInv, PoolTypeOK, fair
  <2> QED BY <2>1, <2>3, QueueSame
<1> QED BY <1>1, <1>2, <1>3, <1>4, <1>5, <1>6, <1>7, <1>8 DEF PoolNext, Work

\* The inductive invariant of the hashing pool.
THEOREM PoolInvariant == PoolSpec => []PoolInv
<1>1. PoolInv /\ [PoolNext]_poolVars => PoolInv'
  BY PoolStep
<1> QED BY PoolInitInv, <1>1, PTL DEF PoolSpec

\* The pool's state has its type: no depth, turn or counter of the fair queue leaves
\* its range, through panics, cancelled requests and the drop of the pool.
THEOREM PoolTypeCorrect == PoolSpec => []PoolTypeOK
<1>1. PoolInv => PoolTypeOK
  BY DEF PoolInv
<1> QED BY PoolInvariant, <1>1, PTL

\* For every number of workers, tenants, environments and depths in the code's
\* proportion, no single tenant's fill sheds another's call.
THEOREM OwnFill == PoolSpec => []ShedForOwnFill
<1>1. PoolInv => ShedForOwnFill
  BY DEF PoolInv
<1> QED BY PoolInvariant, <1>1, PTL

\* The turns a sub-queue has in the schedule, counted.
LEMMA OneTurn ==
  ASSUME PoolInv, NEW k \in Keys
  PROVE  Cardinality({i \in 1 .. Len(order) : order[i] = k}) = (IF Waiting(k) > 0 THEN 1 ELSE 0)
<1> DEFINE S == {i \in 1 .. Len(order) : order[i] = k}
<1>1. CASE Waiting(k) > 0
  <2>1. PICK i \in 1 .. Len(order) : order[i] = k
    BY <1>1 DEF PoolInv, TurnShape
  <2>2. S = {i}
    BY <2>1 DEF PoolInv, TurnShape
  <2> HIDE DEF S
  <2>3. Cardinality(S) = 1
    BY <2>2, FS_Singleton
  <2> QED BY <1>1, <2>3 DEF S
<1>2. CASE ~ (Waiting(k) > 0)
  <2>1. S = {}
    BY <1>2 DEF PoolInv, TurnShape
  <2> HIDE DEF S
  <2>2. Cardinality(S) = 0
    BY <2>1, FS_EmptySet
  <2> QED BY <1>2, <2>2 DEF S
<1> QED BY <1>1, <1>2

\* For every number of workers, tenants and calls, a sub-queue that waits has one
\* turn, and every job taken from another one brings it nearer by one.
THEOREM FairTurn == PoolSpec => NoHeadOfLine
<1> DEFINE One == \A k \in Keys :
             Cardinality({i \in 1 .. Len(order) : order[i] = k}) = (IF Waiting(k) > 0 THEN 1 ELSE 0)
<1>1. PoolInv => One
  BY OneTurn
<1>2. PoolInv /\ [PoolNext]_poolVars => [Nearer]_poolVars
  BY PoolStep
<1>3. PoolSpec => []One /\ [][Nearer]_poolVars
  <2> HIDE DEF One
  <2> QED BY PoolInvariant, <1>1, <1>2, PTL DEF PoolSpec
<1> QED BY <1>3, PTL DEF NoHeadOfLine, Nearer
=============================================================================
