------------------------ MODULE SessionFanoutProofs ------------------------
(* Proofs about SessionFanout, for every value of its constants.           *)
EXTENDS SessionFanout, FiniteSetTheorems, TLAPS

LEMMA Bounds ==
  /\ Ceiling \in Nat /\ Last \in Nat /\ MaxEdits \in Nat /\ MaxFaults \in Nat
  /\ Q!Messages = 1 .. Last
  /\ \A m \in Q!Messages : m \in Nat /\ m # 0 /\ m \in 0 .. Last
BY FanoutAssumption DEF Q!Messages

LEMMA Constants ==
  /\ Serves \in [Workers -> Consumers] /\ IsFiniteSet(Clients)
  /\ \A s \in Sessions : s \in Nat /\ s # 0
  /\ 1 \in Sessions
<1>1. Sessions = 1 .. Cardinality(Sessions) /\ Sessions # {} /\ Cardinality(Sessions) \in Nat
  BY FanoutAssumption, FS_CardinalityType
<1> DEFINE n == Cardinality(Sessions)
<1>2. n \in Nat /\ Sessions = 1 .. n /\ Sessions # {}
  BY <1>1
<1> HIDE DEF n
<1>3. 1 <= n
  BY <1>2
<1> QED BY <1>2, <1>3, FanoutAssumption

-----------------------------------------------------------------------------
(* Payloads.                                                               *)

LEMMA BodyFields ==
  ASSUME NEW b \in Bodies
  PROVE  /\ b.to \in Consumers \cup {"none"} /\ b.session \in Sessions \cup {0}
         /\ b.target \in Clients \cup Streams \cup {"none"} /\ b.jti \in 0 .. Last
BY DEF Bodies

LEMMA PayloadFields ==
  ASSUME NEW s, NEW x, NEW j
  PROVE  /\ EndedOf(s).to = "ended" /\ EndedOf(s).session = s /\ EndedOf(s).target = "none"
         /\ LogoutOf(s, x).to = "logout" /\ LogoutOf(s, x).session = s /\ LogoutOf(s, x).target = x
         /\ TriggerOf(s).to = "trigger" /\ TriggerOf(s).session = s /\ TriggerOf(s).target = "none"
         /\ PushOf(s, x, j).to = "push" /\ PushOf(s, x, j).session = s
         /\ PushOf(s, x, j).target = x /\ PushOf(s, x, j).jti = j
BY DEF EndedOf, LogoutOf, TriggerOf, PushOf, Nothing

LEMMA PayloadTypes ==
  ASSUME NEW s \in Sessions
  PROVE  /\ EndedOf(s) \in Bodies /\ TriggerOf(s) \in Bodies
         /\ \A c \in Clients : LogoutOf(s, c) \in Bodies
         /\ \A t \in Streams, j \in 0 .. Last : PushOf(s, t, j) \in Bodies
         /\ Nothing \in Bodies
<1>0. 0 \in 0 .. Last
  BY Bounds
<1>1. EndedOf(s) \in Bodies
  BY <1>0 DEF EndedOf, Nothing, Bodies, Consumers
<1>2. TriggerOf(s) \in Bodies
  BY <1>0 DEF TriggerOf, Nothing, Bodies, Consumers
<1>3. \A c \in Clients : LogoutOf(s, c) \in Bodies
  BY <1>0 DEF LogoutOf, Nothing, Bodies, Consumers
<1>4. \A t \in Streams, j \in 0 .. Last : PushOf(s, t, j) \in Bodies
  BY <1>0 DEF PushOf, Bodies, Consumers
<1>5. Nothing \in Bodies
  BY <1>0 DEF Nothing, Bodies
<1> QED BY <1>1, <1>2, <1>3, <1>4, <1>5

LEMMA StampedFields ==
  ASSUME NEW b \in Bodies, NEW m \in Q!Messages
  PROVE  /\ Stamped(b, m) \in Bodies
         /\ Stamped(b, m).to = b.to /\ Stamped(b, m).session = b.session
         /\ Stamped(b, m).target = b.target
         /\ Stamped(b, m).jti = IF b.to = "push" THEN b.jti ELSE m
BY Bounds DEF Stamped, Bodies

LEMMA KeyFields ==
  ASSUME NEW b \in Bodies
  PROVE  /\ Key(b) \in Bodies
         /\ Key(b).to = b.to /\ Key(b).session = b.session /\ Key(b).target = b.target
         /\ Key(b).jti = IF b.to = "push" THEN b.jti ELSE 0
BY Bounds DEF Key, Bodies

LEMMA BodyEqual ==
  ASSUME NEW a \in Bodies, NEW b \in Bodies, a.to = b.to, a.session = b.session,
         a.target = b.target, a.jti = b.jti
  PROVE  a = b
BY DEF Bodies

LEMMA KeysEqual ==
  ASSUME NEW a \in Bodies, NEW b \in Bodies
  PROVE  Key(a) = Key(b) <=> /\ a.to = b.to /\ a.session = b.session /\ a.target = b.target
                             /\ a.to = "push" => a.jti = b.jti
<1>1. /\ Key(a) \in Bodies /\ Key(a).to = a.to /\ Key(a).session = a.session
      /\ Key(a).target = a.target /\ Key(a).jti = IF a.to = "push" THEN a.jti ELSE 0
  BY KeyFields
<1>2. /\ Key(b) \in Bodies /\ Key(b).to = b.to /\ Key(b).session = b.session
      /\ Key(b).target = b.target /\ Key(b).jti = IF b.to = "push" THEN b.jti ELSE 0
  BY KeyFields
<1>3. ASSUME Key(a) = Key(b)
      PROVE  /\ a.to = b.to /\ a.session = b.session /\ a.target = b.target
             /\ a.to = "push" => a.jti = b.jti
  BY <1>1, <1>2, <1>3
<1>4. ASSUME a.to = b.to, a.session = b.session, a.target = b.target, a.to = "push" => a.jti = b.jti
      PROVE  Key(a) = Key(b)
  BY <1>1, <1>2, <1>4, BodyEqual
<1> QED BY <1>3, <1>4

LEMMA WipedIs ==
  ASSUME NEW b \in Bodies, NEW s, NEW x
  PROVE  /\ [b EXCEPT !.jti = 0] = LogoutOf(s, x)
              <=> b.to = "logout" /\ b.session = s /\ b.target = x
         /\ [b EXCEPT !.jti = 0] = TriggerOf(s)
              <=> b.to = "trigger" /\ b.session = s /\ b.target = "none"
         /\ [b EXCEPT !.jti = 0] = PushOf(s, x, 0)
              <=> b.to = "push" /\ b.session = s /\ b.target = x
<1> DEFINE w == [b EXCEPT !.jti = 0]
<1>1. w = [to |-> b.to, session |-> b.session, target |-> b.target, jti |-> 0]
  BY DEF Bodies
<1>2. LogoutOf(s, x) = [to |-> "logout", session |-> s, target |-> x, jti |-> 0]
  BY DEF LogoutOf
<1>3. TriggerOf(s) = [to |-> "trigger", session |-> s, target |-> "none", jti |-> 0]
  BY DEF TriggerOf
<1>4. PushOf(s, x, 0) = [to |-> "push", session |-> s, target |-> x, jti |-> 0]
  BY DEF PushOf
<1> HIDE DEF w
<1>5. w = LogoutOf(s, x) <=> b.to = "logout" /\ b.session = s /\ b.target = x
  BY <1>1, <1>2
<1>6. w = TriggerOf(s) <=> b.to = "trigger" /\ b.session = s /\ b.target = "none"
  BY <1>1, <1>3
<1>7. w = PushOf(s, x, 0) <=> b.to = "push" /\ b.session = s /\ b.target = x
  BY <1>1, <1>4
<1> QED BY <1>5, <1>6, <1>7 DEF w

LEMMA StampedIs ==
  ASSUME NEW b \in Bodies, NEW m \in Q!Messages, NEW s, NEW x
  PROVE  /\ b = [EndedOf(s) EXCEPT !.jti = m]
              <=> b.to = "ended" /\ b.session = s /\ b.target = "none" /\ b.jti = m
         /\ b = [LogoutOf(s, x) EXCEPT !.jti = m]
              <=> b.to = "logout" /\ b.session = s /\ b.target = x /\ b.jti = m
         /\ b = [TriggerOf(s) EXCEPT !.jti = m]
              <=> b.to = "trigger" /\ b.session = s /\ b.target = "none" /\ b.jti = m
<1>1. b = [to |-> b.to, session |-> b.session, target |-> b.target, jti |-> b.jti]
  BY DEF Bodies
<1>2. [LogoutOf(s, x) EXCEPT !.jti = m] = [to |-> "logout", session |-> s, target |-> x, jti |-> m]
  BY DEF LogoutOf
<1>3. [TriggerOf(s) EXCEPT !.jti = m]
        = [to |-> "trigger", session |-> s, target |-> "none", jti |-> m]
  BY DEF TriggerOf
<1>4. [EndedOf(s) EXCEPT !.jti = m]
        = [to |-> "ended", session |-> s, target |-> "none", jti |-> m]
  BY DEF EndedOf
<1>5. b = [EndedOf(s) EXCEPT !.jti = m]
        <=> b.to = "ended" /\ b.session = s /\ b.target = "none" /\ b.jti = m
  BY <1>1, <1>4
<1>6. b = [LogoutOf(s, x) EXCEPT !.jti = m]
        <=> b.to = "logout" /\ b.session = s /\ b.target = x /\ b.jti = m
  BY <1>1, <1>2
<1>7. b = [TriggerOf(s) EXCEPT !.jti = m]
        <=> b.to = "trigger" /\ b.session = s /\ b.target = "none" /\ b.jti = m
  BY <1>1, <1>3
<1> QED BY <1>5, <1>6, <1>7

LEMMA PushIs ==
  ASSUME NEW b \in Bodies, NEW s, NEW x, NEW j
  PROVE  b = PushOf(s, x, j) <=> b.to = "push" /\ b.session = s /\ b.target = x /\ b.jti = j
BY DEF PushOf, Bodies

-----------------------------------------------------------------------------
(* Producing.                                                              *)

Statuses == {"unborn", "pending", "done", "dead", "removed"}

\* Row m is inserted by this step.
Born(m) == m \in Q!Messages /\ status[m] = "unborn" /\ status'[m] # "unborn"

\* What Produce(B) does: rows that were there stay, and each payload whose key is free
\* gets a pending row of its own.
Issued(B) ==
  /\ UNCHANGED <<hand, answer>>
  /\ status' \in [Q!Messages -> Statuses] /\ body' \in [Q!Messages -> Bodies]
  /\ late' \subseteq Q!Messages
  /\ \A m \in Q!Messages :
       status[m] # "unborn" => status'[m] = status[m] /\ body'[m] = body[m]
  /\ \A m : Born(m) => /\ status'[m] = "pending"
                       /\ \E b \in B : ~Taken(Key(b)) /\ body'[m] = Stamped(b, m)
  /\ \A b \in B : Taken(Key(b)) \/ \E m : Born(m) /\ body'[m] = Stamped(b, m)
  /\ \A m, k : Born(m) /\ Born(k) /\ Key(body'[m]) = Key(body'[k]) => m = k
  /\ \E n \in 0 .. Last : \A m \in Q!Messages : status'[m] # "unborn" <=> m <= n

LEMMA StampedKey ==
  ASSUME NEW b \in Bodies, NEW m \in Q!Messages
  PROVE  Key(Stamped(b, m)) = Key(b)
<1>1. /\ Stamped(b, m) \in Bodies /\ Stamped(b, m).to = b.to
      /\ Stamped(b, m).session = b.session /\ Stamped(b, m).target = b.target
      /\ b.to = "push" => Stamped(b, m).jti = b.jti
  BY StampedFields
<1> DEFINE a == Stamped(b, m)
<1> HIDE DEF a
<1>2. Key(a) = Key(b)
  BY <1>1, KeysEqual DEF a
<1> QED BY <1>2 DEF a

LEMMA OrderTypes ==
  ASSUME NEW b \in Bodies
  PROVE  Order(b) \in Bodies
<1>1. CASE b.to = "push"
  <2>1. b.target \in Clients \cup Streams \cup {"none"} /\ 0 \in 0 .. Last
    BY Bounds DEF Bodies
  <2> QED BY <1>1, <2>1 DEF Order, Nothing, Bodies, Consumers
<1>2. CASE b.to # "push"
  BY <1>2, KeyFields DEF Order
<1> QED BY <1>1, <1>2

\* Such a transaction is one of the queue's producers.
LEMMA ProduceEffect ==
  ASSUME TypeOK, TableShape, NEW B \in SUBSET Bodies, IsFiniteSet(B), Produce(B),
         \A a, b \in B : Key(a) = Key(b) => a = b
  PROVE  Issued(B) /\ Q!Next
<1> DEFINE fresh == {b \in B : ~Taken(Key(b))}
           N == Cardinality(fresh)
           rows == Used + 1 .. Used + N
           new == CHOOSE f \in Bijection(rows, fresh) : TRUE
           P == [m \in rows |-> Order(new[m])]
<1>1. /\ status \in [Q!Messages -> Statuses] /\ body \in [Q!Messages -> Bodies]
      /\ late \subseteq Q!Messages
  BY DEF TypeOK, Statuses
<1>2. PICK n \in 0 .. Last : \A m \in Q!Messages : status[m] # "unborn" <=> m <= n
  BY DEF TableShape
<1>3. n \in Nat /\ n <= Last /\ Last \in Nat
  BY <1>2, Bounds
<1>4. Used = n
  <2>1. {m \in Q!Messages : status[m] # "unborn"} = 1 .. n
    BY <1>2, <1>3, Bounds
  <2>2. Cardinality(1 .. n) = n
    BY <1>3, FS_Interval
  <2> QED BY <2>1, <2>2 DEF Used
<1>5. IsFiniteSet(fresh) /\ N \in Nat
  <2>1. fresh \in SUBSET B
    OBVIOUS
  <2> QED BY <2>1, FS_Subset, FS_CardinalityType
<1>6. /\ Used + N <= Last /\ Q!PublishAll(P)
      /\ body' = [m \in Q!Messages |-> IF m \in rows THEN Stamped(new[m], m) ELSE body[m]]
  BY DEF Produce
<1>7. fresh \subseteq B /\ \A b \in fresh : ~Taken(Key(b))
  OBVIOUS
<1>8. \A b \in B : b \in fresh \/ Taken(Key(b))
  OBVIOUS
<1>9. rows = n + 1 .. n + N /\ n + N <= Last
  BY <1>4, <1>6
<1>10. new \in Bijection(rows, fresh)
  <2>1. IsFiniteSet(rows) /\ Cardinality(rows) = N
    <3> HIDE DEF N, rows
    <3>1. IsFiniteSet(n + 1 .. n + N) /\ Cardinality(n + 1 .. n + N) = N
      BY <1>3, <1>5, FS_Interval
    <3> QED BY <1>9, <3>1
  <2>2. Cardinality(rows) = Cardinality(fresh)
    BY <2>1
  <2> HIDE DEF rows, fresh
  <2>3. ExistsBijection(rows, fresh)
    BY <1>5, <2>1, <2>2, FS_SameCardinalityBij
  <2> QED BY <2>3 DEF ExistsBijection
<1>11. DOMAIN P = rows
  OBVIOUS
<1> HIDE DEF fresh, N, rows, new, P
<1>12. /\ \A m \in rows : new[m] \in fresh
       /\ \A m, k \in rows : new[m] = new[k] => m = k
       /\ \A b \in fresh : \E m \in rows : new[m] = b
  BY <1>10 DEF Bijection, Injection, IsInjective, Surjection
<1>13. /\ status' = [m \in Q!Messages |-> IF m \in rows THEN "pending" ELSE status[m]]
       /\ late' \subseteq Q!Messages /\ UNCHANGED <<hand, answer>>
       /\ \A m \in rows : status[m] = "unborn"
  <2>1. rows \subseteq Q!Messages
    BY <1>3, <1>5, <1>9, Bounds
  <2> QED BY <1>1, <1>6, <1>11, <2>1 DEF Q!PublishAll, P
<1>14. \A m \in rows : m \in Q!Messages
  BY <1>3, <1>5, <1>9, Bounds
<1>15. \A m : Born(m) <=> m \in rows
  BY <1>13, <1>14 DEF Born
<1>16. \A m \in rows : body'[m] = Stamped(new[m], m) /\ status'[m] = "pending"
  BY <1>6, <1>13, <1>14
<1>17. \A m \in Q!Messages \ rows : body'[m] = body[m] /\ status'[m] = status[m]
  BY <1>6, <1>13
<1>18. \A m \in rows : new[m] \in Bodies /\ Stamped(new[m], m) \in Bodies
  BY <1>7, <1>12, <1>14, StampedFields
<1>19. status' \in [Q!Messages -> Statuses]
  BY <1>1, <1>13 DEF Statuses
<1>20. body' \in [Q!Messages -> Bodies]
  BY <1>1, <1>6, <1>18
<1>21. \A m \in Q!Messages :
         status[m] # "unborn" => status'[m] = status[m] /\ body'[m] = body[m]
  BY <1>13, <1>17
<1>22. \A m : Born(m) => /\ status'[m] = "pending"
                         /\ \E b \in B : ~Taken(Key(b)) /\ body'[m] = Stamped(b, m)
  BY <1>7, <1>12, <1>15, <1>16
<1>23. \A b \in B : Taken(Key(b)) \/ \E m : Born(m) /\ body'[m] = Stamped(b, m)
  BY <1>8, <1>12, <1>15, <1>16
<1>24. ASSUME NEW m, NEW k, Born(m), Born(k), Key(body'[m]) = Key(body'[k])
       PROVE  m = k
  <2>1. m \in rows /\ k \in rows
    BY <1>15, <1>24
  <2>2. Key(body'[m]) = Key(new[m]) /\ Key(body'[k]) = Key(new[k])
    BY <1>14, <1>16, <1>18, <2>1, StampedKey
  <2>3. new[m] = new[k]
    BY <1>7, <1>12, <1>24, <2>1, <2>2
  <2> QED BY <1>12, <2>1, <2>3
<1>25. \E q \in 0 .. Last : \A m \in Q!Messages : status'[m] # "unborn" <=> m <= q
  <2>1. n + N \in 0 .. Last
    BY <1>3, <1>5, <1>9
  <2>2. ASSUME NEW m \in Q!Messages PROVE status'[m] # "unborn" <=> m <= n + N
    <3>1. m \in Nat /\ 1 <= m
      BY Bounds
    <3>2. CASE m \in rows
      <4>1. m <= n + N
        BY <1>3, <1>5, <1>9, <3>1, <3>2
      <4> QED BY <1>16, <3>2, <4>1
    <3>3. CASE m \notin rows
      <4>1. m <= n <=> m <= n + N
        BY <1>3, <1>5, <1>9, <3>1, <3>3
      <4> QED BY <1>2, <1>17, <3>3, <4>1
    <3> QED BY <3>2, <3>3
  <2> QED BY <2>1, <2>2
<1>26. Issued(B)
  BY <1>13, <1>19, <1>20, <1>21, <1>22, <1>23, <1>24, <1>25 DEF Issued
<1>27. Q!Next
  <2>1. \A m \in rows : Order(new[m]) \in Bodies
    BY <1>18, OrderTypes
  <2>2. P \in [rows -> Bodies]
    BY <2>1 DEF P
  <2>3. rows \in SUBSET Q!Messages
    BY <1>14
  <2> QED BY <1>6, <2>2, <2>3 DEF Q!Next
<1> QED BY <1>26, <1>27

-----------------------------------------------------------------------------
(* What every step keeps.                                                  *)

\* No row loses its payload; a row that was owed stays owed unless its work is done;
\* an owed set leaves only for its receiver; nobody joins an ended session in time.
Kept ==
  /\ told \subseteq told' /\ heard \subseteq heard' /\ settled' \subseteq settled
  /\ \A m \in Q!Messages : status[m] # "unborn" =>
       /\ status'[m] # "unborn" /\ body'[m] = body[m]
       /\ status[m] \in {"pending", "dead"} =>
            status'[m] \in {"pending", "dead"} \/ Finished(m)
       /\ status[m] = "pending" /\ body[m].to = "ended" => status'[m] = "pending" \/ Finished(m)
  /\ \A t \in settled' : \A x \in sets[t] : x \in sets'[t] \/ <<x[1], t, x[2]>> \in heard'
  /\ \A s \in Sessions : session[s] = "ended" =>
       /\ session'[s] = "ended"
       /\ \A c \in Clients : <<s, c>> \in member' \ tardy' => <<s, c>> \in member \ tardy

\* The kinds of message, and what their payload says.
LEMMA Kinds ==
  ASSUME IInv, NEW m \in Q!Messages, status[m] # "unborn"
  PROVE  /\ body[m] \in Bodies /\ body[m].session \in Sessions /\ body[m].to \in Consumers
         /\ body[m].to = "ended" => IsEnded(m, body[m].session) /\ session[body[m].session] = "ended"
         /\ body[m].to = "logout" => body[m].target \in Clients /\ body[m].jti = m
         /\ body[m].to = "trigger" => body[m].target = "none" /\ body[m].jti = m
         /\ body[m].to = "push" => /\ body[m].target \in Streams /\ body[m].jti \in Q!Messages
                                   /\ Minted(body[m].jti, body[m].session)
<1>1. body[m] \in Bodies /\ BodyShape(m)
  BY DEF IInv, TypeOK
<1>2. CASE \E s \in Sessions : IsEnded(m, s) /\ session[s] = "ended"
  <2>1. PICK s \in Sessions : IsEnded(m, s) /\ session[s] = "ended"
    BY <1>2
  <2>2. body[m].to = "ended" /\ body[m].session = s
    BY <2>1 DEF IsEnded, EndedOf
  <2> QED BY <1>1, <2>1, <2>2 DEF Consumers
<1>3. CASE \E s \in Sessions, c \in Clients : IsLogout(m, s, c)
  <2>1. PICK s \in Sessions, c \in Clients : IsLogout(m, s, c)
    BY <1>3
  <2>2. body[m].to = "logout" /\ body[m].session = s /\ body[m].target = c /\ body[m].jti = m
    BY <2>1 DEF IsLogout, LogoutOf
  <2> QED BY <1>1, <2>2 DEF Consumers
<1>4. CASE \E s \in Sessions : IsTrigger(m, s)
  <2>1. PICK s \in Sessions : IsTrigger(m, s)
    BY <1>4
  <2>2. body[m].to = "trigger" /\ body[m].session = s /\ body[m].target = "none" /\ body[m].jti = m
    BY <2>1 DEF IsTrigger, TriggerOf
  <2> QED BY <1>1, <2>2 DEF Consumers
<1>5. CASE \E s \in Sessions, t \in Streams, j \in Q!Messages :
             body[m] = PushOf(s, t, j) /\ Minted(j, s)
  <2>1. PICK s \in Sessions, t \in Streams, j \in Q!Messages :
          body[m] = PushOf(s, t, j) /\ Minted(j, s)
    BY <1>5
  <2>2. body[m].to = "push" /\ body[m].session = s /\ body[m].target = t /\ body[m].jti = j
    BY <2>1, PayloadFields
  <2> QED BY <1>1, <2>1, <2>2 DEF Consumers
<1> QED BY <1>1, <1>2, <1>3, <1>4, <1>5 DEF BodyShape

LEMMA OwedIs ==
  ASSUME TypeOK, NEW s, NEW x
  PROVE  /\ Outstanding(LogoutOf(s, x)) <=>
              \E m \in Q!Messages : /\ status[m] \in {"pending", "dead"}
                                    /\ body[m].to = "logout" /\ body[m].session = s
                                    /\ body[m].target = x
         /\ Outstanding(TriggerOf(s)) <=>
              \E m \in Q!Messages : /\ status[m] \in {"pending", "dead"}
                                    /\ body[m].to = "trigger" /\ body[m].session = s
                                    /\ body[m].target = "none"
         /\ Outstanding(PushOf(s, x, 0)) <=>
              \E m \in Q!Messages : /\ status[m] \in {"pending", "dead"}
                                    /\ body[m].to = "push" /\ body[m].session = s
                                    /\ body[m].target = x
<1>1. \A m \in Q!Messages : body[m] \in Bodies
  BY DEF TypeOK
<1>2. \A m \in Q!Messages :
        /\ [body[m] EXCEPT !.jti = 0] = LogoutOf(s, x)
              <=> body[m].to = "logout" /\ body[m].session = s /\ body[m].target = x
        /\ [body[m] EXCEPT !.jti = 0] = TriggerOf(s)
              <=> body[m].to = "trigger" /\ body[m].session = s /\ body[m].target = "none"
        /\ [body[m] EXCEPT !.jti = 0] = PushOf(s, x, 0)
              <=> body[m].to = "push" /\ body[m].session = s /\ body[m].target = x
  BY <1>1, WipedIs
<1> QED BY <1>2, Zenon DEF Outstanding

\* The same in the next state.
LEMMA OwedNext ==
  ASSUME TypeOK', NEW s, NEW x
  PROVE  /\ Outstanding(LogoutOf(s, x))' <=>
              \E m \in Q!Messages : /\ status'[m] \in {"pending", "dead"}
                                    /\ body'[m].to = "logout" /\ body'[m].session = s
                                    /\ body'[m].target = x
         /\ Outstanding(TriggerOf(s))' <=>
              \E m \in Q!Messages : /\ status'[m] \in {"pending", "dead"}
                                    /\ body'[m].to = "trigger" /\ body'[m].session = s
                                    /\ body'[m].target = "none"
         /\ Outstanding(PushOf(s, x, 0))' <=>
              \E m \in Q!Messages : /\ status'[m] \in {"pending", "dead"}
                                    /\ body'[m].to = "push" /\ body'[m].session = s
                                    /\ body'[m].target = x
<1>1. \A m \in Q!Messages : body'[m] \in Bodies
  BY DEF TypeOK
<1>2. \A m \in Q!Messages :
        /\ [body'[m] EXCEPT !.jti = 0] = LogoutOf(s, x)
              <=> body'[m].to = "logout" /\ body'[m].session = s /\ body'[m].target = x
        /\ [body'[m] EXCEPT !.jti = 0] = TriggerOf(s)
              <=> body'[m].to = "trigger" /\ body'[m].session = s /\ body'[m].target = "none"
        /\ [body'[m] EXCEPT !.jti = 0] = PushOf(s, x, 0)
              <=> body'[m].to = "push" /\ body'[m].session = s /\ body'[m].target = x
  BY <1>1, WipedIs
<1> QED BY <1>2, Zenon DEF Outstanding

LEMMA ToldKept ==
  ASSUME IInv, TypeOK', Kept, NEW s \in Sessions, NEW c \in Clients, Told(s, c)
  PROVE  Told(s, c)'
<1>1. CASE \E m \in Q!Messages : <<s, c, m>> \in told
  BY <1>1 DEF Kept, Told
<1>2. CASE Outstanding(LogoutOf(s, c))
  <2>1. PICK m \in Q!Messages : /\ status[m] \in {"pending", "dead"}
                                /\ body[m].to = "logout" /\ body[m].session = s
                                /\ body[m].target = c
    BY <1>2, OwedIs DEF IInv
  <2>2. body[m].jti = m
    BY <2>1, Kinds
  <2>3. body'[m] = body[m] /\ (status'[m] \in {"pending", "dead"} \/ Finished(m))
    BY <2>1 DEF Kept
  <2>4. CASE status'[m] \in {"pending", "dead"}
    BY <2>1, <2>3, <2>4, OwedNext DEF Told
  <2>5. CASE Finished(m)
    <3>1. <<s, c, m>> \in told
      BY <2>1, <2>2, <2>5 DEF Finished
    <3> QED BY <3>1 DEF Kept, Told
  <2> QED BY <2>3, <2>4, <2>5
<1> QED BY <1>1, <1>2 DEF Told

LEMMA SignalledKept ==
  ASSUME IInv, TypeOK', Kept, NEW s \in Sessions, NEW t \in settled', Signalled(s, t)
  PROVE  Signalled(s, t)'
<1>1. CASE \E m \in Q!Messages : <<s, m>> \in sets[t] \/ <<s, t, m>> \in heard
  <2>1. PICK m \in Q!Messages : <<s, m>> \in sets[t] \/ <<s, t, m>> \in heard
    BY <1>1
  <2>2. <<s, m>> \in sets'[t] \/ <<s, t, m>> \in heard'
    BY <2>1 DEF Kept
  <2> QED BY <2>2 DEF Signalled
<1>2. CASE Outstanding(PushOf(s, t, 0))
  <2>1. PICK m \in Q!Messages : /\ status[m] \in {"pending", "dead"}
                                /\ body[m].to = "push" /\ body[m].session = s
                                /\ body[m].target = t
    BY <1>2, OwedIs DEF IInv
  <2>2. body[m].jti \in Q!Messages
    BY <2>1, Kinds
  <2>3. body'[m] = body[m] /\ (status'[m] \in {"pending", "dead"} \/ Finished(m))
    BY <2>1 DEF Kept
  <2>4. CASE status'[m] \in {"pending", "dead"}
    BY <2>1, <2>3, <2>4, OwedNext DEF Signalled
  <2>5. CASE Finished(m)
    <3>1. <<s, t, body[m].jti>> \in heard
      BY <2>1, <2>5 DEF Finished
    <3> QED BY <2>2, <3>1 DEF Kept, Signalled
  <2> QED BY <2>3, <2>4, <2>5
<1> QED BY <1>1, <1>2 DEF Signalled

LEMMA TriggerKept ==
  ASSUME IInv, TypeOK', Kept, NEW s \in Sessions, NEW t \in settled',
         Outstanding(TriggerOf(s)) \/ Signalled(s, t)
  PROVE  (Outstanding(TriggerOf(s)) \/ Signalled(s, t))'
<1>1. CASE Signalled(s, t)
  BY <1>1, SignalledKept
<1>2. CASE Outstanding(TriggerOf(s))
  <2>1. PICK m \in Q!Messages : /\ status[m] \in {"pending", "dead"}
                                /\ body[m].to = "trigger" /\ body[m].session = s
                                /\ body[m].target = "none"
    BY <1>2, OwedIs DEF IInv
  <2>2. body'[m] = body[m] /\ (status'[m] \in {"pending", "dead"} \/ Finished(m))
    BY <2>1 DEF Kept
  <2>3. CASE status'[m] \in {"pending", "dead"}
    BY <2>1, <2>2, <2>3, OwedNext
  <2>4. CASE Finished(m)
    <3>1. Signalled(s, t)
      BY <2>1, <2>4 DEF Finished, Kept
    <3> QED BY <3>1, SignalledKept
  <2> QED BY <2>2, <2>3, <2>4
<1> QED BY <1>1, <1>2

LEMMA ExplodedKept ==
  ASSUME IInv, TypeOK', Kept, NEW s \in Sessions, session[s] = "ended", Exploded(s)
  PROVE  Exploded(s)'
<1>1. ASSUME NEW c \in Clients, <<s, c>> \in member' \ tardy' PROVE Told(s, c)'
  <2>1. <<s, c>> \in member \ tardy
    BY <1>1 DEF Kept
  <2>2. Told(s, c)
    BY <2>1 DEF Exploded
  <2> QED BY <2>2, ToldKept
<1>2. ASSUME NEW t \in settled' PROVE (Outstanding(TriggerOf(s)) \/ Signalled(s, t))'
  <2>1. t \in settled
    BY <1>2 DEF Kept
  <2>2. Outstanding(TriggerOf(s)) \/ Signalled(s, t)
    BY <2>1 DEF Exploded
  <2> QED BY <2>2, TriggerKept
<1> QED BY <1>1, <1>2 DEF Exploded

LEMMA FinishedKept ==
  ASSUME IInv, TypeOK', Kept, NEW m \in Q!Messages, status[m] # "unborn", Finished(m)
  PROVE  Finished(m)'
<1>1. PICK s \in Sessions : s = body[m].session
  BY Kinds
<1>2. body'[m] = body[m] /\ s = body'[m].session
  BY <1>1 DEF Kept
<1>3. ASSUME body[m].to = "ended" PROVE Exploded(s)'
  <2>1. Exploded(s) /\ session[s] = "ended"
    BY <1>1, <1>3, Kinds DEF Finished
  <2> QED BY <2>1, ExplodedKept
<1>4. ASSUME body[m].to = "trigger", NEW t \in settled' PROVE Signalled(s, t)'
  <2>1. Signalled(s, t)
    BY <1>1, <1>4 DEF Finished, Kept
  <2> QED BY <2>1, SignalledKept
<1>5. body'[m].to = "ended" => Exploded(body[m].session)'
  BY <1>2, <1>3
<1>6. body'[m].to = "trigger" => \A t \in settled' : Signalled(body[m].session, t)'
  BY <1>2, <1>4
<1>7. body'[m].to = "logout" => <<body'[m].session, body'[m].target, body'[m].jti>> \in told'
  BY <1>2 DEF Finished, Kept
<1>8. body'[m].to = "push" => <<body'[m].session, body'[m].target, body'[m].jti>> \in heard'
  BY <1>2 DEF Finished, Kept
<1> QED BY <1>5, <1>6, <1>7, <1>8 DEF Finished

-----------------------------------------------------------------------------
(* The parts of the invariant that such a step preserves.                  *)

LEMMA MintedKept ==
  ASSUME Kept, NEW j, NEW s, Minted(j, s)
  PROVE  Minted(j, s)'
BY DEF Kept, Minted, IsTrigger

LEMMA BodyKept ==
  ASSUME IInv, Kept, NEW m \in Q!Messages, status[m] # "unborn"
  PROVE  BodyShape(m)'
<1>1. body'[m] = body[m] /\ BodyShape(m)
  BY DEF Kept, IInv
<1>2. CASE \E s \in Sessions : IsEnded(m, s) /\ session[s] = "ended"
  <2>1. \E s \in Sessions : IsEnded(m, s)' /\ session'[s] = "ended"
    BY <1>1, <1>2 DEF IsEnded, Kept
  <2> QED BY <2>1 DEF BodyShape
<1>3. CASE \E s \in Sessions, c \in Clients : IsLogout(m, s, c)
  <2>1. \E s \in Sessions, c \in Clients : IsLogout(m, s, c)'
    BY <1>1, <1>3 DEF IsLogout
  <2> QED BY <2>1 DEF BodyShape
<1>4. CASE \E s \in Sessions : IsTrigger(m, s)
  <2>1. \E s \in Sessions : IsTrigger(m, s)'
    BY <1>1, <1>4 DEF IsTrigger
  <2> QED BY <2>1 DEF BodyShape
<1>5. CASE \E s \in Sessions, t \in Streams, j \in Q!Messages :
             body[m] = PushOf(s, t, j) /\ Minted(j, s)
  <2>1. PICK s \in Sessions, t \in Streams, j \in Q!Messages :
          body[m] = PushOf(s, t, j) /\ Minted(j, s)
    BY <1>5
  <2>2. body'[m] = PushOf(s, t, j) /\ Minted(j, s)'
    BY <1>1, <2>1, MintedKept
  <2>3. \E x \in Sessions, y \in Streams, z \in Q!Messages :
          (body[m] = PushOf(x, y, z) /\ Minted(z, x))'
    BY <2>2
  <2> QED BY <2>3 DEF BodyShape
<1> QED BY <1>1, <1>2, <1>3, <1>4, <1>5 DEF BodyShape

\* A worker's hands are left as they are.
LEMMA HandKept ==
  ASSUME IInv, TypeOK', Kept, NEW w \in Workers, hand'[w] = hand[w], answer'[w] = answer[w],
         hand[w] # 0 => status'[hand[w]] = "pending",
         \A v \in Workers : hand'[v] \in {hand[v], 0}
  PROVE  HandShape(w)'
<1> SUFFICES ASSUME hand[w] # 0 PROVE HandShape(w)'
  BY DEF IInv, HandShape
<1>1. PICK m \in Q!Messages : m = hand[w]
  BY Bounds DEF IInv, TypeOK
<1>2. /\ status[m] = "pending" /\ body[m].to = Serves[w]
      /\ \A v \in Workers : hand[v] = m => v = w
      /\ answer[w] = "ok" => Finished(m)
  BY <1>1 DEF IInv, HandShape
<1>3. body'[m] = body[m] /\ status'[m] = "pending"
  BY <1>1, <1>2 DEF Kept
<1>4. answer'[w] = "ok" => Finished(m)'
  BY <1>2, FinishedKept
<1>5. \A v \in Workers : hand'[v] = m => v = w
  BY <1>1, <1>2
<1>6. m = hand'[w]
  BY <1>1
<1>7. answer'[w] = "ok" => Finished(hand[w])'
  BY <1>4, <1>6
<1> QED BY <1>2, <1>3, <1>5, <1>6, <1>7 DEF HandShape

\* The parts of TaskShape(w), for the row m of session s.
Serving(w, m) == m \in Q!Messages /\ status[m] # "unborn" /\ body[m].to = Serves[w]
Gathers(w, s) ==
  /\ Serves[w] = "ended" /\ IsFiniteSet(task[w].found)
  /\ task[w].found \subseteq {LogoutOf(s, c) : c \in Clients} \cup {TriggerOf(s)}
  /\ \A c \in Clients : <<s, c>> \in member \ tardy => LogoutOf(s, c) \in task[w].found
Signals(w, s) ==
  /\ Serves[w] = "trigger" /\ task[w].found \subseteq Streams
  /\ \A t \in settled \ task[w].found : Signalled(s, t)

LEMMA TaskParts ==
  ASSUME NEW w, NEW m, NEW s, m = task[w].msg, s = body[m].session
  PROVE  TaskShape(w) <=>
           (task[w].pc # "idle" =>
             /\ Serving(w, m)
             /\ task[w].pc \in {"streams", "enqueue"} => Gathers(w, s)
             /\ task[w].pc = "enqueue" => settled = {} \/ TriggerOf(s) \in task[w].found
             /\ task[w].pc \in {"each", "insert"} => Signals(w, s)
             /\ task[w].pc = "insert" => task[w].found # {}
             /\ task[w].pc = "ok" => Finished(m))
BY DEF TaskShape, Msg, Serving, Gathers, Signals

LEMMA TaskPartsNext ==
  ASSUME NEW w, NEW m, NEW s, m = task'[w].msg, s = body'[m].session
  PROVE  TaskShape(w)' <=>
           (task'[w].pc # "idle" =>
             /\ Serving(w, m)'
             /\ task'[w].pc \in {"streams", "enqueue"} => Gathers(w, s)'
             /\ task'[w].pc = "enqueue" => settled' = {} \/ TriggerOf(s) \in task'[w].found
             /\ task'[w].pc \in {"each", "insert"} => Signals(w, s)'
             /\ task'[w].pc = "insert" => task'[w].found # {}
             /\ task'[w].pc = "ok" => Finished(m)')
BY DEF TaskShape, Msg, Serving, Gathers, Signals

\* A handler at work has a row, of a session.
LEMMA TaskRow ==
  ASSUME IInv, NEW w \in Workers, task[w].pc # "idle"
  PROVE  \E m \in Q!Messages, s \in Sessions :
           /\ m = task[w].msg /\ s = body[m].session /\ status[m] # "unborn"
           /\ body[m].to = Serves[w] /\ Msg(w) = body[m]
<1>1. Serving(w, task[w].msg)
  BY DEF IInv, TaskShape, Msg, Serving
<1> QED BY <1>1, Kinds DEF Serving, Msg

LEMMA GathersKept ==
  ASSUME IInv, Kept, NEW w \in Workers, NEW s \in Sessions, session[s] = "ended",
         Gathers(w, s), task'[w].found = task[w].found
  PROVE  Gathers(w, s)'
BY DEF Gathers, Kept

LEMMA SignalsKept ==
  ASSUME IInv, TypeOK', Kept, NEW w \in Workers, NEW s \in Sessions,
         Signals(w, s), task'[w].found = task[w].found
  PROVE  Signals(w, s)'
<1>1. ASSUME NEW t \in settled' \ task'[w].found PROVE Signalled(s, t)'
  <2>1. Signalled(s, t)
    BY <1>1 DEF Signals, Kept
  <2> QED BY <1>1, <2>1, SignalledKept
<1> QED BY <1>1 DEF Signals

\* A handler goes on where it was.
LEMMA TaskKept ==
  ASSUME IInv, TypeOK', Kept, NEW w \in Workers, task'[w] = task[w]
  PROVE  TaskShape(w)'
<1> SUFFICES ASSUME task[w].pc # "idle" PROVE TaskShape(w)'
  BY DEF TaskShape
<1>1. PICK m \in Q!Messages, s \in Sessions :
        /\ m = task[w].msg /\ s = body[m].session /\ status[m] # "unborn"
        /\ body[m].to = Serves[w]
  BY TaskRow
<1>2. TaskShape(w)
  BY DEF IInv
<1>3. body'[m] = body[m] /\ status'[m] # "unborn" /\ settled' \subseteq settled
  BY <1>1 DEF Kept
<1>4. m = task'[w].msg /\ s = body'[m].session
  BY <1>1, <1>3
<1>5. Serving(w, m)'
  BY <1>1, <1>3 DEF Serving
<1>6. task[w].pc \in {"streams", "enqueue"} => Gathers(w, s)'
  <2>1. task[w].pc \in {"streams", "enqueue"} => Gathers(w, s)
    BY <1>1, <1>2, TaskParts
  <2>2. Gathers(w, s) => session[s] = "ended"
    BY <1>1, Kinds DEF Gathers
  <2> QED BY <2>1, <2>2, GathersKept
<1>7. task[w].pc \in {"each", "insert"} => Signals(w, s)'
  <2>1. task[w].pc \in {"each", "insert"} => Signals(w, s)
    BY <1>1, <1>2, TaskParts
  <2> QED BY <2>1, SignalsKept
<1>8. task[w].pc = "ok" => Finished(m)'
  <2>1. task[w].pc = "ok" => Finished(m)
    BY <1>1, <1>2, TaskParts
  <2> QED BY <1>1, <2>1, FinishedKept
<1>9. /\ task[w].pc = "enqueue" => settled' = {} \/ TriggerOf(s) \in task[w].found
      /\ task[w].pc = "insert" => task[w].found # {}
  BY <1>1, <1>2, <1>3, TaskParts
<1> QED BY <1>4, <1>5, <1>6, <1>7, <1>8, <1>9, TaskPartsNext

LEMMA EndKept ==
  ASSUME IInv, TypeOK', Kept, NEW s \in Sessions, session'[s] = "ended" => session[s] = "ended"
  PROVE  EndShape(s)'
<1> SUFFICES ASSUME session[s] = "ended" PROVE EndShape(s)'
  BY DEF EndShape
<1>1. CASE Exploded(s)
  BY <1>1, ExplodedKept DEF EndShape
<1>2. CASE \E m \in Q!Messages : status[m] = "pending" /\ IsEnded(m, s)
  <2>1. PICK m \in Q!Messages : status[m] = "pending" /\ IsEnded(m, s)
    BY <1>2
  <2>2. body[m].to = "ended" /\ body[m].session = s
    BY <2>1 DEF IsEnded, EndedOf
  <2>3. body'[m] = body[m] /\ (status'[m] = "pending" \/ Finished(m))
    BY <2>1, <2>2 DEF Kept
  <2>4. CASE status'[m] = "pending"
    BY <2>1, <2>3, <2>4 DEF EndShape, IsEnded
  <2>5. CASE Finished(m)
    <3>1. Exploded(s)
      BY <2>2, <2>5 DEF Finished
    <3> QED BY <3>1, ExplodedKept DEF EndShape
  <2> QED BY <2>3, <2>4, <2>5
<1> QED BY <1>1, <1>2 DEF IInv, EndShape

\* The tokens that are out stay those of rows.
LEMMA TokensKept ==
  ASSUME IInv, Kept
  PROVE  /\ \A x \in told : \E s \in Sessions, c \in Clients, m \in Q!Messages :
              x = <<s, c, m>> /\ status'[m] # "unborn" /\ IsLogout(m, s, c)'
         /\ \A x \in heard : \E s \in Sessions, t \in Streams, j \in Q!Messages :
              x = <<s, t, j>> /\ Minted(j, s)'
         /\ \A t \in Streams : \A x \in sets[t] : Minted(x[2], x[1])'
<1>1. TokenShape
  BY DEF IInv
<1>2. ASSUME NEW x \in told
      PROVE  \E s \in Sessions, c \in Clients, m \in Q!Messages :
               x = <<s, c, m>> /\ status'[m] # "unborn" /\ IsLogout(m, s, c)'
  <2>1. PICK s \in Sessions, c \in Clients, m \in Q!Messages :
          x = <<s, c, m>> /\ status[m] # "unborn" /\ IsLogout(m, s, c)
    BY <1>1 DEF TokenShape
  <2>2. status'[m] # "unborn" /\ IsLogout(m, s, c)'
    BY <2>1 DEF Kept, IsLogout
  <2> QED BY <2>1, <2>2
<1>3. ASSUME NEW x \in heard
      PROVE  \E s \in Sessions, t \in Streams, j \in Q!Messages :
               x = <<s, t, j>> /\ Minted(j, s)'
  BY <1>1, MintedKept DEF TokenShape
<1>4. ASSUME NEW t \in Streams, NEW x \in sets[t] PROVE Minted(x[2], x[1])'
  BY <1>1, MintedKept DEF TokenShape
<1> QED BY <1>2, <1>3, <1>4

LEMMA TokensSame ==
  ASSUME IInv, Kept, UNCHANGED <<told, heard, sets>>
  PROVE  TokenShape'
BY TokensKept DEF TokenShape

LEMMA DoneKept ==
  ASSUME IInv, TypeOK', Kept, NEW m \in Q!Messages, status[m] = "done"
  PROVE  Finished(m)'
BY FinishedKept DEF IInv

-----------------------------------------------------------------------------
(* The steps of a handler that leave the queue alone.                      *)

Pcs == {"idle", "start", "streams", "enqueue", "each", "insert", "ok", "retry", "permanent"}

LEMMA TaskSet ==
  ASSUME TypeOK, NEW w \in Workers, NEW pc \in Pcs, NEW found \in SUBSET (Bodies \cup Streams),
         task' = [task EXCEPT ![w].pc = pc, ![w].found = found]
  PROVE  /\ task' \in [Workers -> TaskType]
         /\ \A v \in Workers \ {w} : task'[v] = task[v]
         /\ task'[w].pc = pc /\ task'[w].msg = task[w].msg /\ task'[w].found = found
<1>1. task \in [Workers -> TaskType] /\ task[w] \in TaskType
  BY DEF TypeOK
<1> DEFINE r == [[task[w] EXCEPT !.pc = pc] EXCEPT !.found = found]
<1>2. task' = [task EXCEPT ![w] = r]
  BY <1>1
<1>3. r \in TaskType /\ r.pc = pc /\ r.msg = task[w].msg /\ r.found = found
  BY <1>1 DEF TaskType, Pcs
<1> HIDE DEF r
<1> QED BY <1>1, <1>2, <1>3

LEMMA TaskGoto ==
  ASSUME TypeOK, NEW w \in Workers, NEW pc \in Pcs, Goto(w, pc)
  PROVE  /\ task' \in [Workers -> TaskType]
         /\ \A v \in Workers \ {w} : task'[v] = task[v]
         /\ task'[w].pc = pc /\ task'[w].msg = task[w].msg /\ task'[w].found = task[w].found
<1>1. task \in [Workers -> TaskType] /\ task[w] \in TaskType
  BY DEF TypeOK
<1> DEFINE r == [task[w] EXCEPT !.pc = pc]
<1>2. task' = [task EXCEPT ![w] = r]
  BY <1>1 DEF Goto
<1>3. r \in TaskType /\ r.pc = pc /\ r.msg = task[w].msg /\ r.found = task[w].found
  BY <1>1 DEF TaskType, Pcs
<1> HIDE DEF r
<1> QED BY <1>1, <1>2, <1>3

LEMMA NoTaskFacts == NoTask \in TaskType /\ NoTask.pc = "idle"
BY Bounds DEF NoTask, TaskType

LEMMA TaskEnds ==
  ASSUME TypeOK, NEW w \in Workers, task' = [task EXCEPT ![w] = NoTask]
  PROVE  /\ task' \in [Workers -> TaskType] /\ task'[w].pc = "idle"
         /\ \A v \in Workers \ {w} : task'[v] = task[v]
BY NoTaskFacts DEF TypeOK

LEMMA KeptQuiet ==
  ASSUME UNCHANGED <<status, body, session, member, tardy>>,
         told \subseteq told', heard \subseteq heard', settled' \subseteq settled,
         \A t \in settled' : \A x \in sets[t] : x \in sets'[t] \/ <<x[1], t, x[2]>> \in heard'
  PROVE  Kept
BY DEF Kept

LEMMA HandlerStep ==
  ASSUME IInv, TypeOK', Kept, TokenShape',
         UNCHANGED <<status, hand, answer, body, reaped, session, member, tardy>>,
         \A t \in settled' : stream'[t] # "disabled",
         NEW w, \A v \in Workers \ {w} : task'[v] = task[v], w \in Workers => TaskShape(w)'
  PROVE  IInv'
<1>1. TableShape'
  BY DEF IInv, TableShape, InTable
<1>2. SessionShape'
  BY DEF IInv, SessionShape
<1>3. ASSUME NEW m \in Q!Messages PROVE BodyShape(m)' /\ (status'[m] = "done" => Finished(m)')
  <2>1. BodyShape(m)'
    BY BodyKept DEF BodyShape
  <2>2. status'[m] = "done" => Finished(m)'
    BY DoneKept
  <2> QED BY <2>1, <2>2
<1>4. ASSUME NEW v \in Workers PROVE HandShape(v)'
  <2>1. hand[v] # 0 => status'[hand[v]] = "pending"
    BY DEF IInv, HandShape
  <2> QED BY <2>1, HandKept
<1>5. ASSUME NEW v \in Workers PROVE TaskShape(v)'
  BY TaskKept
<1>6. \A s \in Sessions : EndShape(s)'
  BY EndKept
<1> QED BY <1>1, <1>2, <1>3, <1>4, <1>5, <1>6 DEF IInv

\* A finite set of logouts.
LEMMA FiniteLogouts ==
  ASSUME NEW s, NEW D \in SUBSET Clients
  PROVE  IsFiniteSet({LogoutOf(s, c) : c \in D})
<1> DEFINE T == {LogoutOf(s, c) : c \in D}
           f == [c \in D |-> LogoutOf(s, c)]
<1>1. IsFiniteSet(D)
  BY Constants, FS_Subset
<1>2. f \in Surjection(D, T)
  BY DEF Surjection
<1> HIDE DEF T, f
<1>3. IsFiniteSet(T)
  BY <1>1, <1>2, FS_Surjection
<1> QED BY <1>3 DEF T

\* Handlers that only move on, with what they have found.
LEMMA MovesOn ==
  ASSUME IInv, NEW w \in Workers, NEW pc \in {"retry", "permanent"}, Goto(w, pc),
         task[w].pc # "idle",
         UNCHANGED <<status, hand, answer, late, body, people, delivery, stream, sets, settled,
                     told, heard, reaped>>
  PROVE  IInv'
<1>1. TypeOK /\ pc \in Pcs
  BY DEF IInv, Pcs
<1>2. /\ task' \in [Workers -> TaskType] /\ \A v \in Workers \ {w} : task'[v] = task[v]
      /\ task'[w].pc = pc /\ task'[w].msg = task[w].msg
  BY <1>1, TaskGoto
<1>3. TypeOK'
  BY <1>1, <1>2 DEF TypeOK, people
<1>4. Kept
  BY KeptQuiet DEF people
<1>5. TokenShape'
  BY <1>4, TokensSame
<1>6. PICK m \in Q!Messages, s \in Sessions :
        /\ m = task[w].msg /\ s = body[m].session /\ status[m] # "unborn"
        /\ body[m].to = Serves[w]
  BY TaskRow
<1>7. TaskShape(w)'
  <2>1. m = task'[w].msg /\ s = body'[m].session /\ Serving(w, m)'
    BY <1>2, <1>6 DEF Serving
  <2> QED BY <1>2, <2>1, TaskPartsNext
<1>8. \A t \in settled' : stream'[t] # "disabled"
  BY DEF IInv, SessionShape
<1> QED BY <1>2, <1>3, <1>4, <1>5, <1>7, <1>8, HandlerStep DEF people

LEMMA StoreErrorStep ==
  ASSUME IInv, NEW w \in Workers, StoreError(w)
  PROVE  IInv'
<1>1. /\ Goto(w, "retry") /\ task[w].pc # "idle"
      /\ UNCHANGED <<status, hand, answer, late, body, people, delivery, stream, sets, settled,
                     told, heard, reaped>>
  BY DEF StoreError, queue, signals
<1> QED BY <1>1, MovesOn

LEMMA ReadParticipantsStep ==
  ASSUME IInv, NEW w \in Workers, ReadParticipants(w)
  PROVE  IInv'
<1>1. TypeOK /\ task[w].pc = "start" /\ Serves[w] = "ended"
  BY DEF IInv, ReadParticipants
<1>2. PICK m \in Q!Messages, s \in Sessions :
        /\ m = task[w].msg /\ s = body[m].session /\ status[m] # "unborn"
        /\ body[m].to = Serves[w] /\ Msg(w) = body[m]
  BY <1>1, TaskRow
<1> DEFINE D == {d \in Clients : <<s, d>> \in member}
           found == {LogoutOf(s, c) : c \in D}
<1>3. task' = [task EXCEPT ![w].pc = "streams", ![w].found = found]
  BY <1>2 DEF ReadParticipants
<1>4. found \in SUBSET (Bodies \cup Streams)
  BY PayloadTypes
<1>5. IsFiniteSet(found)
  BY FiniteLogouts
<1>6. /\ found \subseteq {LogoutOf(s, c) : c \in Clients}
      /\ \A c \in Clients : <<s, c>> \in member => LogoutOf(s, c) \in found
  OBVIOUS
<1> HIDE DEF D, found
<1>7. /\ task' \in [Workers -> TaskType] /\ \A v \in Workers \ {w} : task'[v] = task[v]
      /\ task'[w].pc = "streams" /\ task'[w].msg = task[w].msg /\ task'[w].found = found
  BY <1>1, <1>3, <1>4, TaskSet DEF Pcs
<1>8. UNCHANGED <<status, hand, answer, late, body, people, delivery, stream, sets, settled,
                  told, heard, reaped>>
  BY DEF ReadParticipants, queue, signals
<1>9. TypeOK'
  BY <1>1, <1>7, <1>8 DEF TypeOK, people
<1>10. Kept
  BY <1>8, KeptQuiet DEF people
<1>11. TokenShape'
  BY <1>8, <1>10, TokensSame
<1>12. TaskShape(w)'
  <2>1. m = task'[w].msg /\ s = body'[m].session /\ Serving(w, m)'
    BY <1>2, <1>7, <1>8 DEF Serving
  <2>2. Gathers(w, s)'
    BY <1>1, <1>5, <1>6, <1>7, <1>8 DEF Gathers, people
  <2> QED BY <1>7, <2>1, <2>2, TaskPartsNext
<1>13. \A t \in settled' : stream'[t] # "disabled"
  BY <1>8 DEF IInv, SessionShape
<1> QED BY <1>7, <1>8, <1>9, <1>10, <1>11, <1>12, <1>13, HandlerStep DEF people

LEMMA CheckStreamsStep ==
  ASSUME IInv, NEW w \in Workers, CheckStreams(w)
  PROVE  IInv'
<1>1. TypeOK /\ task[w].pc = "streams" /\ task[w] \in TaskType
  BY DEF IInv, CheckStreams, TypeOK
<1>2. PICK m \in Q!Messages, s \in Sessions :
        /\ m = task[w].msg /\ s = body[m].session /\ status[m] # "unborn"
        /\ body[m].to = Serves[w] /\ Msg(w) = body[m]
  BY <1>1, TaskRow
<1>3. Gathers(w, s)
  <2>1. TaskShape(w)
    BY DEF IInv
  <2> QED BY <1>1, <1>2, <2>1, TaskParts
<1> DEFINE found == IF Retaining = {} THEN task[w].found ELSE task[w].found \cup {TriggerOf(s)}
<1>4. task' = [task EXCEPT ![w].pc = "enqueue", ![w].found = found]
  BY <1>1, <1>2 DEF CheckStreams, TypeOK
<1>5. found \in SUBSET (Bodies \cup Streams)
  BY <1>1, PayloadTypes DEF TaskType
<1>6. IsFiniteSet(found)
  <2>1. IsFiniteSet(task[w].found)
    BY <1>3 DEF Gathers
  <2>2. IsFiniteSet(task[w].found \cup {TriggerOf(s)})
    BY <2>1, FS_AddElement
  <2> QED BY <2>1, <2>2
<1>7. /\ found \subseteq {LogoutOf(s, c) : c \in Clients} \cup {TriggerOf(s)}
      /\ \A c \in Clients : <<s, c>> \in member \ tardy => LogoutOf(s, c) \in found
  BY <1>3 DEF Gathers
<1>8. settled = {} \/ TriggerOf(s) \in found
  <2>1. CASE Retaining = {}
    <3>1. ASSUME NEW t \in settled PROVE FALSE
      <4>1. t \in Streams /\ stream[t] # "disabled" /\ stream[t] \in {"enabled", "paused", "disabled"}
        BY <1>1, <3>1 DEF IInv, SessionShape, TypeOK
      <4> QED BY <2>1, <4>1 DEF Retaining
    <3> QED BY <3>1
  <2>2. CASE Retaining # {}
    BY <2>2
  <2> QED BY <2>1, <2>2
<1> HIDE DEF found
<1>9. /\ task' \in [Workers -> TaskType] /\ \A v \in Workers \ {w} : task'[v] = task[v]
      /\ task'[w].pc = "enqueue" /\ task'[w].msg = task[w].msg /\ task'[w].found = found
  BY <1>1, <1>4, <1>5, TaskSet DEF Pcs
<1>10. UNCHANGED <<status, hand, answer, late, body, people, delivery, stream, sets, settled,
                   told, heard, reaped>>
  BY DEF CheckStreams, queue, signals
<1>11. TypeOK'
  BY <1>1, <1>9, <1>10 DEF TypeOK, people
<1>12. Kept
  BY <1>10, KeptQuiet DEF people
<1>13. TokenShape'
  BY <1>10, <1>12, TokensSame
<1>14. TaskShape(w)'
  <2>1. m = task'[w].msg /\ s = body'[m].session /\ Serving(w, m)'
    BY <1>2, <1>9, <1>10 DEF Serving
  <2>2. Gathers(w, s)'
    BY <1>3, <1>6, <1>7, <1>9, <1>10 DEF Gathers, people
  <2>3. settled' = {} \/ TriggerOf(s) \in task'[w].found
    BY <1>8, <1>9, <1>10
  <2> QED BY <1>9, <2>1, <2>2, <2>3, TaskPartsNext
<1>15. \A t \in settled' : stream'[t] # "disabled"
  BY <1>10 DEF IInv, SessionShape
<1> QED BY <1>9, <1>10, <1>11, <1>12, <1>13, <1>14, <1>15, HandlerStep DEF people

LEMMA ReadStreamsStep ==
  ASSUME IInv, NEW w \in Workers, ReadStreams(w)
  PROVE  IInv'
<1>1. TypeOK /\ task[w].pc = "start" /\ Serves[w] = "trigger"
  BY DEF IInv, ReadStreams
<1>2. PICK m \in Q!Messages, s \in Sessions :
        /\ m = task[w].msg /\ s = body[m].session /\ status[m] # "unborn"
        /\ body[m].to = Serves[w]
  BY <1>1, TaskRow
<1>3. Retaining \subseteq Streams /\ settled \subseteq Retaining
  BY <1>1 DEF IInv, SessionShape, TypeOK, Retaining
<1>4. /\ task' \in [Workers -> TaskType] /\ \A v \in Workers \ {w} : task'[v] = task[v]
      /\ task'[w].pc = "each" /\ task'[w].msg = task[w].msg /\ task'[w].found = Retaining
  <2> DEFINE R == Retaining
  <2>1. R \in SUBSET (Bodies \cup Streams)
    BY <1>3
  <2>2. task' = [task EXCEPT ![w].pc = "each", ![w].found = R]
    BY DEF ReadStreams
  <2> HIDE DEF R
  <2>3. /\ task' \in [Workers -> TaskType] /\ \A v \in Workers \ {w} : task'[v] = task[v]
        /\ task'[w].pc = "each" /\ task'[w].msg = task[w].msg /\ task'[w].found = R
    BY <1>1, <2>1, <2>2, TaskSet DEF Pcs
  <2> QED BY <2>3 DEF R
<1>5. UNCHANGED <<status, hand, answer, late, body, people, delivery, stream, sets, settled,
                  told, heard, reaped>>
  BY DEF ReadStreams, queue, signals
<1>6. TypeOK'
  BY <1>1, <1>4, <1>5 DEF TypeOK, people
<1>7. Kept
  BY <1>5, KeptQuiet DEF people
<1>8. TokenShape'
  BY <1>5, <1>7, TokensSame
<1>9. TaskShape(w)'
  <2>1. m = task'[w].msg /\ s = body'[m].session /\ Serving(w, m)'
    BY <1>2, <1>4, <1>5 DEF Serving
  <2>2. Signals(w, s)'
    BY <1>1, <1>3, <1>4, <1>5 DEF Signals
  <2> QED BY <1>4, <2>1, <2>2, TaskPartsNext
<1>10. \A t \in settled' : stream'[t] # "disabled"
  BY <1>5 DEF IInv, SessionShape
<1> QED BY <1>4, <1>5, <1>6, <1>7, <1>8, <1>9, <1>10, HandlerStep DEF people

\* A handler that has done its work says so.
LEMMA MovesToOk ==
  ASSUME IInv, NEW w \in Workers, Goto(w, "ok"), task[w].pc # "idle",
         UNCHANGED <<status, hand, answer, late, body, people, delivery, stream, sets, settled,
                     reaped>>,
         told \subseteq told', heard \subseteq heard', TokenShape',
         NEW m \in Q!Messages, m = task[w].msg, Finished(m)'
  PROVE  IInv'
<1>1. TypeOK /\ "ok" \in Pcs
  BY DEF IInv, Pcs
<1>2. /\ task' \in [Workers -> TaskType] /\ \A v \in Workers \ {w} : task'[v] = task[v]
      /\ task'[w].pc = "ok" /\ task'[w].msg = task[w].msg
  BY <1>1, TaskGoto
<1>3. TypeOK'
  BY <1>1, <1>2 DEF TypeOK, people
<1>4. Kept
  BY KeptQuiet DEF people
<1>5. PICK k \in Q!Messages, s \in Sessions :
        /\ k = task[w].msg /\ s = body[k].session /\ status[k] # "unborn"
        /\ body[k].to = Serves[w]
  BY TaskRow
<1>6. TaskShape(w)'
  <2>1. m = task'[w].msg /\ s = body'[m].session /\ Serving(w, m)'
    BY <1>2, <1>5 DEF Serving
  <2> QED BY <1>2, <2>1, TaskPartsNext
<1>7. \A t \in settled' : stream'[t] # "disabled"
  BY DEF IInv, SessionShape
<1> QED BY <1>2, <1>3, <1>4, <1>6, <1>7, HandlerStep DEF people

\* A handler that has sent a token and does not know it.
LEMMA MovesToRetry ==
  ASSUME IInv, NEW w \in Workers, Goto(w, "retry"), task[w].pc # "idle",
         UNCHANGED <<status, hand, answer, late, body, people, delivery, stream, sets, settled,
                     reaped>>,
         told \subseteq told', heard \subseteq heard', TokenShape'
  PROVE  IInv'
<1>1. TypeOK /\ "retry" \in Pcs
  BY DEF IInv, Pcs
<1>2. /\ task' \in [Workers -> TaskType] /\ \A v \in Workers \ {w} : task'[v] = task[v]
      /\ task'[w].pc = "retry" /\ task'[w].msg = task[w].msg
  BY <1>1, TaskGoto
<1>3. TypeOK'
  BY <1>1, <1>2 DEF TypeOK, people
<1>4. Kept
  BY KeptQuiet DEF people
<1>5. PICK m \in Q!Messages, s \in Sessions :
        /\ m = task[w].msg /\ s = body[m].session /\ status[m] # "unborn"
        /\ body[m].to = Serves[w]
  BY TaskRow
<1>6. TaskShape(w)'
  <2>1. m = task'[w].msg /\ s = body'[m].session /\ Serving(w, m)'
    BY <1>2, <1>5 DEF Serving
  <2> QED BY <1>2, <2>1, TaskPartsNext
<1>7. \A t \in settled' : stream'[t] # "disabled"
  BY DEF IInv, SessionShape
<1> QED BY <1>2, <1>3, <1>4, <1>6, <1>7, HandlerStep DEF people

LEMMA PostStep ==
  ASSUME IInv, NEW w \in Workers, Post(w)
  PROVE  IInv'
<1>1. TypeOK /\ task[w].pc = "start" /\ Serves[w] = "logout"
  BY DEF IInv, Post
<1>2. PICK m \in Q!Messages, s \in Sessions :
        /\ m = task[w].msg /\ s = body[m].session /\ status[m] # "unborn"
        /\ body[m].to = Serves[w] /\ Msg(w) = body[m]
  BY <1>1, TaskRow
<1>3. body[m].target \in Clients /\ body[m].jti = m /\ body[m] \in Bodies
  BY <1>1, <1>2, Kinds
<1> DEFINE c == body[m].target
<1>4. IsLogout(m, s, c)
  BY <1>1, <1>2, <1>3, StampedIs DEF IsLogout
<1>5. UNCHANGED <<status, hand, answer, late, body, people, delivery, stream, sets, settled,
                  heard, reaped>>
  BY DEF Post, queue, signals
<1>6. CASE told' = told \cup {<<s, c, m>>}
  <2>1. told \subseteq told' /\ heard \subseteq heard'
    BY <1>5, <1>6
  <2>2. Kept
    BY <1>5, <2>1, KeptQuiet DEF people
  <2>3. TokenShape'
    <3>1. status'[m] # "unborn" /\ IsLogout(m, s, c)'
      BY <1>2, <1>4, <1>5 DEF IsLogout
    <3>2. ASSUME NEW x \in told'
          PROVE  \E a \in Sessions, b \in Clients, k \in Q!Messages :
                   x = <<a, b, k>> /\ status'[k] # "unborn" /\ IsLogout(k, a, b)'
      <4>1. CASE x \in told
        BY <2>2, <4>1, TokensKept
      <4>2. CASE x = <<s, c, m>>
        <5>1. c \in Clients /\ IsLogout(m, s, body[m].target)'
          BY <1>3, <1>5, <3>1 DEF IsLogout
        <5>2. PICK y \in Clients : y = c
          BY <1>3
        <5>3. x = <<s, y, m>> /\ IsLogout(m, s, y)'
          BY <1>4, <1>5, <4>2, <5>2 DEF IsLogout
        <5> QED BY <3>1, <5>3
      <4> QED BY <1>6, <4>1, <4>2
    <3> QED BY <1>5, <2>2, <3>2, TokensKept DEF TokenShape
  <2>4. Finished(m)'
    BY <1>1, <1>2, <1>3, <1>5, <1>6 DEF Finished
  <2>5. Goto(w, "ok") \/ Goto(w, "retry")
    BY DEF Post
  <2> QED BY <1>1, <1>2, <1>5, <2>1, <2>3, <2>4, <2>5, MovesToOk, MovesToRetry
<1>7. CASE Goto(w, "retry") /\ UNCHANGED told
  BY <1>1, <1>5, <1>7, MovesOn
<1>8. <<Msg(w).session, Msg(w).target, Msg(w).jti>> = <<s, c, m>>
  BY <1>2, <1>3
<1> QED BY <1>6, <1>7, <1>8 DEF Post

LEMMA PushStep ==
  ASSUME IInv, NEW w \in Workers, Push(w)
  PROVE  IInv'
<1>1. TypeOK /\ task[w].pc = "start" /\ Serves[w] = "push"
  BY DEF IInv, Push
<1>2. PICK m \in Q!Messages, s \in Sessions :
        /\ m = task[w].msg /\ s = body[m].session /\ status[m] # "unborn"
        /\ body[m].to = Serves[w] /\ Msg(w) = body[m]
  BY <1>1, TaskRow
<1>3. PICK t \in Streams, j \in Q!Messages :
        t = body[m].target /\ j = body[m].jti /\ Minted(j, s)
  BY <1>1, <1>2, Kinds
<1>4. UNCHANGED <<status, hand, answer, late, body, people, delivery, stream, sets, settled,
                  told, reaped>>
  BY DEF Push, queue
<1>5. CASE heard' = heard \cup {<<s, t, j>>} /\ (Goto(w, "ok") \/ Goto(w, "retry"))
  <2>1. told \subseteq told' /\ heard \subseteq heard'
    BY <1>4, <1>5
  <2>2. Kept
    BY <1>4, <2>1, KeptQuiet DEF people
  <2>3. TokenShape'
    <3>1. Minted(j, s)'
      BY <1>3, <2>2, MintedKept
    <3>2. ASSUME NEW x \in heard'
          PROVE  \E a \in Sessions, b \in Streams, k \in Q!Messages :
                   x = <<a, b, k>> /\ Minted(k, a)'
      <4>1. CASE x \in heard
        BY <2>2, <4>1, TokensKept
      <4>2. CASE x = <<s, t, j>>
        BY <3>1, <4>2
      <4> QED BY <1>5, <4>1, <4>2
    <3> QED BY <1>4, <2>2, <3>2, TokensKept DEF TokenShape
  <2>4. Finished(m)'
    BY <1>1, <1>2, <1>3, <1>4, <1>5 DEF Finished
  <2> QED BY <1>1, <1>2, <1>4, <1>5, <2>1, <2>3, <2>4, MovesToOk, MovesToRetry
<1>6. CASE (Goto(w, "retry") \/ Goto(w, "permanent")) /\ UNCHANGED heard
  BY <1>1, <1>4, <1>6, MovesOn
<1>7. <<Msg(w).session, Msg(w).target, Msg(w).jti>> = <<s, t, j>>
  BY <1>2, <1>3
<1> QED BY <1>5, <1>6, <1>7 DEF Push

LEMMA AllStreamsDoneStep ==
  ASSUME IInv, NEW w \in Workers, AllStreamsDone(w)
  PROVE  IInv'
<1>1. TypeOK /\ task[w].pc = "each" /\ task[w].found = {} /\ Goto(w, "ok")
  BY DEF IInv, AllStreamsDone
<1>2. PICK m \in Q!Messages, s \in Sessions :
        /\ m = task[w].msg /\ s = body[m].session /\ status[m] # "unborn"
        /\ body[m].to = Serves[w]
  BY <1>1, TaskRow
<1>3. UNCHANGED <<status, hand, answer, late, body, people, delivery, stream, sets, settled,
                  told, heard, reaped>>
  BY DEF AllStreamsDone, queue, signals
<1>4. Signals(w, s)
  <2>1. TaskShape(w)
    BY DEF IInv
  <2> QED BY <1>1, <1>2, <2>1, TaskParts
<1>5. Finished(m)
  BY <1>1, <1>2, <1>4 DEF Finished, Signals
<1>6. Kept
  BY <1>3, KeptQuiet DEF people
<1>7. TokenShape'
  BY <1>3, <1>6, TokensSame
<1>8. TypeOK'
  <2>1. task' \in [Workers -> TaskType]
    BY <1>1, TaskGoto DEF Pcs
  <2> QED BY <1>1, <1>3, <2>1 DEF TypeOK, people
<1>9. Finished(m)'
  BY <1>2, <1>5, <1>6, <1>8, FinishedKept
<1> QED BY <1>1, <1>2, <1>3, <1>7, <1>9, MovesToOk

LEMMA CountOwedStep ==
  ASSUME IInv, NEW w \in Workers, CountOwed(w)
  PROVE  IInv'
<1>1. TypeOK /\ task[w].pc = "each" /\ task[w].found # {} /\ task[w] \in TaskType
  BY DEF IInv, CountOwed, TypeOK
<1>2. PICK m \in Q!Messages, s \in Sessions :
        /\ m = task[w].msg /\ s = body[m].session /\ status[m] # "unborn"
        /\ body[m].to = Serves[w]
  BY <1>1, TaskRow
<1>3. Signals(w, s)
  <2>1. TaskShape(w)
    BY DEF IInv
  <2> QED BY <1>1, <1>2, <2>1, TaskParts
<1>4. /\ task' \in [Workers -> TaskType] /\ \A v \in Workers \ {w} : task'[v] = task[v]
      /\ task'[w].pc = "insert" /\ task'[w].msg = task[w].msg /\ task'[w].found = task[w].found
  <2> DEFINE room == Cardinality(sets[NextStream(w)]) < Ceiling
             r == [[task[w] EXCEPT !.pc = "insert"] EXCEPT !.room = room]
  <2>1. room \in BOOLEAN
    OBVIOUS
  <2>2. task' = [task EXCEPT ![w] = r]
    BY <1>1 DEF CountOwed, TypeOK
  <2> HIDE DEF room
  <2>3. r \in TaskType /\ r.pc = "insert" /\ r.msg = task[w].msg /\ r.found = task[w].found
    BY <1>1, <2>1 DEF TaskType
  <2> HIDE DEF r
  <2> QED BY <1>1, <2>2, <2>3 DEF TypeOK
<1>5. UNCHANGED <<status, hand, answer, late, body, people, delivery, stream, sets, settled,
                  told, heard, reaped>>
  BY DEF CountOwed, queue, signals
<1>6. TypeOK'
  BY <1>1, <1>4, <1>5 DEF TypeOK, people
<1>7. Kept
  BY <1>5, KeptQuiet DEF people
<1>8. TokenShape'
  BY <1>5, <1>7, TokensSame
<1>9. TaskShape(w)'
  <2>1. m = task'[w].msg /\ s = body'[m].session /\ Serving(w, m)'
    BY <1>2, <1>4, <1>5 DEF Serving
  <2>2. Signals(w, s)'
    BY <1>3, <1>4, <1>6, <1>7, SignalsKept
  <2> QED BY <1>1, <1>4, <2>1, <2>2, TaskPartsNext
<1>10. \A t \in settled' : stream'[t] # "disabled"
  BY <1>5 DEF IInv, SessionShape
<1> QED BY <1>4, <1>5, <1>6, <1>7, <1>8, <1>9, <1>10, HandlerStep DEF people

\* NextStream is one of the streams still to do.
LEMMA StreamDoneIs ==
  ASSUME TypeOK, NEW w \in Workers, task[w].found # {}, task[w].found \subseteq Streams,
         StreamDone(w)
  PROVE  /\ NextStream(w) \in task[w].found
         /\ task' \in [Workers -> TaskType] /\ \A v \in Workers \ {w} : task'[v] = task[v]
         /\ task'[w].pc = "each" /\ task'[w].msg = task[w].msg
         /\ task'[w].found = task[w].found \ {NextStream(w)}
<1>1. NextStream(w) \in task[w].found
  BY DEF NextStream
<1>2. task \in [Workers -> TaskType] /\ task[w] \in TaskType
  BY DEF TypeOK
<1> DEFINE t == NextStream(w)
           r == [[task[w] EXCEPT !.found = task[w].found \ {t}] EXCEPT !.pc = "each"]
<1>3. task' = [task EXCEPT ![w] = r]
  BY <1>2 DEF StreamDone
<1> HIDE DEF t
<1>4. /\ r \in TaskType /\ r.pc = "each" /\ r.msg = task[w].msg
      /\ r.found = task[w].found \ {t}
  BY <1>2 DEF TaskType
<1> HIDE DEF r
<1>5. /\ task' \in [Workers -> TaskType] /\ \A v \in Workers \ {w} : task'[v] = task[v]
      /\ task'[w].pc = "each" /\ task'[w].msg = task[w].msg
      /\ task'[w].found = task[w].found \ {t}
  BY <1>2, <1>3, <1>4
<1> QED BY <1>1, <1>5 DEF t

LEMMA QueueSetStep ==
  ASSUME IInv, NEW w \in Workers, QueueSet(w)
  PROVE  IInv'
<1>1. TypeOK /\ task[w].pc = "insert" /\ StreamDone(w)
  BY DEF IInv, QueueSet
<1>2. PICK m \in Q!Messages, s \in Sessions :
        /\ m = task[w].msg /\ s = body[m].session /\ status[m] # "unborn"
        /\ body[m].to = Serves[w] /\ Msg(w) = body[m]
  BY <1>1, TaskRow
<1>3. Signals(w, s) /\ task[w].found # {}
  <2>1. TaskShape(w)
    BY DEF IInv
  <2> QED BY <1>1, <1>2, <2>1, TaskParts
<1>4. Serves[w] = "trigger" /\ body[m].jti = m /\ Minted(m, s)
  <2>1. Serves[w] = "trigger"
    BY <1>3 DEF Signals
  <2>2. body[m].to = "trigger" /\ body[m].target = "none" /\ body[m].jti = m /\ body[m] \in Bodies
    BY <1>2, <2>1, Kinds
  <2> QED BY <1>2, <2>1, <2>2, StampedIs DEF Minted, IsTrigger
<1>5. PICK t \in Streams : t = NextStream(w)
  BY <1>1, <1>3, StreamDoneIs DEF Signals
<1>6. /\ task' \in [Workers -> TaskType] /\ \A v \in Workers \ {w} : task'[v] = task[v]
      /\ task'[w].pc = "each" /\ task'[w].msg = task[w].msg
      /\ task'[w].found = task[w].found \ {t}
  BY <1>1, <1>3, <1>5, StreamDoneIs DEF Signals
<1>7. /\ sets' = IF task[w].room THEN [sets EXCEPT ![t] = @ \cup {<<s, m>>}] ELSE sets
      /\ settled' = IF task[w].room THEN settled ELSE settled \ {t}
  BY <1>2, <1>4, <1>5 DEF QueueSet
<1>8. UNCHANGED <<status, hand, answer, late, body, people, delivery, stream, told, heard, reaped>>
  BY DEF QueueSet, queue
<1>9. sets \in [Streams -> SUBSET (Sessions \X (1 .. Last))] /\ settled \subseteq Streams
  BY <1>1 DEF TypeOK
<1>10. /\ sets' \in [Streams -> SUBSET (Sessions \X (1 .. Last))] /\ settled' \subseteq settled
       /\ \A x \in Streams : sets[x] \subseteq sets'[x] /\ sets'[x] \subseteq sets[x] \cup {<<s, m>>}
       /\ t \in settled' => <<s, m>> \in sets'[t]
  BY <1>7, <1>9, Bounds
<1>11. TypeOK'
  BY <1>1, <1>6, <1>8, <1>9, <1>10 DEF TypeOK, people
<1>12. Kept
  BY <1>8, <1>9, <1>10, KeptQuiet DEF people
<1>13. TokenShape'
  <2>1. Minted(m, s)'
    BY <1>4, <1>12, MintedKept
  <2>2. ASSUME NEW x \in Streams, NEW y \in sets'[x] PROVE Minted(y[2], y[1])'
    <3>1. CASE y \in sets[x]
      BY <1>12, <3>1, TokensKept
    <3>2. CASE y = <<s, m>>
      <4>1. y[2] = m /\ y[1] = s
        BY <3>2
      <4> QED BY <2>1, <4>1
    <3> QED BY <1>10, <3>1, <3>2
  <2> QED BY <1>8, <1>12, <2>2, TokensKept DEF TokenShape
<1>14. TaskShape(w)'
  <2>1. m = task'[w].msg /\ s = body'[m].session /\ Serving(w, m)'
    BY <1>2, <1>6, <1>8 DEF Serving
  <2>2. Signals(w, s)'
    <3>1. ASSUME NEW x \in settled' \ task'[w].found PROVE Signalled(s, x)'
      <4>1. CASE x = t
        BY <1>10, <3>1, <4>1 DEF Signalled
      <4>2. CASE x # t
        <5>1. Signalled(s, x)
          BY <1>3, <1>6, <1>10, <3>1, <4>2 DEF Signals
        <5> QED BY <1>11, <1>12, <3>1, <5>1, SignalledKept
      <4> QED BY <4>1, <4>2
    <3> QED BY <1>3, <1>6, <3>1 DEF Signals
  <2> QED BY <1>6, <2>1, <2>2, TaskPartsNext
<1>15. \A x \in settled' : stream'[x] # "disabled"
  BY <1>8, <1>10 DEF IInv, SessionShape
<1> QED BY <1>6, <1>8, <1>11, <1>12, <1>13, <1>14, <1>15, HandlerStep DEF people

-----------------------------------------------------------------------------
(* Receivers and the operator.                                             *)

LEMMA AcknowledgeStep ==
  ASSUME IInv, NEW t \in Streams, NEW set \in sets[t], Acknowledge(t, set)
  PROVE  IInv'
<1>1. TypeOK /\ sets \in [Streams -> SUBSET (Sessions \X (1 .. Last))] /\ Minted(set[2], set[1])
  BY DEF IInv, TypeOK, TokenShape
<1>2. PICK s \in Sessions, j \in Q!Messages : set = <<s, j>> /\ Minted(j, s)
  BY <1>1, Bounds
<1>3. /\ sets' = [sets EXCEPT ![t] = @ \ {set}] /\ heard' = heard \cup {<<s, t, j>>}
      /\ UNCHANGED <<status, hand, answer, late, body, task, people, delivery, stream, settled,
                     told, reaped>>
  BY <1>2 DEF Acknowledge, queue
<1>4. /\ sets' \in [Streams -> SUBSET (Sessions \X (1 .. Last))]
      /\ \A x \in Streams : sets'[x] \subseteq sets[x]
      /\ \A x \in Streams : \A y \in sets[x] : y \in sets'[x] \/ (x = t /\ y = set)
  BY <1>1, <1>3
<1>5. TypeOK'
  BY <1>1, <1>3, <1>4 DEF TypeOK, people
<1>6. Kept
  <2>1. ASSUME NEW x \in settled', NEW y \in sets[x]
        PROVE  y \in sets'[x] \/ <<y[1], x, y[2]>> \in heard'
    <3>1. x \in Streams
      BY <1>5, <2>1 DEF TypeOK
    <3>2. CASE y \in sets'[x]
      BY <3>2
    <3>3. CASE x = t /\ y = set
      BY <1>2, <1>3, <3>3
    <3> QED BY <1>4, <2>1, <3>1, <3>2, <3>3
  <2> QED BY <1>3, <2>1, KeptQuiet DEF people
<1>7. TokenShape'
  <2>1. Minted(j, s)'
    BY <1>2, <1>6, MintedKept
  <2>2. ASSUME NEW x \in heard'
        PROVE  \E a \in Sessions, b \in Streams, k \in Q!Messages :
                 x = <<a, b, k>> /\ Minted(k, a)'
    <3>1. CASE x \in heard
      BY <1>6, <3>1, TokensKept
    <3>2. CASE x = <<s, t, j>>
      BY <2>1, <3>2
    <3> QED BY <1>3, <3>1, <3>2
  <2> QED BY <1>3, <1>4, <1>6, <2>2, TokensKept DEF TokenShape
<1>8. \A x \in settled' : stream'[x] # "disabled"
  BY <1>3 DEF IInv, SessionShape
<1>9. 0 \in Workers => TaskShape(0)'
  BY <1>3, <1>5, <1>6, TaskKept
<1> QED BY <1>3, <1>5, <1>6, <1>7, <1>8, <1>9, HandlerStep DEF people

LEMMA SetStatusStep ==
  ASSUME IInv, NEW t \in Streams, NEW st \in {"enabled", "paused", "disabled"}, SetStatus(t, st)
  PROVE  IInv'
<1>1. TypeOK
  BY DEF IInv
<1>2. /\ stream' = [stream EXCEPT ![t] = st]
      /\ sets' = IF st # "disabled" THEN sets ELSE [sets EXCEPT ![t] = {}]
      /\ settled' = IF st = "disabled" THEN settled \ {t} ELSE settled
      /\ UNCHANGED <<status, hand, answer, late, body, task, people, delivery, heard, told, reaped>>
  BY DEF SetStatus, queue, Keeps
<1>3. /\ sets \in [Streams -> SUBSET (Sessions \X (1 .. Last))] /\ settled \subseteq Streams
      /\ stream \in [Streams -> {"enabled", "paused", "disabled"}]
      /\ \A x \in settled : stream[x] # "disabled"
  BY DEF IInv, TypeOK, SessionShape
<1>4. /\ sets' \in [Streams -> SUBSET (Sessions \X (1 .. Last))] /\ settled' \subseteq settled
      /\ stream' \in [Streams -> {"enabled", "paused", "disabled"}]
      /\ \A x \in Streams : sets'[x] \subseteq sets[x]
      /\ \A x \in settled' : sets'[x] = sets[x]
      /\ \A x \in settled' : stream'[x] # "disabled"
  BY <1>2, <1>3
<1>5. TypeOK'
  BY <1>1, <1>2, <1>3, <1>4 DEF TypeOK, people
<1>6. Kept
  BY <1>2, <1>4, KeptQuiet DEF people
<1>7. TokenShape'
  BY <1>2, <1>4, <1>6, TokensKept DEF TokenShape
<1>8. 0 \in Workers => TaskShape(0)'
  BY <1>2, <1>5, <1>6, TaskKept
<1> QED BY <1>2, <1>4, <1>5, <1>6, <1>7, <1>8, HandlerStep DEF people

-----------------------------------------------------------------------------
(* The steps of the queue.                                                 *)

LEMMA QueueStep ==
  ASSUME IInv, TypeOK', Kept,
         UNCHANGED <<body, people, stream, sets, settled, told, heard>>, reaped \subseteq reaped',
         \A m \in Q!Messages :
           /\ status'[m] = "unborn" <=> status[m] = "unborn"
           /\ status'[m] \in {"pending", "done", "dead"} => status[m] \in {"pending", "done", "dead"}
           /\ status'[m] = "removed" => status[m] = "removed" \/ Key(body[m]) \in reaped'
           /\ status'[m] = "done" => Finished(m)',
         \A v \in Workers : HandShape(v)' /\ TaskShape(v)'
  PROVE  IInv'
<1>1. TableShape'
  <2>1. TableShape
    BY DEF IInv
  <2>2. \E n \in 0 .. Last : \A m \in Q!Messages : status'[m] # "unborn" <=> m <= n
    BY <2>1 DEF TableShape
  <2>3. ASSUME NEW m \in Q!Messages, NEW b \in Q!Messages, InTable(m)', InTable(b)',
               Key(body[m])' = Key(body[b])'
        PROVE  m = b
    <3>1. InTable(m) /\ InTable(b)
      BY <2>3 DEF InTable
    <3>2. Key(body[m]) = Key(body[b])
      BY <2>3 DEF Key
    <3> QED BY <2>1, <3>1, <3>2 DEF TableShape
  <2>4. ASSUME NEW m \in Q!Messages, status'[m] = "removed" PROVE Key(body[m])' \in reaped'
    BY <2>1, <2>4 DEF TableShape, Key
  <2> QED BY <2>2, <2>3, <2>4 DEF TableShape
<1>2. SessionShape'
  BY DEF IInv, SessionShape, people
<1>3. TokenShape'
  BY TokensSame
<1>4. \A m \in Q!Messages : BodyShape(m)'
  BY BodyKept DEF BodyShape
<1>5. \A s \in Sessions : EndShape(s)'
  BY EndKept DEF people
<1> QED BY <1>1, <1>2, <1>3, <1>4, <1>5 DEF IInv

LEMMA TakeStep ==
  ASSUME IInv, NEW w \in Workers, NEW m \in Q!Messages, Take(w, m)
  PROVE  IInv'
<1>1. /\ TypeOK /\ status[m] = "pending" /\ hand[w] = 0 /\ body[m].to = Serves[w]
      /\ \A v \in Workers : hand[v] # m
      /\ hand' = [hand EXCEPT ![w] = m]
      /\ task' = [task EXCEPT ![w] = [NoTask EXCEPT !.pc = "start", !.msg = m]]
      /\ UNCHANGED <<status, answer, late, body, people, delivery, stream, sets, settled,
                     told, heard, reaped>>
  BY DEF IInv, Take, Q!Take, Q!InHands, signals
<1> DEFINE r == [NoTask EXCEPT !.pc = "start", !.msg = m]
<1>2. r = [[NoTask EXCEPT !.pc = "start"] EXCEPT !.msg = m]
  BY NoTaskFacts DEF TaskType
<1>3. r \in TaskType /\ r.pc = "start" /\ r.msg = m
  BY <1>2, NoTaskFacts, Bounds DEF TaskType
<1> HIDE DEF r
<1>4. /\ task' \in [Workers -> TaskType] /\ task'[w] = r
      /\ \A v \in Workers \ {w} : task'[v] = task[v]
  BY <1>1, <1>3 DEF TypeOK, r
<1>5. /\ hand' \in [Workers -> 0 .. Last] /\ hand'[w] = m
      /\ \A v \in Workers \ {w} : hand'[v] = hand[v]
  BY <1>1, Bounds DEF TypeOK
<1>6. TypeOK'
  BY <1>1, <1>4, <1>5 DEF TypeOK, people
<1>7. Kept
  BY <1>1, KeptQuiet DEF people
<1>8. HandShape(w)'
  <2>1. answer'[w] = "none"
    BY <1>1 DEF IInv, HandShape
  <2>2. m # 0
    BY Bounds
  <2> QED BY <1>1, <1>5, <2>1, <2>2 DEF HandShape
<1>9. ASSUME NEW v \in Workers, v # w PROVE HandShape(v)'
  <2> SUFFICES ASSUME hand[v] # 0 PROVE HandShape(v)'
    BY <1>1, <1>5, <1>9 DEF IInv, HandShape
  <2>1. PICK k \in Q!Messages : k = hand[v]
    BY <1>1, Bounds DEF TypeOK
  <2>2. /\ status[k] = "pending" /\ body[k].to = Serves[v]
        /\ \A u \in Workers : hand[u] = k => u = v
        /\ answer[v] = "ok" => Finished(k)
    BY <2>1 DEF IInv, HandShape
  <2>3. answer'[v] = "ok" => Finished(k)'
    BY <1>1, <1>6, <1>7, <2>2, FinishedKept
  <2>4. k = hand'[v] /\ \A u \in Workers : hand'[u] = k => u = v
    BY <1>1, <1>5, <1>9, <2>1, <2>2
  <2>5. answer'[v] = "ok" => Finished(hand[v])'
    BY <2>3, <2>4
  <2> QED BY <1>1, <2>2, <2>4, <2>5 DEF HandShape
<1>10. TaskShape(w)'
  <2>1. PICK s : s = body'[m].session
    OBVIOUS
  <2>2. m = task'[w].msg /\ Serving(w, m)' /\ task'[w].pc = "start"
    BY <1>1, <1>3, <1>4 DEF Serving
  <2> QED BY <2>1, <2>2, TaskPartsNext
<1>11. \A v \in Workers \ {w} : TaskShape(v)'
  BY <1>4, <1>6, <1>7, TaskKept
<1>12. \A k \in Q!Messages : status'[k] = "done" => Finished(k)'
  BY <1>1, <1>6, <1>7, DoneKept
<1> QED BY <1>1, <1>6, <1>7, <1>8, <1>9, <1>10, <1>11, <1>12, QueueStep

LEMMA ReportStep ==
  ASSUME IInv, NEW w \in Workers, Report(w)
  PROVE  IInv'
<1>1. /\ TypeOK /\ task[w].pc \in {"ok", "retry", "permanent"}
      /\ task' = [task EXCEPT ![w] = NoTask]
      /\ UNCHANGED <<status, hand, late, body, people, delivery, stream, sets, settled,
                     told, heard, reaped>>
  BY DEF IInv, Report, Q!Answer, queue, signals
<1>2. \/ UNCHANGED answer
      \/ hand[w] # 0 /\ hand[w] = task[w].msg /\ answer' = [answer EXCEPT ![w] = task[w].pc]
  BY DEF Report, Q!Answer, queue
<1>3. /\ task' \in [Workers -> TaskType] /\ task'[w].pc = "idle"
      /\ \A v \in Workers \ {w} : task'[v] = task[v]
  BY <1>1, TaskEnds
<1>4. /\ answer' \in [Workers -> {"none", "ok", "retry", "permanent"}]
      /\ \A v \in Workers \ {w} : answer'[v] = answer[v]
  BY <1>1, <1>2 DEF TypeOK
<1>5. TypeOK'
  BY <1>1, <1>3, <1>4 DEF TypeOK, people
<1>6. Kept
  BY <1>1, KeptQuiet DEF people
<1>7. \A v \in Workers : /\ hand'[v] \in {hand[v], 0} /\ hand'[v] = hand[v]
                         /\ hand[v] # 0 => status'[hand[v]] = "pending"
  BY <1>1 DEF IInv, HandShape
<1>8. HandShape(w)'
  <2>1. CASE UNCHANGED answer
    BY <1>5, <1>6, <1>7, <2>1, HandKept
  <2>2. CASE hand[w] # 0 /\ hand[w] = task[w].msg /\ answer' = [answer EXCEPT ![w] = task[w].pc]
    <3>1. PICK m \in Q!Messages : m = hand[w]
      BY <1>1, <2>2, Bounds DEF TypeOK
    <3>2. /\ status[m] = "pending" /\ body[m].to = Serves[w]
          /\ \A v \in Workers : hand[v] = m => v = w
      BY <2>2, <3>1 DEF IInv, HandShape
    <3>3. answer'[w] = task[w].pc
      BY <1>1, <2>2 DEF TypeOK
    <3>4. task[w].pc = "ok" => Finished(m)
      BY <2>2, <3>1 DEF IInv, TaskShape
    <3>5. answer'[w] = "ok" => Finished(m)'
      BY <1>5, <1>6, <3>2, <3>3, <3>4, FinishedKept
    <3>6. m = hand'[w]
      BY <1>1, <3>1
    <3>7. answer'[w] = "ok" => Finished(hand[w])'
      BY <3>5, <3>6
    <3> QED BY <1>1, <2>2, <3>1, <3>2, <3>7 DEF HandShape
  <2> QED BY <1>2, <2>1, <2>2
<1>9. \A v \in Workers \ {w} : HandShape(v)'
  BY <1>4, <1>5, <1>6, <1>7, HandKept
<1>10. \A v \in Workers : TaskShape(v)'
  <2>1. TaskShape(w)'
    BY <1>3 DEF TaskShape
  <2> QED BY <1>3, <1>5, <1>6, <2>1, TaskKept
<1>11. \A k \in Q!Messages : status'[k] = "done" => Finished(k)'
  BY <1>1, <1>5, <1>6, DoneKept
<1> QED BY <1>1, <1>5, <1>6, <1>8, <1>9, <1>10, <1>11, QueueStep

\* The workers W let go; the others have what they had.
LEMMA HandsLetGo ==
  ASSUME IInv, TypeOK', Kept, NEW W, Q!LetGo(W),
         \A v \in Workers \ W : hand[v] # 0 => status'[hand[v]] = "pending"
  PROVE  \A v \in Workers : HandShape(v)'
<1> SUFFICES ASSUME NEW v \in Workers PROVE HandShape(v)'
  OBVIOUS
<1>1. \A u \in Workers : IF u \in W THEN hand'[u] = 0 /\ answer'[u] = "none"
                                    ELSE hand'[u] = hand[u] /\ answer'[u] = answer[u]
  BY DEF Q!LetGo
<1>2. CASE v \in W
  BY <1>1, <1>2 DEF HandShape
<1>3. CASE v \notin W
  BY <1>1, <1>3, HandKept
<1> QED BY <1>2, <1>3

LEMMA LetGoTypes ==
  ASSUME TypeOK, NEW W, Q!LetGo(W)
  PROVE  /\ hand' \in [Workers -> 0 .. Last]
         /\ answer' \in [Workers -> {"none", "ok", "retry", "permanent"}]
BY Bounds DEF TypeOK, Q!LetGo

LEMMA SettleStep ==
  ASSUME IInv, NEW w \in Workers, Settle(w)
  PROVE  IInv'
<1>1. /\ TypeOK /\ Q!LetGo({w}) /\ hand[w] # 0
      /\ MayBecome(hand[w], status'[hand[w]])
      /\ UNCHANGED <<late, body, task, people, delivery, stream, sets, settled,
                     told, heard, reaped>>
  BY DEF IInv, Settle, Q!Settle, signals
<1>2. PICK m \in Q!Messages : m = hand[w]
  BY <1>1, Bounds DEF TypeOK
<1>3. /\ status[m] = "pending"
      /\ answer[w] = "ok" => Finished(m)
      /\ \A v \in Workers : hand[v] = m => v = w
  BY <1>1, <1>2 DEF IInv, HandShape
<1>4. PICK o \in Q!Outcomes(answer[w]) : status' = [status EXCEPT ![m] = o]
  BY <1>2 DEF Settle, Q!Settle
<1>5. o \in {"pending", "done", "dead"} /\ (o = "done" => answer[w] = "ok")
  <2>1. answer[w] \in {"none", "ok", "retry", "permanent"}
    BY <1>1 DEF TypeOK
  <2> QED BY <1>4, <2>1 DEF Q!Outcomes
<1>6. /\ status' \in [Q!Messages -> {"unborn", "pending", "done", "dead", "removed"}]
      /\ status'[m] = o /\ \A k \in Q!Messages \ {m} : status'[k] = status[k]
  BY <1>1, <1>4, <1>5 DEF TypeOK
<1>7. TypeOK'
  BY <1>1, <1>6, LetGoTypes DEF TypeOK, people
<1>8. body[m].to = "ended" => o # "dead"
  BY <1>1, <1>2, <1>6 DEF MayBecome
<1>9. Kept
  <2>1. ASSUME NEW k \in Q!Messages, status[k] # "unborn"
        PROVE  /\ status'[k] # "unborn" /\ body'[k] = body[k]
               /\ status[k] \in {"pending", "dead"} =>
                    status'[k] \in {"pending", "dead"} \/ Finished(k)
               /\ status[k] = "pending" /\ body[k].to = "ended" =>
                    status'[k] = "pending" \/ Finished(k)
    <3>1. CASE k = m
      BY <1>1, <1>3, <1>5, <1>6, <1>8, <3>1
    <3>2. CASE k # m
      BY <1>1, <1>6, <2>1, <3>2
    <3> QED BY <3>1, <3>2
  <2> QED BY <1>1, <2>1 DEF Kept, people
<1>10. ASSUME NEW k \in Q!Messages, status'[k] = "done" PROVE Finished(k)'
  <2>1. Finished(k) /\ status[k] # "unborn"
    <3>1. CASE k = m
      BY <1>3, <1>5, <1>6, <1>10, <3>1
    <3>2. CASE k # m
      BY <1>6, <1>10, <3>2 DEF IInv
    <3> QED BY <3>1, <3>2
  <2> QED BY <1>7, <1>9, <2>1, FinishedKept
<1>11. \A v \in Workers : HandShape(v)'
  <2>1. ASSUME NEW v \in Workers \ {w}, hand[v] # 0 PROVE status'[hand[v]] = "pending"
    <3>1. status[hand[v]] = "pending" /\ hand[v] # m /\ hand[v] \in Q!Messages
      BY <1>1, <1>3, <2>1, Bounds DEF IInv, HandShape, TypeOK
    <3> QED BY <1>6, <3>1
  <2> QED BY <1>1, <1>7, <1>9, <2>1, HandsLetGo
<1>12. \A v \in Workers : TaskShape(v)'
  BY <1>1, <1>7, <1>9, TaskKept
<1>13. \A k \in Q!Messages :
         /\ status'[k] = "unborn" <=> status[k] = "unborn"
         /\ status'[k] \in {"pending", "done", "dead"} => status[k] \in {"pending", "done", "dead"}
         /\ status'[k] = "removed" => status[k] = "removed"
  BY <1>3, <1>5, <1>6
<1> QED BY <1>1, <1>7, <1>9, <1>10, <1>11, <1>12, <1>13, QueueStep

LEMMA LoseStep ==
  ASSUME IInv, NEW w \in Workers, Overrun(w) \/ Crash(w)
  PROVE  IInv'
<1>1. /\ TypeOK /\ Q!LetGo({w})
      /\ UNCHANGED <<status, late, body, people, delivery, stream, sets, settled,
                     told, heard, reaped>>
  BY DEF IInv, Overrun, Crash, Q!Lose, signals
<1>2. task' = [task EXCEPT ![w] = NoTask] \/ UNCHANGED task
  BY DEF Overrun, Crash
<1>3. /\ task' \in [Workers -> TaskType]
      /\ task'[w].pc = "idle" \/ task'[w] = task[w]
      /\ \A v \in Workers \ {w} : task'[v] = task[v]
  BY <1>1, <1>2, TaskEnds DEF TypeOK
<1>4. TypeOK'
  BY <1>1, <1>3, LetGoTypes DEF TypeOK, people
<1>5. Kept
  BY <1>1, KeptQuiet DEF people
<1>6. \A v \in Workers : HandShape(v)'
  <2>1. \A v \in Workers \ {w} : hand[v] # 0 => status'[hand[v]] = "pending"
    BY <1>1 DEF IInv, HandShape
  <2> QED BY <1>1, <1>4, <1>5, <2>1, HandsLetGo
<1>7. \A v \in Workers : TaskShape(v)'
  <2>1. task'[w].pc = "idle" => TaskShape(w)'
    BY DEF TaskShape
  <2> QED BY <1>3, <1>4, <1>5, <2>1, TaskKept
<1>8. \A k \in Q!Messages : status'[k] = "done" => Finished(k)'
  BY <1>1, <1>4, <1>5, DoneKept
<1> QED BY <1>1, <1>4, <1>5, <1>6, <1>7, <1>8, QueueStep

LEMMA ReplayStep ==
  ASSUME IInv, NEW m \in Q!Messages, Replay(m)
  PROVE  IInv'
<1>1. /\ TypeOK /\ status[m] = "dead"
      /\ status' = [k \in Q!Messages |-> IF k = m THEN "pending" ELSE status[k]]
      /\ late' = late \cup {m}
      /\ UNCHANGED <<hand, answer, body, task, people, delivery, stream, sets, settled,
                     told, heard, reaped>>
  BY DEF IInv, Replay, Q!Replay, signals
<1>2. /\ status' \in [Q!Messages -> {"unborn", "pending", "done", "dead", "removed"}]
      /\ status'[m] = "pending" /\ \A k \in Q!Messages \ {m} : status'[k] = status[k]
  BY <1>1 DEF TypeOK
<1>3. TypeOK'
  BY <1>1, <1>2 DEF TypeOK, people
<1>4. Kept
  BY <1>1, <1>2 DEF Kept, people
<1>5. ASSUME NEW v \in Workers PROVE HandShape(v)'
  <2>1. hand[v] # 0 => status'[hand[v]] = "pending"
    BY <1>1, <1>2, Bounds DEF IInv, HandShape, TypeOK
  <2> QED BY <1>1, <1>3, <1>4, <2>1, HandKept
<1>6. \A v \in Workers : TaskShape(v)'
  BY <1>1, <1>3, <1>4, TaskKept
<1>7. \A k \in Q!Messages : status'[k] = "done" => Finished(k)'
  BY <1>1, <1>2, <1>3, <1>4, DoneKept
<1> QED BY <1>1, <1>2, <1>3, <1>4, <1>5, <1>6, <1>7, QueueStep

LEMMA ReapStep ==
  ASSUME IInv, NEW m \in Q!Messages, Reap(m)
  PROVE  IInv'
<1> DEFINE W == {v \in Workers : hand[v] \in {m}}
<1>1. /\ TypeOK /\ status[m] = "done" /\ Q!LetGo(W)
      /\ status' = [k \in Q!Messages |-> IF k = m THEN "removed" ELSE status[k]]
      /\ reaped' = reaped \cup {Key(body[m])}
      /\ UNCHANGED <<late, body, task, people, delivery, stream, sets, settled, told, heard>>
  BY DEF IInv, Reap, Q!Remove, signals
<1>2. /\ status' \in [Q!Messages -> {"unborn", "pending", "done", "dead", "removed"}]
      /\ status'[m] = "removed" /\ \A k \in Q!Messages \ {m} : status'[k] = status[k]
  BY <1>1 DEF TypeOK
<1>3. TypeOK'
  <2> HIDE DEF W
  <2> QED BY <1>1, <1>2, LetGoTypes DEF TypeOK, people
<1>4. Kept
  BY <1>1, <1>2 DEF Kept, people
<1>5. \A v \in Workers : HandShape(v)'
  <2>1. \A v \in Workers \ W : hand[v] # 0 => status'[hand[v]] = "pending"
    BY <1>1, <1>2, Bounds DEF IInv, HandShape, TypeOK
  <2> HIDE DEF W
  <2> QED BY <1>1, <1>3, <1>4, <2>1, HandsLetGo
<1>6. \A v \in Workers : TaskShape(v)'
  BY <1>1, <1>3, <1>4, TaskKept
<1>7. \A k \in Q!Messages : status'[k] = "done" => Finished(k)'
  BY <1>1, <1>2, <1>3, <1>4, DoneKept
<1>8. \A k \in Q!Messages : status'[k] = "removed" => status[k] = "removed" \/ Key(body[k]) \in reaped'
  BY <1>1, <1>2
<1> QED BY <1>1, <1>2, <1>3, <1>4, <1>5, <1>6, <1>7, <1>8, QueueStep

-----------------------------------------------------------------------------
(* The steps that produce.                                                 *)

LEMMA IssuedKept ==
  ASSUME NEW B, Issued(B), UNCHANGED <<told, heard, settled, sets, member, tardy>>,
         \A s \in Sessions : session[s] = "ended" => session'[s] = "ended"
  PROVE  Kept
<1>1. \A m \in Q!Messages : status[m] # "unborn" => status'[m] = status[m] /\ body'[m] = body[m]
  BY DEF Issued
<1> QED BY <1>1 DEF Kept

LEMMA IssuedTable ==
  ASSUME IInv, NEW B \in SUBSET Bodies, Issued(B), UNCHANGED reaped
  PROVE  TableShape'
<1>1. TableShape
  BY DEF IInv
<1>2. \A m \in Q!Messages : Born(m) \/ status[m] # "unborn" \/ status'[m] = "unborn"
  BY DEF Born
<1>3. \A m \in Q!Messages : status[m] # "unborn" => status'[m] = status[m] /\ body'[m] = body[m]
  BY DEF Issued
<1>4. ASSUME NEW m \in Q!Messages, Born(m) PROVE status'[m] = "pending" /\ ~Taken(Key(body'[m]))
  <2>1. PICK b \in B : ~Taken(Key(b)) /\ body'[m] = Stamped(b, m)
    BY <1>4 DEF Issued
  <2>2. Key(body'[m]) = Key(b)
    BY <2>1, StampedKey
  <2> QED BY <1>4, <2>1, <2>2 DEF Issued
<1>5. ASSUME NEW m \in Q!Messages, NEW b \in Q!Messages, Born(m), ~Born(b), InTable(b)',
             Key(body'[m]) = Key(body'[b])
      PROVE  FALSE
  <2>1. status[b] # "unborn"
    BY <1>2, <1>5 DEF InTable
  <2>2. InTable(b) /\ Key(body[b]) = Key(body'[m])
    BY <1>3, <1>5, <2>1 DEF InTable
  <2> QED BY <1>4, <1>5, <2>2 DEF Taken
<1>6. ASSUME NEW m \in Q!Messages, NEW b \in Q!Messages, InTable(m)', InTable(b)',
             Key(body'[m]) = Key(body'[b])
      PROVE  m = b
  <2>1. CASE Born(m) /\ Born(b)
    BY <1>6, <2>1 DEF Issued
  <2>2. CASE ~Born(m) /\ ~Born(b)
    <3>1. status[m] # "unborn" /\ status[b] # "unborn"
      BY <1>2, <1>6, <2>2 DEF InTable
    <3>2. InTable(m) /\ InTable(b) /\ Key(body[m]) = Key(body[b])
      BY <1>3, <1>6, <3>1 DEF InTable
    <3> QED BY <1>1, <3>2 DEF TableShape
  <2> QED BY <1>5, <1>6, <2>1, <2>2
<1>7. ASSUME NEW m \in Q!Messages, status'[m] = "removed" PROVE Key(body'[m]) \in reaped'
  <2>1. status[m] = "removed" /\ body'[m] = body[m]
    BY <1>2, <1>3, <1>4, <1>7
  <2> QED BY <1>1, <2>1 DEF TableShape
<1>8. \E n \in 0 .. Last : \A m \in Q!Messages : status'[m] # "unborn" <=> m <= n
  BY DEF Issued
<1>9. \A m \in Q!Messages : Key(body[m])' = Key(body'[m])
  BY DEF Key
<1> QED BY <1>6, <1>7, <1>8, <1>9 DEF TableShape

LEMMA IssuedStep ==
  ASSUME IInv, TypeOK', Kept, NEW B \in SUBSET Bodies, Issued(B), SessionShape',
         UNCHANGED <<told, heard, sets, reaped>>,
         \A m \in Q!Messages : Born(m) => BodyShape(m)',
         \A w \in Workers : TaskShape(w)', \A s \in Sessions : EndShape(s)'
  PROVE  IInv'
<1>1. TableShape'
  BY IssuedTable
<1>2. TokenShape'
  BY TokensSame
<1>3. ASSUME NEW m \in Q!Messages PROVE BodyShape(m)'
  <2>1. CASE Born(m)
    BY <2>1
  <2>2. CASE status[m] # "unborn"
    BY <2>2, BodyKept
  <2>3. CASE status'[m] = "unborn"
    BY <2>3 DEF BodyShape
  <2> QED BY <2>1, <2>2, <2>3 DEF Born
<1>4. ASSUME NEW m \in Q!Messages, status'[m] = "done" PROVE Finished(m)'
  <2>1. ~Born(m)
    BY <1>4 DEF Issued
  <2>2. status[m] = "done"
    BY <1>4, <2>1 DEF Issued, Born
  <2> QED BY <2>2, DoneKept
<1>5. ASSUME NEW v \in Workers PROVE HandShape(v)'
  <2>1. hand[v] # 0 => hand[v] \in Q!Messages /\ status[hand[v]] = "pending"
    BY Bounds DEF IInv, HandShape, TypeOK
  <2>2. hand[v] # 0 => status'[hand[v]] = "pending"
    BY <2>1 DEF Issued
  <2>3. UNCHANGED <<hand, answer>>
    BY DEF Issued
  <2> QED BY <2>2, <2>3, HandKept
<1> QED BY <1>1, <1>2, <1>3, <1>4, <1>5 DEF IInv

\* A payload that was to be produced has a row, old or new, that is owed or done.
LEMMA HasRow ==
  ASSUME IInv, NEW B \in SUBSET Bodies, Issued(B), NEW b \in B
  PROVE  \E k \in Q!Messages :
           /\ status'[k] \in {"pending", "dead"} \/ (status[k] = "done" /\ body'[k] = body[k])
           /\ body'[k].to = b.to /\ body'[k].session = b.session /\ body'[k].target = b.target
           /\ b.to = "push" => body'[k].jti = b.jti
<1>1. CASE Taken(Key(b))
  <2>1. PICK k \in Q!Messages : InTable(k) /\ Key(body[k]) = Key(b)
    BY <1>1 DEF Taken
  <2>2. body[k] \in Bodies /\ status'[k] = status[k] /\ body'[k] = body[k]
    BY <2>1 DEF IInv, TypeOK, Issued, InTable
  <2>3. /\ body[k].to = b.to /\ body[k].session = b.session /\ body[k].target = b.target
        /\ b.to = "push" => body[k].jti = b.jti
    BY <2>1, <2>2, KeysEqual
  <2> QED BY <2>1, <2>2, <2>3 DEF InTable
<1>2. CASE \E k : Born(k) /\ body'[k] = Stamped(b, k)
  <2>1. PICK k : Born(k) /\ body'[k] = Stamped(b, k)
    BY <1>2
  <2>2. k \in Q!Messages /\ status'[k] = "pending"
    BY <2>1 DEF Born, Issued
  <2>3. /\ body'[k].to = b.to /\ body'[k].session = b.session /\ body'[k].target = b.target
        /\ b.to = "push" => body'[k].jti = b.jti
    BY <2>1, <2>2, StampedFields
  <2> QED BY <2>2, <2>3
<1> QED BY <1>1, <1>2 DEF Issued

LEMMA EndStep ==
  ASSUME IInv, NEW s \in Sessions, End(s)
  PROVE  IInv' /\ Q!Next
<1> DEFINE e == EndedOf(s)
           B == {e}
<1>1. /\ TypeOK /\ TableShape /\ SessionShape /\ session[s] = "live"
      /\ session' = [session EXCEPT ![s] = "ended"] /\ Produce(B)
      /\ UNCHANGED <<task, member, joining, tardy, delivery, stream, sets, settled, heard,
                     told, reaped>>
  BY DEF IInv, End, signals
<1>2. e \in Bodies /\ e.to = "ended" /\ e.session = s /\ e.target = "none"
  BY PayloadTypes, PayloadFields
<1> HIDE DEF e
<1>3. B \in SUBSET Bodies /\ IsFiniteSet(B) /\ \A a, b \in B : Key(a) = Key(b) => a = b
  BY <1>2, FS_Singleton
<1>4. Issued(B) /\ Q!Next
  <2> HIDE DEF B
  <2> QED BY <1>1, <1>3, ProduceEffect
<1>5. /\ session' \in [Sessions -> {"unused", "live", "superseded", "ended"}]
      /\ session'[s] = "ended" /\ \A r \in Sessions \ {s} : session'[r] = session[r]
  BY <1>1 DEF TypeOK
<1>6. TypeOK'
  BY <1>1, <1>4, <1>5 DEF TypeOK, Issued, Statuses
<1>7. Kept
  <2> HIDE DEF B
  <2> QED BY <1>1, <1>4, <1>5, IssuedKept
<1>8. SessionShape'
  BY <1>1, <1>5 DEF SessionShape
<1>9. \A k \in Q!Messages : body'[k] \in Bodies
  BY <1>6 DEF TypeOK
<1>10. ASSUME NEW m \in Q!Messages, Born(m) PROVE IsEnded(m, s)' /\ status'[m] = "pending"
  <2>1. body'[m] = Stamped(e, m) /\ status'[m] = "pending"
    BY <1>4, <1>10 DEF Issued
  <2>2. body'[m].to = "ended" /\ body'[m].session = s /\ body'[m].target = "none" /\ body'[m].jti = m
    BY <1>2, <2>1, StampedFields
  <2>3. body'[m] = [EndedOf(s) EXCEPT !.jti = m]
    BY <1>9, <2>2, StampedIs
  <2> QED BY <2>1, <2>3 DEF IsEnded
<1>11. \A m \in Q!Messages : Born(m) => BodyShape(m)'
  BY <1>5, <1>10 DEF BodyShape
<1>12. EndShape(s)'
  <2>1. ~Taken(Key(e))
    <3> SUFFICES ASSUME Taken(Key(e)) PROVE FALSE
      OBVIOUS
    <3>1. PICK k \in Q!Messages : InTable(k) /\ Key(body[k]) = Key(e)
      BY DEF Taken
    <3>2. body[k] \in Bodies
      BY <1>1 DEF TypeOK
    <3>3. body[k].to = "ended" /\ body[k].session = s
      BY <1>2, <3>1, <3>2, KeysEqual
    <3>4. session[s] = "ended"
      BY <3>1, <3>3, Kinds DEF InTable
    <3> QED BY <1>1, <3>4
  <2>2. \E m : Born(m)
    BY <1>4, <2>1 DEF Issued
  <2>3. \E m \in Q!Messages : Born(m)
    BY <2>2 DEF Born
  <2> QED BY <1>10, <2>3 DEF EndShape
<1>13. \A r \in Sessions : EndShape(r)'
  BY <1>5, <1>6, <1>7, <1>12, EndKept
<1>14. \A w \in Workers : TaskShape(w)'
  BY <1>1, <1>6, <1>7, TaskKept
<1> HIDE DEF B
<1>15. IInv'
  BY <1>1, <1>3, <1>4, <1>6, <1>7, <1>8, <1>11, <1>13, <1>14, IssuedStep
<1> QED BY <1>4, <1>15

\* What the transaction of the explosion leaves behind.
LEMMA ExplosionLeaves ==
  ASSUME IInv, TypeOK', Kept, NEW s \in Sessions, NEW B \in SUBSET Bodies, Issued(B),
         UNCHANGED <<told, settled, member, tardy>>,
         \A c \in Clients : <<s, c>> \in member \ tardy => LogoutOf(s, c) \in B,
         settled = {} \/ TriggerOf(s) \in B
  PROVE  Exploded(s)'
<1>1. ASSUME NEW c \in Clients, <<s, c>> \in member' \ tardy' PROVE Told(s, c)'
  <2> DEFINE b == LogoutOf(s, c)
  <2>1. b \in B
    BY <1>1
  <2>2. b.to = "logout" /\ b.session = s /\ b.target = c
    BY PayloadFields
  <2> HIDE DEF b
  <2>3. PICK k \in Q!Messages :
          /\ status'[k] \in {"pending", "dead"} \/ (status[k] = "done" /\ body'[k] = body[k])
          /\ body'[k].to = b.to /\ body'[k].session = b.session /\ body'[k].target = b.target
    BY <2>1, HasRow
  <2>4. CASE status'[k] \in {"pending", "dead"}
    BY <2>2, <2>3, <2>4, OwedNext DEF Told
  <2>5. CASE status[k] = "done" /\ body'[k] = body[k]
    <3>1. Finished(k) /\ body[k].jti = k
      BY <2>2, <2>3, <2>5, Kinds DEF IInv
    <3>2. <<s, c, k>> \in told
      BY <2>2, <2>3, <2>5, <3>1 DEF Finished
    <3> QED BY <3>2 DEF Told
  <2> QED BY <2>3, <2>4, <2>5
<1>2. ASSUME NEW t \in settled' PROVE (Outstanding(TriggerOf(s)) \/ Signalled(s, t))'
  <2> DEFINE b == TriggerOf(s)
  <2>1. b \in B
    BY <1>2
  <2>2. b.to = "trigger" /\ b.session = s /\ b.target = "none"
    BY PayloadFields
  <2> HIDE DEF b
  <2>3. PICK k \in Q!Messages :
          /\ status'[k] \in {"pending", "dead"} \/ (status[k] = "done" /\ body'[k] = body[k])
          /\ body'[k].to = b.to /\ body'[k].session = b.session /\ body'[k].target = b.target
    BY <2>1, HasRow
  <2>4. CASE status'[k] \in {"pending", "dead"}
    BY <2>2, <2>3, <2>4, OwedNext
  <2>5. CASE status[k] = "done" /\ body'[k] = body[k]
    <3>1. Finished(k)
      BY <2>5 DEF IInv
    <3>2. Signalled(s, t)
      BY <1>2, <2>2, <2>3, <2>5, <3>1 DEF Finished
    <3> QED BY <3>2, SignalledKept
  <2> QED BY <2>3, <2>4, <2>5
<1> QED BY <1>1, <1>2 DEF Exploded

LEMMA EnqueueAllStep ==
  ASSUME IInv, NEW w \in Workers, EnqueueAll(w)
  PROVE  IInv' /\ Q!Next
<1>1. /\ TypeOK /\ TableShape /\ SessionShape /\ task[w].pc = "enqueue"
      /\ Produce(task[w].found)
      /\ UNCHANGED <<people, delivery, stream, sets, settled, heard, told, reaped>>
  BY DEF IInv, EnqueueAll, Enqueued, signals
<1>2. PICK m \in Q!Messages, s \in Sessions :
        /\ m = task[w].msg /\ s = body[m].session /\ status[m] # "unborn"
        /\ body[m].to = Serves[w]
  BY <1>1, TaskRow
<1>3. PICK B : B = task[w].found
  OBVIOUS
<1>4. Gathers(w, s) /\ (settled = {} \/ TriggerOf(s) \in B)
  <2>1. TaskShape(w)
    BY DEF IInv
  <2> QED BY <1>1, <1>2, <1>3, <2>1, TaskParts
<1>5. /\ Serves[w] = "ended" /\ IsFiniteSet(B)
      /\ B \subseteq {LogoutOf(s, c) : c \in Clients} \cup {TriggerOf(s)}
      /\ \A c \in Clients : <<s, c>> \in member \ tardy => LogoutOf(s, c) \in B
  BY <1>3, <1>4 DEF Gathers
<1>6. ASSUME NEW b \in B
      PROVE  /\ b \in Bodies /\ b.session = s /\ b.jti = 0
             /\ \/ b.to = "logout" /\ b.target \in Clients
                \/ b.to = "trigger" /\ b.target = "none"
  <2>1. CASE \E c \in Clients : b = LogoutOf(s, c)
    <3>1. PICK c \in Clients : b = LogoutOf(s, c)
      BY <2>1
    <3>2. b \in Bodies /\ b.session = s /\ b.to = "logout" /\ b.target = c
      <4>1. b \in Bodies
        BY <3>1, PayloadTypes
      <4>2. b.session = s /\ b.to = "logout" /\ b.target = c
        BY <3>1 DEF LogoutOf
      <4> QED BY <4>1, <4>2
    <3>3. b.jti = 0
      BY <3>1 DEF LogoutOf
    <3> QED BY <3>2, <3>3
  <2>2. CASE b = TriggerOf(s)
    <3>1. b \in Bodies /\ b.session = s /\ b.to = "trigger" /\ b.target = "none"
      BY <2>2, PayloadTypes, PayloadFields
    <3>2. b.jti = 0
      BY <2>2 DEF TriggerOf
    <3> QED BY <3>1, <3>2
  <2> QED BY <1>5, <2>1, <2>2
<1>7. B \in SUBSET Bodies
  BY <1>6
<1>8. \A a, b \in B : Key(a) = Key(b) => a = b
  <2> SUFFICES ASSUME NEW a \in B, NEW b \in B, Key(a) = Key(b) PROVE a = b
    OBVIOUS
  <2>1. a \in Bodies /\ b \in Bodies /\ a.session = b.session /\ a.jti = b.jti
    BY <1>6
  <2>2. a.to = b.to /\ a.target = b.target
    BY <2>1, KeysEqual
  <2> QED BY <2>1, <2>2, BodyEqual
<1>9. Issued(B) /\ Q!Next
  BY <1>1, <1>3, <1>5, <1>7, <1>8, ProduceEffect
<1>10. PICK pc \in {"ok", "retry"} : Goto(w, pc)
  BY DEF EnqueueAll
<1>11. /\ task' \in [Workers -> TaskType] /\ \A v \in Workers \ {w} : task'[v] = task[v]
       /\ task'[w].pc = pc /\ task'[w].msg = task[w].msg
  BY <1>1, <1>10, TaskGoto DEF Pcs
<1>12. TypeOK'
  BY <1>1, <1>9, <1>11 DEF TypeOK, Issued, Statuses, people
<1>13. Kept
  BY <1>1, <1>9, IssuedKept DEF people
<1>14. SessionShape'
  BY <1>1 DEF SessionShape, people
<1>15. ASSUME NEW k \in Q!Messages, Born(k) PROVE BodyShape(k)'
  <2>1. PICK b \in B : body'[k] = Stamped(b, k)
    BY <1>9, <1>15 DEF Issued
  <2>2. /\ body'[k] \in Bodies /\ body'[k].to = b.to /\ body'[k].session = s
        /\ body'[k].target = b.target /\ body'[k].jti = k
    BY <1>6, <2>1, StampedFields
  <2>3. CASE b.to = "logout" /\ b.target \in Clients
    <3>1. PICK c \in Clients : c = b.target
      BY <2>3
    <3>2. body'[k] = [LogoutOf(s, c) EXCEPT !.jti = k]
      BY <2>2, <2>3, <3>1, StampedIs
    <3>3. IsLogout(k, s, c)'
      BY <3>2 DEF IsLogout
    <3> QED BY <3>3 DEF BodyShape
  <2>4. CASE b.to = "trigger" /\ b.target = "none"
    <3>1. body'[k] = [TriggerOf(s) EXCEPT !.jti = k]
      BY SMTT(30), <2>2, <2>4, StampedIs
    <3>2. IsTrigger(k, s)'
      BY <3>1 DEF IsTrigger
    <3> QED BY <3>2 DEF BodyShape
  <2> QED BY <1>6, <2>3, <2>4
<1>16. TaskShape(w)'
  <2>1. body'[m] = body[m] /\ status'[m] # "unborn"
    BY <1>2, <1>9 DEF Issued
  <2>2. m = task'[w].msg /\ s = body'[m].session /\ Serving(w, m)'
    BY <1>2, <1>11, <2>1 DEF Serving
  <2>3. Exploded(s)'
    BY <1>1, <1>4, <1>5, <1>7, <1>9, <1>12, <1>13, ExplosionLeaves DEF people
  <2>4. Finished(m)'
    <3>1. body'[m].to = "ended"
      BY <1>2, <1>5, <2>1
    <3>2. Exploded(body[m].session)'
      BY <2>2, <2>3
    <3> QED BY <3>1, <3>2 DEF Finished
  <2> QED BY <1>11, <2>2, <2>4, TaskPartsNext
<1>17. \A v \in Workers : TaskShape(v)'
  BY <1>11, <1>12, <1>13, <1>16, TaskKept
<1>18. \A r \in Sessions : EndShape(r)'
  BY <1>1, <1>12, <1>13, EndKept DEF people
<1>19. IInv'
  BY <1>1, <1>7, <1>9, <1>12, <1>13, <1>14, <1>15, <1>17, <1>18, IssuedStep
<1> QED BY <1>9, <1>19

LEMMA EnqueuePushStep ==
  ASSUME IInv, NEW w \in Workers, EnqueuePush(w)
  PROVE  IInv' /\ Q!Next
<1>1. /\ TypeOK /\ TableShape /\ SessionShape /\ task[w].pc = "each" /\ task[w].found # {}
      /\ Produce({PushOf(Msg(w).session, NextStream(w), Msg(w).jti)})
      /\ StreamDone(w)
      /\ UNCHANGED <<people, delivery, stream, sets, settled, heard, told, reaped>>
  BY DEF IInv, EnqueuePush, signals
<1>2. PICK m \in Q!Messages, s \in Sessions :
        /\ m = task[w].msg /\ s = body[m].session /\ status[m] # "unborn"
        /\ body[m].to = Serves[w] /\ Msg(w) = body[m]
  BY <1>1, TaskRow
<1>3. Signals(w, s)
  <2>1. TaskShape(w)
    BY DEF IInv
  <2> QED BY <1>1, <1>2, <2>1, TaskParts
<1>4. Serves[w] = "trigger" /\ body[m].jti = m /\ Minted(m, s)
  <2>1. Serves[w] = "trigger"
    BY <1>3 DEF Signals
  <2>2. body[m].to = "trigger" /\ body[m].target = "none" /\ body[m].jti = m /\ body[m] \in Bodies
    BY <1>2, <2>1, Kinds
  <2> QED BY <1>2, <2>1, <2>2, StampedIs DEF Minted, IsTrigger
<1>5. PICK t \in Streams : t = NextStream(w)
  BY <1>1, <1>3, StreamDoneIs DEF Signals
<1>6. /\ task' \in [Workers -> TaskType] /\ \A v \in Workers \ {w} : task'[v] = task[v]
      /\ task'[w].pc = "each" /\ task'[w].msg = task[w].msg
      /\ task'[w].found = task[w].found \ {t}
  BY <1>1, <1>3, <1>5, StreamDoneIs DEF Signals
<1> DEFINE p == PushOf(s, t, m)
           B == {p}
<1>7. Produce(B)
  BY <1>1, <1>2, <1>4, <1>5
<1>8. p \in Bodies /\ p.to = "push" /\ p.session = s /\ p.target = t /\ p.jti = m
  BY PayloadTypes, PayloadFields, Bounds
<1>9. \A k \in Q!Messages : Stamped(p, k) = p
  BY <1>8 DEF Stamped
<1> HIDE DEF p
<1>10. B \in SUBSET Bodies /\ IsFiniteSet(B) /\ \A a, b \in B : Key(a) = Key(b) => a = b
  BY <1>8, FS_Singleton
<1>11. p \in B /\ \A b \in B : b = p
  OBVIOUS
<1> HIDE DEF B
<1>12. Issued(B) /\ Q!Next
  BY <1>1, <1>7, <1>10, ProduceEffect
<1>13. TypeOK'
  BY <1>1, <1>6, <1>12 DEF TypeOK, Issued, Statuses, people
<1>14. Kept
  BY <1>1, <1>12, IssuedKept DEF people
<1>15. SessionShape'
  BY <1>1 DEF SessionShape, people
<1>16. Minted(m, s)'
  BY <1>4, <1>14, MintedKept
<1>17. ASSUME NEW k \in Q!Messages, Born(k) PROVE BodyShape(k)'
  <2>1. body'[k] = PushOf(s, t, m)
    BY <1>9, <1>11, <1>12, <1>17 DEF Issued, p
  <2>2. \E x \in Sessions, y \in Streams, z \in Q!Messages :
          (body[k] = PushOf(x, y, z) /\ Minted(z, x))'
    BY <1>16, <2>1
  <2> QED BY <2>2 DEF BodyShape
<1>18. Signalled(s, t)'
  <2>1. PICK k \in Q!Messages :
          /\ status'[k] \in {"pending", "dead"} \/ (status[k] = "done" /\ body'[k] = body[k])
          /\ body'[k].to = p.to /\ body'[k].session = p.session /\ body'[k].target = p.target
          /\ p.to = "push" => body'[k].jti = p.jti
    BY <1>10, <1>11, <1>12, HasRow
  <2>2. CASE status'[k] \in {"pending", "dead"}
    BY <1>8, <1>13, <2>1, <2>2, OwedNext DEF Signalled
  <2>3. CASE status[k] = "done" /\ body'[k] = body[k]
    <3>1. <<s, t, m>> \in heard
      BY <1>8, <2>1, <2>3 DEF IInv, Finished
    <3> QED BY <1>1, <3>1 DEF Signalled
  <2> QED BY <2>1, <2>2, <2>3
<1>19. TaskShape(w)'
  <2>1. body'[m] = body[m] /\ status'[m] # "unborn"
    BY <1>2, <1>12 DEF Issued
  <2>2. m = task'[w].msg /\ s = body'[m].session /\ Serving(w, m)'
    BY <1>2, <1>6, <2>1 DEF Serving
  <2>3. ASSUME NEW x \in settled' \ task'[w].found PROVE Signalled(s, x)'
    <3>1. CASE x = t
      BY <1>18, <3>1
    <3>2. CASE x # t
      <4>1. Signalled(s, x)
        BY <1>1, <1>3, <1>6, <2>3, <3>2 DEF Signals
      <4> QED BY <1>13, <1>14, <2>3, <4>1, SignalledKept
    <3> QED BY <3>1, <3>2
  <2>4. Signals(w, s)'
    BY <1>3, <1>6, <2>3 DEF Signals
  <2> QED BY <1>6, <2>2, <2>4, TaskPartsNext
<1>20. \A v \in Workers : TaskShape(v)'
  BY <1>6, <1>13, <1>14, <1>19, TaskKept
<1>21. \A r \in Sessions : EndShape(r)'
  BY <1>1, <1>13, <1>14, EndKept DEF people
<1>22. IInv'
  BY <1>1, <1>10, <1>12, <1>13, <1>14, <1>15, <1>17, <1>20, <1>21, IssuedStep
<1> QED BY <1>12, <1>22

-----------------------------------------------------------------------------
(* The steps of sessions.                                                  *)

LEMMA PeopleStep ==
  ASSUME IInv, TypeOK', Kept, SessionShape',
         UNCHANGED <<status, hand, answer, body, task, sets, told, heard, reaped>>,
         \A s \in Sessions : session'[s] = "ended" => session[s] = "ended"
  PROVE  IInv'
<1>1. TableShape'
  BY DEF IInv, TableShape, InTable
<1>2. TokenShape'
  BY TokensSame
<1>3. \A m \in Q!Messages : BodyShape(m)'
  BY BodyKept DEF BodyShape
<1>4. \A m \in Q!Messages : status'[m] = "done" => Finished(m)'
  BY DoneKept
<1>5. ASSUME NEW v \in Workers PROVE HandShape(v)'
  <2>1. hand[v] # 0 => status'[hand[v]] = "pending"
    BY DEF IInv, HandShape
  <2> QED BY <2>1, HandKept
<1>6. \A v \in Workers : TaskShape(v)'
  BY TaskKept
<1>7. \A s \in Sessions : EndShape(s)'
  BY EndKept
<1> QED BY <1>1, <1>2, <1>3, <1>4, <1>5, <1>6, <1>7 DEF IInv

LEMMA JoinReadStep ==
  ASSUME IInv, NEW c \in Clients, NEW s \in Sessions, JoinRead(c, s)
  PROVE  IInv'
<1>1. /\ TypeOK /\ SessionShape /\ joining' = [joining EXCEPT ![c] = s]
      /\ UNCHANGED <<status, hand, answer, late, body, task, session, member, tardy, delivery,
                     stream, sets, settled, heard, told, reaped>>
  BY DEF IInv, JoinRead, queue, signals
<1>2. TypeOK'
  BY <1>1 DEF TypeOK
<1>3. Kept
  BY <1>1, KeptQuiet
<1>4. SessionShape'
  BY <1>1 DEF SessionShape
<1> QED BY <1>1, <1>2, <1>3, <1>4, PeopleStep

LEMMA JoinCommitStep ==
  ASSUME IInv, NEW c \in Clients, JoinCommit(c)
  PROVE  IInv'
<1>1. TypeOK /\ SessionShape /\ joining[c] # 0
  BY DEF IInv, JoinCommit
<1>2. PICK s \in Sessions : s = joining[c]
  BY <1>1 DEF TypeOK
<1>3. /\ joining' = [joining EXCEPT ![c] = 0] /\ member' = member \cup {<<s, c>>}
      /\ tardy' = IF session[s] = "live" THEN tardy ELSE tardy \cup {<<s, c>>}
      /\ UNCHANGED <<status, hand, answer, late, body, task, session, delivery, stream, sets,
                     settled, heard, told, reaped>>
  BY <1>2 DEF JoinCommit, queue, signals
<1>4. TypeOK'
  <2>1. joining' \in [Clients -> Sessions \cup {0}] /\ member' \subseteq Sessions \X Clients
    BY <1>1, <1>3 DEF TypeOK
  <2> QED BY <1>1, <1>3, <2>1 DEF TypeOK
<1>5. ASSUME NEW r \in Sessions, NEW d \in Clients, <<r, d>> \in member' \ tardy'
      PROVE  <<r, d>> \in member \ tardy \/ session[r] = "live"
  BY <1>3, <1>5
<1>6. Kept
  BY <1>3, <1>5 DEF Kept
<1>7. SessionShape'
  BY <1>1, <1>3, <1>5 DEF SessionShape
<1> QED BY <1>3, <1>4, <1>6, <1>7, PeopleStep

LEMMA RotateStep ==
  ASSUME IInv, NEW s \in Sessions, Rotate(s)
  PROVE  IInv'
<1>1. /\ TypeOK /\ SessionShape /\ session[s] = "live" /\ s + 1 \in Sessions
      /\ session' = [session EXCEPT ![s] = "superseded", ![s + 1] = "live"]
      /\ member' = Carried(s)
      /\ UNCHANGED <<status, hand, answer, late, body, task, joining, tardy, delivery, stream,
                     sets, settled, heard, told, reaped>>
  BY DEF IInv, Rotate, queue, signals
<1>2. /\ s \in Nat /\ s + 1 # s /\ s + 1 > s
      /\ \A r \in Sessions : r \in Nat
      /\ \A r \in Sessions : r > s => session[r] = "unused"
  BY <1>1, Constants DEF SessionShape
<1>3. /\ session' \in [Sessions -> {"unused", "live", "superseded", "ended"}]
      /\ session'[s] = "superseded" /\ session'[s + 1] = "live"
      /\ \A r \in Sessions \ {s, s + 1} : session'[r] = session[r]
  BY <1>1, <1>2 DEF TypeOK
<1>4. /\ member' \subseteq Sessions \X Clients
      /\ \A r \in Sessions, c \in Clients :
           <<r, c>> \in member' => (r # s /\ <<r, c>> \in member) \/ r = s + 1
  <2>1. ASSUME NEW x \in member'
        PROVE  \E a \in Sessions, d \in Clients :
                 x = <<a, d>> /\ ((a # s /\ x \in member) \/ a = s + 1)
    <3>1. PICK p \in member : x = IF p[1] = s THEN <<s + 1, p[2]>> ELSE p
      BY <1>1, <2>1 DEF Carried
    <3>2. PICK a \in Sessions, d \in Clients : p = <<a, d>>
      BY <1>1, <3>1 DEF TypeOK
    <3> QED BY <1>1, <3>1, <3>2
  <2> QED BY <2>1
<1>5. TypeOK'
  BY <1>1, <1>3, <1>4 DEF TypeOK
<1>6. session[s + 1] = "unused"
  BY <1>1, <1>2
<1>7. Kept
  <2>1. ASSUME NEW r \in Sessions, session[r] = "ended"
        PROVE  /\ session'[r] = "ended"
               /\ \A c \in Clients : <<r, c>> \in member' \ tardy' => <<r, c>> \in member \ tardy
    BY <1>1, <1>3, <1>4, <1>6, <2>1
  <2> QED BY <1>1, <2>1 DEF Kept
<1>8. SessionShape'
  <2>1. ASSUME NEW r \in Sessions, session'[r] = "live", NEW q \in Sessions, q > r
        PROVE  session'[q] = "unused"
    <3>1. r = s + 1
      <4> SUFFICES ASSUME r # s + 1 PROVE FALSE
        OBVIOUS
      <4>1. session[r] = "live" /\ r # s
        BY <1>3, <2>1
      <4>2. r > s \/ s > r
        BY <1>2, <4>1
      <4> QED BY <1>1, <1>2, <4>1, <4>2 DEF SessionShape
    <3>2. q > s /\ q # s + 1 /\ q # s
      BY <1>2, <2>1, <3>1
    <3> QED BY <1>2, <1>3, <3>2
  <2>2. ASSUME NEW r \in Sessions, NEW c \in Clients, <<r, c>> \in member' \ tardy'
        PROVE  session'[r] # "superseded"
    <3>1. CASE r = s + 1
      BY <1>3, <3>1
    <3>2. CASE r # s + 1
      BY <1>1, <1>3, <1>4, <2>2, <3>2 DEF SessionShape
    <3> QED BY <3>1, <3>2
  <2>3. \A t \in settled' : stream'[t] # "disabled"
    BY <1>1 DEF SessionShape
  <2> QED BY <2>1, <2>2, <2>3 DEF SessionShape
<1>9. \A r \in Sessions : session'[r] = "ended" => session[r] = "ended"
  BY <1>3
<1> QED BY <1>1, <1>5, <1>7, <1>8, <1>9, PeopleStep

-----------------------------------------------------------------------------
(* The invariant.                                                          *)

LEMMA InitHolds == Init => IInv
<1> SUFFICES ASSUME Init PROVE IInv
  OBVIOUS
<1>1. /\ status = [m \in Q!Messages |-> "unborn"]
      /\ hand = [w \in Workers |-> 0] /\ answer = [w \in Workers |-> "none"] /\ late = {}
      /\ body = [m \in Q!Messages |-> Nothing] /\ task = [w \in Workers |-> NoTask]
  BY DEF Init, Q!Init
<1>2. /\ session = [s \in Sessions |-> IF s = 1 THEN "live" ELSE "unused"]
      /\ member = {} /\ joining = [c \in Clients |-> 0]
      /\ stream = [t \in Streams |-> "enabled"] /\ sets = [t \in Streams |-> {}]
      /\ told = {} /\ heard = {} /\ tardy = {} /\ settled = Streams
  BY DEF Init
<1>3. TypeOK
  <2>1. Nothing \in Bodies /\ 0 \in 0 .. Last
    BY PayloadTypes, Constants, Bounds
  <2> QED BY <1>1, <1>2, <2>1, NoTaskFacts DEF TypeOK
<1>4. TableShape
  <2>1. \A m \in Q!Messages : status[m] = "unborn" /\ ~(m <= 0)
    BY <1>1, Bounds
  <2>2. 0 \in 0 .. Last
    BY Bounds
  <2> QED BY <2>1, <2>2 DEF TableShape, InTable
<1>5. SessionShape
  <2>1. \A s \in Sessions : session[s] = "live" => \A r \in Sessions : r > s => session[r] = "unused"
    BY <1>2, Constants
  <2> QED BY <1>2, <2>1 DEF SessionShape
<1>6. TokenShape
  BY <1>2 DEF TokenShape
<1>7. \A m \in Q!Messages : BodyShape(m) /\ status[m] # "done"
  BY <1>1 DEF BodyShape
<1>8. \A w \in Workers : HandShape(w) /\ TaskShape(w)
  BY <1>1, NoTaskFacts DEF HandShape, TaskShape
<1>9. \A s \in Sessions : EndShape(s)
  BY <1>2 DEF EndShape
<1> QED BY <1>3, <1>4, <1>5, <1>6, <1>7, <1>8, <1>9 DEF IInv

LEMMA StutterHolds ==
  ASSUME IInv, UNCHANGED vars
  PROVE  IInv'
<1>1. UNCHANGED <<status, hand, answer, late, body, task, session, member, joining, tardy,
                  delivery, stream, sets, settled, heard, told, reaped>>
  BY DEF vars, queue, people, signals
<1>2. TypeOK' /\ SessionShape'
  BY <1>1 DEF IInv, TypeOK, SessionShape
<1>3. Kept
  BY <1>1, KeptQuiet
<1> QED BY <1>1, <1>2, <1>3, PeopleStep

LEMMA StepHolds == IInv /\ [Next]_vars => IInv'
<1> SUFFICES ASSUME IInv, [Next]_vars PROVE IInv'
  OBVIOUS
<1>1. ASSUME NEW c \in Clients, JoinCommit(c) PROVE IInv'
  BY <1>1, JoinCommitStep
<1>2. ASSUME NEW c \in Clients, NEW s \in Sessions, JoinRead(c, s) PROVE IInv'
  BY <1>2, JoinReadStep
<1>3. ASSUME NEW s \in Sessions, Rotate(s) \/ End(s) PROVE IInv'
  BY <1>3, RotateStep, EndStep
<1>4. ASSUME NEW w \in Workers, Handle(w) PROVE IInv'
  BY <1>4, ReadParticipantsStep, CheckStreamsStep, EnqueueAllStep, PostStep, ReadStreamsStep,
     EnqueuePushStep, CountOwedStep, QueueSetStep, AllStreamsDoneStep, PushStep, ReportStep,
     SettleStep DEF Handle
<1>5. ASSUME NEW w \in Workers, Overrun(w) \/ Crash(w) \/ StoreError(w) PROVE IInv'
  BY <1>5, LoseStep, StoreErrorStep
<1>6. ASSUME NEW w \in Workers, NEW m \in Q!Messages, Take(w, m) PROVE IInv'
  BY <1>6, TakeStep
<1>7. ASSUME NEW t \in Streams, NEW set \in sets[t], Acknowledge(t, set) PROVE IInv'
  BY <1>7, AcknowledgeStep
<1>8. ASSUME NEW t \in Streams, NEW st \in {"enabled", "paused", "disabled"}, SetStatus(t, st)
      PROVE  IInv'
  BY <1>8, SetStatusStep
<1>9. ASSUME NEW m \in Q!Messages, Replay(m) \/ Reap(m) PROVE IInv'
  BY <1>9, ReplayStep, ReapStep
<1>10. ASSUME UNCHANGED vars PROVE IInv'
  BY <1>10, StutterHolds
<1> QED BY <1>1, <1>2, <1>3, <1>4, <1>5, <1>6, <1>7, <1>8, <1>9, <1>10 DEF Next

LEMMA Invariance == Spec => []IInv
BY InitHolds, StepHolds, PTL DEF Spec

-----------------------------------------------------------------------------
(* Theorems.                                                               *)

\* The type of the state, kept by every transaction of every handler.
THEOREM TypeCorrect == Spec => []TypeOK
<1>1. IInv => TypeOK
  BY DEF IInv
<1> QED BY <1>1, Invariance, PTL

\* No logout is lost, for any number of sessions, relying parties and workers, whatever
\* crashes, overruns and replays: a relying party that joined in time was told, or the
\* explosion of its session or its delivery is still owed.
THEOREM LogoutKept == Spec => []NoLogoutLost
<1>1. IInv => NoLogoutLost
  <2> SUFFICES ASSUME IInv, NEW s \in Sessions, NEW c \in Clients, <<s, c>> \in member \ tardy
               PROVE  /\ session[s] # "superseded"
                      /\ session[s] = "ended" =>
                           \/ \E m \in Q!Messages : status[m] = "pending" /\ IsEnded(m, s)
                           \/ Outstanding(LogoutOf(s, c))
                           \/ \E m \in Q!Messages : <<s, c, m>> \in told
    BY DEF NoLogoutLost, IsEnded
  <2>1. session[s] # "superseded" /\ EndShape(s)
    BY DEF IInv, SessionShape
  <2>2. Exploded(s) => Told(s, c)
    BY DEF Exploded
  <2> QED BY <2>1, <2>2 DEF EndShape, Told
<1> QED BY <1>1, Invariance, PTL

\* Two rows of one logout, or two triggers of one session, are one row unless
\* retention removed one.
LEMMA RowsOnce ==
  ASSUME IInv, NEW k \in Bodies, k.to # "push", k.jti = 0,
         NEW m \in Q!Messages, NEW j \in Q!Messages,
         status[m] # "unborn", body[m].to = k.to, body[m].session = k.session,
         body[m].target = k.target,
         status[j] # "unborn", body[j].to = k.to, body[j].session = k.session,
         body[j].target = k.target
  PROVE  m = j \/ k \in reaped
<1>1. TableShape /\ body[m] \in Bodies /\ body[j] \in Bodies
  BY DEF IInv, TypeOK
<1>2. Key(body[m]) = Key(k) /\ Key(body[j]) = Key(k)
  BY <1>1, KeysEqual
<1>3. Key(k) = k
  <2>1. Key(k) \in Bodies /\ Key(k).to = k.to /\ Key(k).session = k.session
        /\ Key(k).target = k.target /\ Key(k).jti = 0
    BY KeyFields
  <2>2. PICK a \in Bodies : a = Key(k)
    BY <2>1
  <2> QED BY <2>1, <2>2, BodyEqual
<1>4. \A b \in Q!Messages : status[b] # "unborn" => InTable(b) \/ status[b] = "removed"
  BY DEF IInv, TypeOK, InTable
<1> QED BY <1>1, <1>2, <1>3, <1>4 DEF TableShape

\* The token of a delivery is one token, for any number of retries, explosions and
\* late handlers: only retention of the row that carried it frees its key.
THEOREM SingleToken == Spec => []OneToken
<1>1. ASSUME IInv, NEW x \in told, NEW y \in told, x[1] = y[1], x[2] = y[2]
      PROVE  x = y \/ LogoutOf(x[1], x[2]) \in reaped
  <2>1. TokenShape
    BY <1>1 DEF IInv
  <2>2. PICK s \in Sessions, c \in Clients, m \in Q!Messages :
          x = <<s, c, m>> /\ status[m] # "unborn" /\ IsLogout(m, s, c)
    BY <1>1, <2>1 DEF TokenShape
  <2>3. PICK j \in Q!Messages : y = <<s, c, j>> /\ status[j] # "unborn" /\ IsLogout(j, s, c)
    <3>1. PICK a \in Sessions, b \in Clients, j \in Q!Messages :
            y = <<a, b, j>> /\ status[j] # "unborn" /\ IsLogout(j, a, b)
      BY <1>1, <2>1 DEF TokenShape
    <3>2. a = s /\ b = c
      BY <1>1, <2>2, <3>1
    <3> QED BY <3>1, <3>2
  <2> DEFINE k == LogoutOf(s, c)
  <2>4. k \in Bodies /\ k.to = "logout" /\ k.session = s /\ k.target = c /\ k.jti = 0
    <3>1. k \in Bodies
      BY PayloadTypes
    <3> QED BY <3>1 DEF LogoutOf
  <2>5. /\ body[m].to = "logout" /\ body[m].session = s /\ body[m].target = c
        /\ body[j].to = "logout" /\ body[j].session = s /\ body[j].target = c
    BY <2>2, <2>3 DEF IsLogout, LogoutOf
  <2> HIDE DEF k
  <2>6. m = j \/ k \in reaped
    BY <1>1, <2>2, <2>3, <2>4, <2>5, RowsOnce
  <2>7. k = LogoutOf(x[1], x[2])
    BY <2>2 DEF k
  <2> QED BY <2>2, <2>3, <2>6, <2>7
<1>2. ASSUME IInv, NEW x \in heard, NEW y \in heard, x[1] = y[1], x[2] = y[2]
      PROVE  x = y \/ TriggerOf(x[1]) \in reaped
  <2>1. TokenShape
    BY <1>2 DEF IInv
  <2>2. PICK s \in Sessions, t \in Streams, m \in Q!Messages : x = <<s, t, m>> /\ Minted(m, s)
    BY <1>2, <2>1 DEF TokenShape
  <2>3. PICK j \in Q!Messages : y = <<s, t, j>> /\ Minted(j, s)
    <3>1. PICK a \in Sessions, b \in Streams, j \in Q!Messages : y = <<a, b, j>> /\ Minted(j, a)
      BY <1>2, <2>1 DEF TokenShape
    <3>2. a = s /\ b = t
      BY <1>2, <2>2, <3>1
    <3> QED BY <3>1, <3>2
  <2> DEFINE k == TriggerOf(s)
  <2>4. k \in Bodies /\ k.to = "trigger" /\ k.session = s /\ k.target = "none" /\ k.jti = 0
    <3>1. k \in Bodies
      BY PayloadTypes
    <3> QED BY <3>1 DEF TriggerOf
  <2>5. /\ status[m] # "unborn" /\ status[j] # "unborn"
        /\ body[m].to = "trigger" /\ body[m].session = s /\ body[m].target = "none"
        /\ body[j].to = "trigger" /\ body[j].session = s /\ body[j].target = "none"
    BY <2>2, <2>3 DEF Minted, IsTrigger, TriggerOf
  <2> HIDE DEF k
  <2>6. m = j \/ k \in reaped
    BY <1>2, <2>4, <2>5, RowsOnce
  <2>7. k = TriggerOf(x[1])
    BY <2>2 DEF k
  <2> QED BY <2>2, <2>3, <2>6, <2>7
<1>3. IInv => OneToken
  BY <1>1, <1>2 DEF OneToken
<1> QED BY <1>3, Invariance, PTL

\* No signal is lost: a stream that was never disabled and never over its ceiling took
\* the token of every ended session, owes it, or has a message outstanding that leads
\* to it.
THEOREM SignalKept == Spec => []NoSignalLost
<1>1. IInv => NoSignalLost
  <2> SUFFICES ASSUME IInv, NEW s \in Sessions, NEW t \in settled, session[s] = "ended"
               PROVE  \/ \E m \in Q!Messages : status[m] = "pending" /\ IsEnded(m, s)
                      \/ Outstanding(TriggerOf(s)) \/ Outstanding(PushOf(s, t, 0))
                      \/ \E m \in Q!Messages : <<s, m>> \in sets[t] \/ <<s, t, m>> \in heard
    BY DEF NoSignalLost, IsEnded
  <2>1. EndShape(s)
    BY DEF IInv
  <2>2. Exploded(s) => Outstanding(TriggerOf(s)) \/ Signalled(s, t)
    BY DEF Exploded
  <2> QED BY <2>1, <2>2 DEF EndShape, Signalled
<1> QED BY <1>1, Invariance, PTL

-----------------------------------------------------------------------------
(* The ceiling.                                                            *)

\* What is owed and who is about to add to it are finite sets.
LEMMA OwedFinite ==
  ASSUME IsFiniteSet(Workers), TypeOK, NEW t \in Streams
  PROVE  /\ IsFiniteSet(sets[t]) /\ Cardinality(sets[t]) \in Nat
         /\ IsFiniteSet(Inserting(t)) /\ Cardinality(Inserting(t)) \in Nat
         /\ IsFiniteSet(TriggerWorkers) /\ Cardinality(TriggerWorkers) \in Nat
<1>1. IsFiniteSet(Sessions \X (1 .. Last))
  <2>1. IsFiniteSet(1 .. Last) /\ IsFiniteSet(Sessions)
    BY Bounds, FanoutAssumption, FS_Interval
  <2> QED BY <2>1, FS_Product
<1>2. sets[t] \subseteq Sessions \X (1 .. Last)
  BY DEF TypeOK
<1>3. Inserting(t) \subseteq Workers /\ TriggerWorkers \subseteq Workers
  BY DEF Inserting, TriggerWorkers
<1> QED BY <1>1, <1>2, <1>3, FS_Subset, FS_CardinalityType

\* Less is near, too.
LEMMA NearLess ==
  ASSUME NEW a \in Nat, NEW b \in Nat, a <= b, NearCeiling(b), Cardinality(TriggerWorkers) \in Nat
  PROVE  NearCeiling(a)
BY Bounds DEF NearCeiling

\* A step that adds nothing to what is owed, and after which nobody else has counted.
LEMMA CeilingFrame ==
  ASSUME IsFiniteSet(Workers), TypeOK, TypeOK', CeilingShape,
         \A w \in Workers : task'[w] = task[w] \/ task'[w].pc # "insert",
         \A t \in Streams : sets'[t] \subseteq sets[t]
  PROVE  CeilingShape'
<1> SUFFICES ASSUME NEW t \in Streams
             PROVE  NearCeiling(Cardinality(sets'[t]) + Cardinality(Inserting(t)'))
  BY DEF CeilingShape, NearCeiling, TriggerWorkers
<1>1. Inserting(t)' \subseteq Inserting(t)
  BY DEF Inserting, TriggerWorkers, NextStream
<1>2. /\ Cardinality(sets'[t]) \in Nat /\ Cardinality(sets'[t]) <= Cardinality(sets[t])
      /\ Cardinality(Inserting(t)') \in Nat
      /\ Cardinality(Inserting(t)') <= Cardinality(Inserting(t))
  BY <1>1, OwedFinite, FS_Subset, FS_CardinalityType
<1>3. NearCeiling(Cardinality(sets[t]) + Cardinality(Inserting(t)))
  BY DEF CeilingShape
<1>4. /\ Cardinality(sets'[t]) + Cardinality(Inserting(t)')
           <= Cardinality(sets[t]) + Cardinality(Inserting(t))
      /\ Cardinality(sets'[t]) + Cardinality(Inserting(t)') \in Nat
      /\ Cardinality(sets[t]) + Cardinality(Inserting(t)) \in Nat
  BY <1>2, OwedFinite
<1> QED BY <1>3, <1>4, OwedFinite, NearLess

\* A worker that counts finds room below the ceiling, and the others that are about to
\* insert are other workers.
LEMMA CeilingCount ==
  ASSUME IsFiniteSet(Workers), IInv, TypeOK', CeilingShape, NEW w \in Workers, CountOwed(w)
  PROVE  CeilingShape'
<1>1. TypeOK /\ sets' = sets
  BY DEF IInv, CountOwed, signals
<1>2. /\ \A v \in Workers \ {w} : task'[v] = task[v]
      /\ task'[w].found = task[w].found
      /\ task'[w].room = (Cardinality(sets[NextStream(w)]) < Ceiling)
  BY <1>1 DEF CountOwed, TypeOK, TaskType
<1> SUFFICES ASSUME NEW t \in Streams
             PROVE  NearCeiling(Cardinality(sets[t]) + Cardinality(Inserting(t)'))
  BY <1>1 DEF CeilingShape, NearCeiling, TriggerWorkers
<1>3. NextStream(w)' = NextStream(w)
  BY <1>2 DEF NextStream
<1>4. IsFiniteSet(Inserting(t)') /\ Cardinality(Inserting(t)') \in Nat
      /\ Cardinality(Inserting(t)') <= Cardinality(TriggerWorkers)
  <2>1. Inserting(t)' \subseteq TriggerWorkers
    BY DEF Inserting, TriggerWorkers
  <2> QED BY <1>1, <2>1, OwedFinite, FS_Subset, FS_CardinalityType
<1>5. CASE w \in Inserting(t)'
  <2>1. Cardinality(sets[t]) < Ceiling
    BY <1>2, <1>3, <1>5 DEF Inserting
  <2> QED BY <1>1, <1>4, <2>1, OwedFinite, Bounds DEF NearCeiling
<1>6. CASE w \notin Inserting(t)'
  <2>1. Inserting(t)' \subseteq Inserting(t)
    BY <1>2, <1>6 DEF Inserting, TriggerWorkers, NextStream
  <2>2. Cardinality(Inserting(t)') <= Cardinality(Inserting(t))
    BY <1>1, <2>1, OwedFinite, FS_Subset
  <2>3. NearCeiling(Cardinality(sets[t]) + Cardinality(Inserting(t)))
    BY DEF CeilingShape
  <2>4. /\ Cardinality(sets[t]) + Cardinality(Inserting(t)')
             <= Cardinality(sets[t]) + Cardinality(Inserting(t))
        /\ Cardinality(sets[t]) + Cardinality(Inserting(t)') \in Nat
        /\ Cardinality(sets[t]) + Cardinality(Inserting(t)) \in Nat
    BY <1>1, <1>4, <2>2, OwedFinite
  <2> QED BY <1>1, <2>3, <2>4, OwedFinite, NearLess
<1> QED BY <1>5, <1>6

\* The one that inserts had its place counted.
LEMMA CeilingInsert ==
  ASSUME IsFiniteSet(Workers), IInv, TypeOK', CeilingShape, NEW w \in Workers, QueueSet(w)
  PROVE  CeilingShape'
<1> DEFINE u == NextStream(w)
           x == <<Msg(w).session, Msg(w).jti>>
<1>1. /\ TypeOK /\ task[w].pc = "insert" /\ w \in TriggerWorkers
      /\ task[w].found # {} /\ task[w].found \subseteq Streams
  BY DEF IInv, QueueSet, TaskShape, TriggerWorkers
<1>2. u \in task[w].found
  BY <1>1 DEF NextStream
<1>3. (\A v \in Workers \ {w} : task'[v] = task[v]) /\ task'[w].pc = "each"
  BY <1>1 DEF QueueSet, StreamDone, TypeOK, TaskType
<1>4. CASE ~task[w].room
  <2>1. sets' = sets
    BY <1>4 DEF QueueSet
  <2>2. \A v \in Workers : task'[v] = task[v] \/ task'[v].pc # "insert"
    BY <1>3
  <2> QED BY <1>1, <2>1, <2>2, CeilingFrame
<1>5. CASE task[w].room
  <2>1. sets' = [sets EXCEPT ![u] = @ \cup {x}]
    BY <1>5 DEF QueueSet
  <2>2. /\ sets'[u] = sets[u] \cup {x} /\ u \in Streams
        /\ \A t \in Streams \ {u} : sets'[t] = sets[t]
    BY <1>1, <1>2, <2>1 DEF TypeOK
  <2>3. w \in Inserting(u)
    BY <1>1, <1>5 DEF Inserting
  <2> HIDE DEF u, x
  <2>4. \A t \in Streams : Inserting(t)' \subseteq Inserting(t) \ {w}
    BY <1>3 DEF Inserting, TriggerWorkers, NextStream
  <2> SUFFICES ASSUME NEW t \in Streams
               PROVE  NearCeiling(Cardinality(sets'[t]) + Cardinality(Inserting(t)'))
    BY DEF CeilingShape, NearCeiling, TriggerWorkers
  <2>5. NearCeiling(Cardinality(sets[t]) + Cardinality(Inserting(t)))
    BY DEF CeilingShape
  <2>6. /\ Cardinality(sets[t]) \in Nat /\ Cardinality(Inserting(t)) \in Nat
        /\ IsFiniteSet(sets[t]) /\ IsFiniteSet(Inserting(t)) /\ IsFiniteSet(Inserting(t) \ {w})
    BY <1>1, OwedFinite, FS_Subset
  <2>7. /\ Cardinality(Inserting(t)') \in Nat /\ Cardinality(Inserting(t) \ {w}) \in Nat
        /\ Cardinality(Inserting(t)') <= Cardinality(Inserting(t) \ {w})
        /\ Cardinality(Inserting(t) \ {w}) <= Cardinality(Inserting(t))
    BY <2>4, <2>6, FS_Subset, FS_CardinalityType
  <2>8. CASE t = u
    <3>1. Cardinality(Inserting(t) \ {w}) = Cardinality(Inserting(t)) - 1
      BY <2>3, <2>6, <2>8, FS_RemoveElement
    <3>2. Cardinality(sets'[t]) \in Nat /\ Cardinality(sets'[t]) <= Cardinality(sets[t]) + 1
      <4>1. Cardinality(sets[t] \cup {x}) = Cardinality(sets[t])
            \/ Cardinality(sets[t] \cup {x}) = Cardinality(sets[t]) + 1
        BY <2>6, FS_AddElement
      <4>2. sets'[t] = sets[t] \cup {x}
        BY <2>2, <2>8
      <4> QED BY <2>6, <4>1, <4>2
    <3>3. /\ Cardinality(sets'[t]) + Cardinality(Inserting(t)')
               <= Cardinality(sets[t]) + Cardinality(Inserting(t))
          /\ Cardinality(sets'[t]) + Cardinality(Inserting(t)') \in Nat
          /\ Cardinality(sets[t]) + Cardinality(Inserting(t)) \in Nat
      BY <2>6, <2>7, <3>1, <3>2
    <3> QED BY <1>1, <2>5, <3>3, OwedFinite, NearLess
  <2>9. CASE t # u
    <3>1. sets'[t] = sets[t]
      BY <2>2, <2>9
    <3>2. /\ Cardinality(sets'[t]) + Cardinality(Inserting(t)')
               <= Cardinality(sets[t]) + Cardinality(Inserting(t))
          /\ Cardinality(sets'[t]) + Cardinality(Inserting(t)') \in Nat
          /\ Cardinality(sets[t]) + Cardinality(Inserting(t)) \in Nat
      BY <2>6, <2>7, <3>1
    <3> QED BY <1>1, <2>5, <3>2, OwedFinite, NearLess
  <2> QED BY <2>8, <2>9
<1> QED BY <1>4, <1>5

LEMMA CeilingStep ==
  ASSUME IsFiniteSet(Workers), IInv, TypeOK', CeilingShape, [Next]_vars
  PROVE  CeilingShape'
<1>0. TypeOK /\ task \in [Workers -> TaskType] /\ sets \in [Streams -> SUBSET (Sessions \X (1 .. Last))]
  BY DEF IInv, TypeOK
<1>1. ASSUME UNCHANGED <<task, sets>> PROVE CeilingShape'
  BY <1>0, <1>1, CeilingFrame
<1>2. ASSUME NEW w \in Workers, sets' = sets, NEW r, r.pc # "insert", task' = [task EXCEPT ![w] = r]
      PROVE  CeilingShape'
  <2>1. \A v \in Workers : task'[v] = task[v] \/ task'[v].pc # "insert"
    BY <1>0, <1>2
  <2> QED BY <1>0, <1>2, <2>1, CeilingFrame
<1>3. ASSUME NEW w \in Workers, sets' = sets,
             NEW pc \in {"start", "streams", "enqueue", "each", "ok", "retry", "permanent"},
             \/ Goto(w, pc)
             \/ \E f : task' = [task EXCEPT ![w].found = f, ![w].pc = pc]
             \/ \E f : task' = [task EXCEPT ![w].pc = pc, ![w].found = f]
      PROVE  CeilingShape'
  <2>1. \A v \in Workers : task'[v] = task[v] \/ task'[v].pc # "insert"
    BY <1>0, <1>3 DEF Goto, TaskType
  <2> QED BY <1>0, <1>3, <2>1, CeilingFrame
<1>4. ASSUME NEW c \in Clients, JoinCommit(c) \/ \E s \in Sessions : JoinRead(c, s) PROVE CeilingShape'
  BY <1>1, <1>4 DEF JoinCommit, JoinRead, signals
<1>5. ASSUME NEW s \in Sessions, Rotate(s) \/ End(s) PROVE CeilingShape'
  BY <1>1, <1>5 DEF Rotate, End, signals
<1>6. ASSUME NEW m \in Q!Messages, Replay(m) \/ Reap(m) PROVE CeilingShape'
  BY <1>1, <1>6 DEF Replay, Reap, signals
<1>7. ASSUME NEW t \in Streams,
             \/ \E set \in sets[t] : Acknowledge(t, set)
             \/ \E st \in {"enabled", "paused", "disabled"} : SetStatus(t, st)
      PROVE  CeilingShape'
  <2>1. task' = task /\ \A v \in Streams : sets'[v] \subseteq sets[v]
    BY <1>0, <1>7 DEF Acknowledge, SetStatus
  <2> QED BY <1>0, <2>1, CeilingFrame
<1>8. ASSUME NEW w \in Workers, Overrun(w) \/ Settle(w) PROVE CeilingShape'
  BY <1>1, <1>8 DEF Overrun, Settle, signals
<1>9. ASSUME NEW w \in Workers, Crash(w) \/ Report(w) PROVE CeilingShape'
  BY <1>2, <1>9 DEF Crash, Report, signals, NoTask
<1>10. ASSUME NEW w \in Workers, NEW m \in Q!Messages, Take(w, m) PROVE CeilingShape'
  BY <1>2, <1>10 DEF Take, signals, NoTask
<1>11. ASSUME NEW w \in Workers, StoreError(w) PROVE CeilingShape'
  BY <1>3, <1>11 DEF StoreError, signals
<1>12. ASSUME NEW w \in Workers, Handle(w) PROVE CeilingShape'
  <2>1. CASE ReadParticipants(w) \/ CheckStreams(w) \/ ReadStreams(w)
    BY <1>3, <2>1 DEF ReadParticipants, CheckStreams, ReadStreams, signals
  <2>2. CASE EnqueueAll(w) \/ Post(w) \/ AllStreamsDone(w)
    BY <1>3, <2>2 DEF EnqueueAll, Post, AllStreamsDone, signals
  <2>3. CASE EnqueuePush(w)
    BY <1>3, <2>3 DEF EnqueuePush, StreamDone, signals
  <2>4. CASE Push(w)
    <3>1. sets' = sets
      BY <2>4 DEF Push
    <3>2. \E pc \in {"ok", "retry", "permanent"} : Goto(w, pc)
      BY <2>4 DEF Push
    <3> QED BY <1>3, <3>1, <3>2
  <2> QED BY <1>8, <1>9, <1>12, <2>1, <2>2, <2>3, <2>4, CeilingCount, CeilingInsert DEF Handle
<1>13. CASE UNCHANGED vars
  BY <1>1, <1>13 DEF vars, signals
<1> QED BY <1>4, <1>5, <1>6, <1>7, <1>8, <1>9, <1>10, <1>11, <1>12, <1>13 DEF Next

\* However many workers drain the triggers, and whatever crashes, overruns and replays,
\* a stream owes at most its ceiling and one token more for each further of them: the
\* count of SsfStreamSetRepo::queue and its INSERT are one statement, but not one instant.
THEOREM CeilingOvershoot ==
  ASSUME IsFiniteSet(Workers)
  PROVE  Spec => []OwedNearCeiling
<1>1. Init => CeilingShape
  <2> SUFFICES ASSUME Init, NEW t \in Streams
               PROVE  NearCeiling(Cardinality(sets[t]) + Cardinality(Inserting(t)))
    BY DEF CeilingShape
  <2>1. sets[t] = {} /\ Inserting(t) = {}
    BY DEF Init, Inserting, TriggerWorkers, NoTask
  <2> QED BY <2>1, FS_EmptySet, Bounds DEF NearCeiling
<1>2. IInv /\ CeilingShape => OwedNearCeiling
  <2> SUFFICES ASSUME IInv, CeilingShape, NEW t \in Streams PROVE NearCeiling(Cardinality(sets[t]))
    BY DEF OwedNearCeiling
  <2>1. NearCeiling(Cardinality(sets[t]) + Cardinality(Inserting(t)))
    BY DEF CeilingShape
  <2> QED BY <2>1, OwedFinite, Bounds DEF NearCeiling, IInv
<1>3. IInv /\ IInv' /\ CeilingShape /\ [Next]_vars => CeilingShape'
  BY CeilingStep DEF IInv
<1> QED BY <1>1, <1>2, <1>3, Invariance, PTL DEF Spec

\* With one worker for the triggers the ceiling is kept: the second worker is the only
\* cause of the overshoot.
THEOREM CeilingAlone ==
  ASSUME IsFiniteSet(Workers), Cardinality(TriggerWorkers) <= 1
  PROVE  Spec => []OwedWithinCeiling
<1>1. IInv /\ OwedNearCeiling => OwedWithinCeiling
  <2> SUFFICES ASSUME IInv, OwedNearCeiling, NEW t \in Streams PROVE Cardinality(sets[t]) <= Ceiling
    BY DEF OwedWithinCeiling
  <2>1. NearCeiling(Cardinality(sets[t]))
    BY DEF OwedNearCeiling
  <2> QED BY <2>1, OwedFinite, Bounds DEF NearCeiling, IInv
<1> QED BY <1>1, CeilingOvershoot, Invariance, PTL

-----------------------------------------------------------------------------
(* The fan-out and the queue below it.                                     *)

\* A step that leaves the queue alone is the loss of nothing.
LEMMA QueueAsked ==
  ASSUME IInv, [Next]_vars
  PROVE  Q!Next
<1>1. ASSUME UNCHANGED queue PROVE Q!Next
  <2>1. hand = [w \in Workers |-> hand[w]] /\ answer = [w \in Workers |-> answer[w]]
    BY DEF IInv, TypeOK
  <2>2. Q!Lose({}) /\ {} \in SUBSET Workers
    BY <1>1, <2>1 DEF queue, Q!Lose, Q!LetGo
  <2> QED BY <2>2 DEF Q!Next
<1>2. ASSUME NEW c \in Clients, JoinCommit(c) \/ \E s \in Sessions : JoinRead(c, s)
      PROVE  UNCHANGED queue
  BY <1>2 DEF JoinCommit, JoinRead
<1>3. ASSUME NEW s \in Sessions, Rotate(s) \/ End(s) PROVE Q!Next \/ UNCHANGED queue
  BY <1>3, EndStep DEF Rotate
<1>4. ASSUME NEW w \in Workers, NEW m \in Q!Messages, Take(w, m) PROVE Q!Next
  BY <1>4 DEF Take, Q!Next
<1>5. ASSUME NEW w \in Workers, Overrun(w) \/ Crash(w) \/ StoreError(w)
      PROVE  Q!Next \/ UNCHANGED queue
  <2>1. CASE Overrun(w) \/ Crash(w)
    <3>1. Q!Lose({w}) /\ {w} \in SUBSET Workers
      BY <2>1 DEF Overrun, Crash
    <3> QED BY <3>1 DEF Q!Next
  <2> QED BY <1>5, <2>1 DEF StoreError
<1>6. ASSUME NEW w \in Workers, Report(w) PROVE Q!Next \/ UNCHANGED queue
  <2>1. CASE Q!Answer(w, task[w].pc)
    <3>1. task[w].pc \in {"ok", "retry", "permanent"}
      BY <1>6 DEF Report
    <3> QED BY <2>1, <3>1 DEF Q!Next
  <2> QED BY <1>6, <2>1 DEF Report
<1>7. ASSUME NEW w \in Workers, Settle(w) PROVE Q!Next
  BY <1>7 DEF Settle, Q!Next
<1>8. ASSUME NEW w \in Workers, Handle(w) PROVE Q!Next \/ UNCHANGED queue
  <2>1. CASE \/ ReadParticipants(w) \/ CheckStreams(w) \/ Post(w) \/ ReadStreams(w)
             \/ CountOwed(w) \/ QueueSet(w) \/ AllStreamsDone(w) \/ Push(w)
    BY <2>1 DEF ReadParticipants, CheckStreams, Post, ReadStreams, CountOwed, QueueSet,
                AllStreamsDone, Push
  <2> QED BY <1>6, <1>7, <1>8, <2>1, EnqueueAllStep, EnqueuePushStep DEF Handle
<1>9. ASSUME NEW t \in Streams,
             \/ \E set \in sets[t] : Acknowledge(t, set)
             \/ \E st \in {"enabled", "paused", "disabled"} : SetStatus(t, st)
      PROVE  UNCHANGED queue
  BY <1>9 DEF Acknowledge, SetStatus
<1>10. ASSUME NEW m \in Q!Messages, Replay(m) \/ Reap(m) PROVE Q!Next
  <2>1. (Q!Replay({m}) \/ Q!Remove({m})) /\ {m} \in SUBSET Q!Messages
    BY <1>10 DEF Replay, Reap
  <2> QED BY <2>1 DEF Q!Next
<1>11. CASE UNCHANGED vars
  BY <1>1, <1>11 DEF vars
<1> QED BY <1>1, <1>2, <1>3, <1>4, <1>5, <1>8, <1>9, <1>10, <1>11 DEF Next

\* The fan-out asks of its queue only what DeliveryQueue gives: every step of a session,
\* a handler, a receiver or the operator is a step of that queue or leaves it alone, and
\* a transaction of several rows is one of its producers.  Outbox implements the same
\* queue (OutboxProofs, ImplementsQueue).
THEOREM FollowsQueue == Spec => Q!Spec
<1>1. Init => Q!Init
  BY DEF Init
<1>2. IInv /\ [Next]_vars => Q!Next
  BY QueueAsked
<1>3. Spec => Q!Init /\ [][Q!Next]_Q!vars
  BY <1>1, <1>2, Invariance, PTL DEF Spec
<1> QED BY <1>3 DEF Q!Spec

=============================================================================
