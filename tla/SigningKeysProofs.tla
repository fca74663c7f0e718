------------------------- MODULE SigningKeysProofs -------------------------
(* Proofs about SigningKeys, for every value of its constants.             *)
EXTENDS SigningKeys, FiniteSetTheorems, WellFoundedInduction, TLAPS

LEMMA Times ==
  /\ Cadence \in Nat /\ Lead \in Nat /\ Lifetime \in Nat /\ Buffer \in Nat
  /\ EntryTtl \in Nat /\ 1 <= EntryTtl /\ CacheTtl \in Nat /\ 1 <= CacheTtl
  /\ AdminScale \in Nat /\ 1 <= AdminScale /\ MaxStall \in Nat /\ MaxKeys \in Nat /\ 1 <= MaxKeys
  /\ Lead >= CacheTtl + EntryTtl + MaxStall
  /\ Buffer >= EntryTtl + MaxStall
  /\ Lifetime + Buffer >= EntryTtl + MaxStall + MaxStall
BY TimesAssumption, PolicyAssumption

LEMMA KeyFacts == /\ 1 \in Keys /\ 0 \notin Keys
                  /\ \A k \in Keys : k \in Nat /\ 1 <= k /\ k <= MaxKeys
BY Times DEF Keys

LEMMA Never == NEVER \in Int /\ NEVER < 0 /\ NEVER \notin Nat
BY DEF NEVER

LEMMA LaterFacts ==
  ASSUME NEW a \in Nat, NEW b \in Nat
  PROVE  Later(a, b) \in Nat /\ a <= Later(a, b) /\ b <= Later(a, b)
         /\ (Later(a, b) = a \/ Later(a, b) = b)
BY DEF Later

\* The management surface's reading is no earlier than the instant it stands for.
LEMMA ScaleFacts ==
  ASSUME NEW t \in Nat
  PROVE  t * AdminScale \in Nat /\ t <= t * AdminScale
<1>1. AdminScale \in Nat /\ 1 <= AdminScale
  BY Times
<1>2. t * AdminScale = t + t * (AdminScale - 1)
  BY <1>1
<1>3. t * (AdminScale - 1) >= 0
  BY <1>1
<1> QED BY <1>1, <1>2, <1>3

LEMMA RowFacts ==
  ASSUME NEW row \in RowType
  PROVE  /\ row.st \in {"absent", "stored"}
         /\ row.publish \in Nat /\ row.activate \in Nat
         /\ row.retire \in Int /\ row.expire \in Int
         /\ row.retire # NEVER => row.retire \in Nat
         /\ row.expire # NEVER => row.expire \in Nat
BY Never DEF RowType, Instants

LEMMA NoKeyFacts ==
  /\ NoKey \in RowType
  /\ NoKey.st = "absent" /\ NoKey.publish = 0 /\ NoKey.activate = 0
  /\ NoKey.retire = NEVER /\ NoKey.expire = NEVER
BY DEF NoKey, RowType, Instants

LEMMA NewKeyFacts ==
  ASSUME NEW p \in Nat, NEW a \in Nat
  PROVE  /\ NewKey(p, a) \in RowType
         /\ NewKey(p, a).st = "stored" /\ NewKey(p, a).publish = p
         /\ NewKey(p, a).activate = a
         /\ NewKey(p, a).retire = NEVER /\ NewKey(p, a).expire = NEVER
BY DEF NewKey, NoKey, RowType, Instants

LEMMA JobFacts ==
  ASSUME NEW r \in JobType
  PROVE  /\ r.pc \in {"idle", "seed", "promote", "breakSeed", "breakWithdraw"}
         /\ r.read \in Nat /\ r.at \in Nat
         /\ r.head \in Keys \cup {0} /\ r.out \in Keys \cup {0}
BY DEF JobType

LEMMA NoJobFacts == NoJob \in JobType /\ NoJob.pc = "idle"
BY DEF NoJob, JobType

LEMMA EntryFacts ==
  ASSUME NEW e \in EntryType
  PROVE  /\ e.at \in Int /\ (e.at # NEVER => e.at \in Nat)
         /\ e.keys \in [Keys -> RowType]
BY Never DEF EntryType, Instants

LEMMA NoEntryFacts ==
  /\ NoEntry \in EntryType /\ NoEntry.at = NEVER
  /\ \A k \in Keys : NoEntry.keys[k] = NoKey
BY NoKeyFacts DEF NoEntry, EntryType, Instants

LEMMA DocFacts ==
  ASSUME NEW d \in DocType
  PROVE  d.at \in Int /\ (d.at # NEVER => d.at \in Nat) /\ d.keys \in SUBSET Keys
BY Never DEF DocType, Instants

LEMMA NoDocFacts == NoDoc \in DocType /\ NoDoc.at = NEVER
BY DEF NoDoc, DocType, Instants

LEMMA StoredFacts ==
  ASSUME NEW K, NEW k
  PROVE  k \in Stored(K) <=> k \in Keys /\ K[k].st = "stored"
BY DEF Stored

-----------------------------------------------------------------------------
(* What the invariant gives.                                               *)

\* A nonempty set of naturals has a least member.
LEMMA NatMin ==
  ASSUME NEW T \in SUBSET Nat, T # {}
  PROVE  \E n \in T : \A k \in T : n <= k
<1>1. PICK n \in T : \A k \in T : ~(<<k, n>> \in OpToRel(<, Nat))
  BY NatLessThanWellFounded, WFMin
<1>2. \A k \in T : ~(k < n)
  BY <1>1 DEF OpToRel
<1> QED BY <1>2

\* A nonempty set with a bounded measure has a member of greatest measure.
LEMMA Greatest ==
  ASSUME NEW S, S # {}, NEW f \in [S -> Nat], NEW N \in Nat, \A x \in S : f[x] <= N
  PROVE  \E x \in S : \A y \in S : f[y] <= f[x]
<1> DEFINE T == {n \in Nat : \E y \in S : n = N - f[y]}
<1>1. T \in SUBSET Nat /\ T # {}
  <2>1. PICK y \in S : TRUE
    OBVIOUS
  <2>2. N - f[y] \in T
    BY <2>1
  <2> QED BY <2>2
<1>2. PICK n \in T : \A k \in T : n <= k
  BY ONLY <1>1, NatMin
<1>3. PICK x \in S : n = N - f[x]
  BY <1>2
<1>4. \A y \in S : f[y] <= f[x]
  <2> SUFFICES ASSUME NEW y \in S PROVE f[y] <= f[x]
    OBVIOUS
  <2>1. f[x] \in Nat /\ f[y] \in Nat /\ f[y] <= N
    OBVIOUS
  <2>2. N - f[y] \in T
    BY <2>1
  <2>3. n <= N - f[y]
    BY <1>2, <2>2
  <2> QED BY <2>1, <2>3, <1>3
<1> QED BY <1>4

\* Among keys there is a newest one.
LEMMA NewestExists ==
  ASSUME TypeOK, NEW A \in SUBSET Keys, A # {}, NEW N \in Nat,
         \A k \in A : key[k].activate <= N
  PROVE  \E m \in A : m \in Newest(key, A)
<1>1. \A k \in Keys : key[k].activate \in Nat
  BY RowFacts DEF TypeOK
<1> DEFINE f == [k \in A |-> key[k].activate]
<1>2. f \in [A -> Nat] /\ \A x \in A : f[x] <= N
  BY <1>1
<1>3. PICK x \in A : \A y \in A : f[y] <= f[x]
  <2> HIDE DEF f
  <2> QED BY <1>2, Greatest
<1> DEFINE B == {k \in A : key[k].activate = key[x].activate}
           g == [k \in B |-> k]
<1>4. B # {} /\ g \in [B -> Nat] /\ \A y \in B : g[y] <= MaxKeys
  BY KeyFacts
<1>5. PICK m \in B : \A y \in B : g[y] <= g[m]
  <2> HIDE DEF B, g
  <2> QED BY <1>4, Greatest, Times
<1>6. m \in A /\ \A b \in A : key[b].activate < key[m].activate
                             \/ (key[b].activate = key[m].activate /\ b <= m)
  BY <1>1, <1>3, <1>5
<1> QED BY <1>6 DEF Newest

\* The newest active key is never retired: whoever retired it had seen a newer one.
LEMMA SignerFromInv ==
  ASSUME IInv
  PROVE  SignerAlways
<1> USE DEF IInv
<1>1. TypeOK /\ now \in Nat
  BY DEF TypeOK
<1> DEFINE A == {k \in Stored(key) : key[k].activate <= now}
<1>2. 1 \in A
  <2>1. 1 \in Stored(key)
    BY KeyFacts DEF TableShape
  <2>2. key[1].activate <= now
    BY <1>1 DEF TableShape
  <2> QED BY <2>1, <2>2
<1>3. A \in SUBSET Keys /\ A # {} /\ \A k \in A : key[k].activate <= now
  BY <1>2, StoredFacts
<1>4. PICK m \in A : m \in Newest(key, A)
  <2> HIDE DEF A
  <2> QED BY <1>1, <1>3, NewestExists
<1>5. \A k \in Keys : key[k].activate \in Nat /\ key[k].retire \in Int
  BY <1>1, RowFacts DEF TypeOK
<1>6. key[m].retire = NEVER \/ now < key[m].retire
  <2> SUFFICES ASSUME key[m].retire # NEVER, key[m].retire <= now PROVE FALSE
    BY <1>1, <1>3, <1>5
  <2>1. PICK s \in Stored(key) : Follows(m, s) /\ key[s].activate <= key[m].retire
    BY DEF TableShape, Relieved
  <2>2. s \in A
    BY <1>1, <1>3, <1>5, <2>1, StoredFacts
  <2>3. key[s].activate < key[m].activate \/ (key[s].activate = key[m].activate /\ s <= m)
    BY <1>4, <2>2 DEF Newest
  <2> QED BY <2>1, <2>2, <2>3, <1>3, <1>5, KeyFacts DEF Follows
<1>7. m \in Signer(key, now)
  BY <1>4, <1>6 DEF Signer, Newest
<1> QED BY <1>7 DEF SignerAlways

LEMMA VerifiableFromInv ==
  ASSUME IInv
  PROVE  TokensVerifiable
<1> SUFFICES ASSUME NEW r \in Parties, NEW k \in Scheduled,
                    doc[r] # NoDoc, now < lastExp[k], k \notin doc[r].keys
             PROVE  FALSE
  BY DEF TokensVerifiable, Scheduled
<1>1. k \in Keys /\ now \in Nat /\ lastExp[k] \in Nat /\ key[k] \in RowType /\ doc[r] \in DocType
  BY DEF IInv, TypeOK, Scheduled
<1>2. /\ key[k].st = "stored" /\ key[k].activate <= now
      /\ key[k].retire # NEVER => lastExp[k] <= key[k].expire
  BY <1>1 DEF IInv, TokenShape
<1>3. doc[r].at # NEVER /\ now < doc[r].at + CacheTtl /\ MissedSafely(key[k], doc[r].at)
  BY DEF IInv, DocShape
<1>4. doc[r].at \in Nat /\ key[k].activate \in Nat /\ key[k].expire \in Int
  BY <1>1, <1>3, RowFacts, DocFacts
<1> QED BY <1>1, <1>2, <1>3, <1>4, Times DEF MissedSafely

-----------------------------------------------------------------------------
(* The two ways to write the table.                                        *)

\* Rows are never lost and keep the times a copy may rely on.
Grown ==
  /\ key' \in [Keys -> RowType]
  /\ \A k \in Stored(key) : /\ k \in Stored(key')
                            /\ key'[k].activate = key[k].activate

\* Row k, absent so far, becomes the given one.
Filled(k, row) ==
  /\ k \in Keys /\ key[k] = NoKey /\ key'[k] = row
  /\ \A b \in Keys \ {k} : key'[b] = key[b]
  /\ \A b \in Stored(key) : b < k
  /\ Stored(key') = Stored(key) \cup {k}
  /\ \E n \in Keys : Stored(key') = 1 .. n

\* Row k gets the given retirement and expiry.
Ended(k, retire, expire) ==
  /\ key'[k].st = key[k].st
  /\ key'[k].publish = key[k].publish /\ key'[k].activate = key[k].activate
  /\ key'[k].retire = retire /\ key'[k].expire = expire
  /\ \A b \in Keys \ {k} : key'[b] = key[b]
  /\ Stored(key') = Stored(key)

LEMMA InsertEffect ==
  ASSUME TypeOK, TableShape, NEW k \in Keys, NEW row \in RowType, row.st = "stored",
         Insert(k, row)
  PROVE  Filled(k, row) /\ Grown
<1>1. key \in [Keys -> RowType]
  BY DEF TypeOK
<1>2. PICK n \in Keys : Stored(key) = 1 .. n
  BY DEF TableShape
<1>3. n \in Nat /\ 1 <= n
  BY KeyFacts
<1>4. Cardinality(1 .. n) = n
  BY <1>3, FS_Interval
<1>5. k = n + 1
  BY <1>2, <1>4 DEF Insert
<1>6. k \notin Stored(key)
  BY <1>2, <1>3, <1>5
<1>7. key[k].st # "stored" /\ key[k] \in RowType
  BY <1>1, <1>6, StoredFacts
<1>8. key[k] = NoKey
  BY <1>7, RowFacts DEF TableShape
<1>9. /\ key' \in [Keys -> RowType] /\ key'[k] = row
      /\ \A b \in Keys \ {k} : key'[b] = key[b]
  BY <1>1 DEF Insert
<1>10. Stored(key') = Stored(key) \cup {k}
  BY <1>9 DEF Stored
<1>11. Stored(key') = 1 .. k
  BY <1>2, <1>3, <1>5, <1>10
<1>12. \A b \in Stored(key) : b < k
  BY <1>2, <1>3, <1>5
<1>13. \A b \in Stored(key) : key'[b] = key[b]
  BY <1>6, <1>9, StoredFacts
<1> QED BY <1>8, <1>9, <1>10, <1>11, <1>12, <1>13 DEF Filled, Grown

LEMMA WithdrawEffect ==
  ASSUME TypeOK, NEW k \in Keys, NEW retire \in Nat, NEW expire \in Nat,
         key' = Withdrawn(k, retire, expire)
  PROVE  Ended(k, retire, expire) /\ Grown
<1>1. key \in [Keys -> RowType] /\ key[k] \in RowType
  BY DEF TypeOK
<1> DEFINE row == [[key[k] EXCEPT !.retire = retire] EXCEPT !.expire = expire]
<1>2. key' = [key EXCEPT ![k] = row]
  BY <1>1 DEF Withdrawn
<1>3. /\ row \in RowType /\ row.st = key[k].st
      /\ row.publish = key[k].publish /\ row.activate = key[k].activate
      /\ row.retire = retire /\ row.expire = expire
  BY <1>1 DEF RowType, Instants
<1> HIDE DEF row
<1>4. /\ key' \in [Keys -> RowType] /\ key'[k] = row
      /\ \A b \in Keys \ {k} : key'[b] = key[b]
  BY <1>1, <1>2, <1>3
<1>5. Stored(key') = Stored(key)
  BY <1>3, <1>4 DEF Stored
<1> QED BY <1>3, <1>4, <1>5 DEF Ended, Grown, Stored

LEMMA StillRelieved ==
  ASSUME Grown, NEW k \in Stored(key), NEW t, Relieved(k, t)
  PROVE  \E s \in Stored(key') : /\ \/ key'[k].activate < key'[s].activate
                                    \/ key'[k].activate = key'[s].activate /\ k < s
                                 /\ key'[s].activate <= t
<1>1. PICK s \in Stored(key) : Follows(k, s) /\ key[s].activate <= t
  BY DEF Relieved
<1> QED BY <1>1 DEF Grown, Follows

LEMMA InsertTable ==
  ASSUME IInv, NEW k \in Keys, NEW row \in RowType, row.st = "stored", row.retire = NEVER,
         Filled(k, row), Grown, Scheduled' \subseteq Scheduled,
         k \in Scheduled' => Timed(row)
  PROVE  TableShape'
<1>1. TableShape
  BY DEF IInv
<1>2. \E n \in Keys : Stored(key') = 1 .. n
  BY DEF Filled
<1>3. 1 \in Stored(key) /\ key'[1].activate = 0
  BY <1>1, KeyFacts DEF TableShape, Grown
<1>4. ASSUME NEW b \in Keys, key'[b].st = "absent" PROVE key'[b] = NoKey
  <2>1. b # k
    BY <1>4 DEF Filled
  <2> QED BY <1>1, <1>4, <2>1 DEF Filled, TableShape
<1>5. ASSUME NEW b \in Stored(key'), key'[b].retire # NEVER
      PROVE  Relieved(b, key[b].retire)'
  <2>1. b # k
    BY <1>5 DEF Filled
  <2>2. b \in Stored(key) /\ key'[b] = key[b]
    BY <1>5, <2>1, StoredFacts DEF Filled
  <2>3. Relieved(b, key[b].retire)
    BY <1>1, <1>5, <2>2 DEF TableShape
  <2>4. \E s \in Stored(key') : /\ \/ key'[b].activate < key'[s].activate
                                   \/ key'[b].activate = key'[s].activate /\ b < s
                                /\ key'[s].activate <= key[b].retire
    BY <2>2, <2>3, StillRelieved
  <2> QED BY <2>2, <2>4 DEF Relieved, Follows
<1>6. ASSUME NEW b \in Scheduled' PROVE Timed(key[b])'
  <2>1. CASE b = k
    BY <1>6, <2>1 DEF Filled, Timed
  <2>2. CASE b # k
    <3>1. key'[b] = key[b] /\ b \in Scheduled
      BY <1>6, <2>2 DEF Filled, Scheduled
    <3> QED BY <1>1, <3>1 DEF TableShape, Timed
  <2> QED BY <2>1, <2>2
<1> QED BY <1>2, <1>3, <1>4, <1>5, <1>6 DEF TableShape

LEMMA WithdrawTable ==
  ASSUME IInv, NEW k \in Stored(key), NEW retire \in Nat, NEW expire \in Nat,
         Ended(k, retire, expire), Grown, Scheduled' \subseteq Scheduled,
         Relieved(k, retire),
         k \in Scheduled' => expire = retire + Lifetime + Buffer
  PROVE  TableShape'
<1>1. TableShape /\ TypeOK
  BY DEF IInv
<1>2. k \in Keys /\ key[k].st = "stored"
  BY StoredFacts
<1>3. (\E n \in Keys : Stored(key') = 1 .. n)
  BY <1>1 DEF Ended, TableShape
<1>4. key'[1].activate = 0
  <2>1. 1 \in Stored(key)
    BY <1>1, KeyFacts DEF TableShape
  <2> QED BY <1>1, <2>1 DEF TableShape, Grown
<1>5. ASSUME NEW b \in Keys, key'[b].st = "absent" PROVE key'[b] = NoKey
  <2>1. b # k
    BY <1>2, <1>5 DEF Ended
  <2> QED BY <1>1, <1>5, <2>1 DEF Ended, TableShape
<1>6. ASSUME NEW b \in Stored(key'), key'[b].retire # NEVER
      PROVE  Relieved(b, key[b].retire)'
  <2>0. b \in Stored(key) /\ b \in Keys
    BY <1>6, StoredFacts DEF Ended
  <2>1. Relieved(b, key'[b].retire)
    <3>1. CASE b = k
      BY <3>1 DEF Ended
    <3>2. CASE b # k
      BY <1>1, <1>6, <2>0, <3>2 DEF Ended, TableShape
    <3> QED BY <3>1, <3>2
  <2> DEFINE t == key'[b].retire
  <2>2. \E s \in Stored(key') : /\ \/ key'[b].activate < key'[s].activate
                                   \/ key'[b].activate = key'[s].activate /\ b < s
                                /\ key'[s].activate <= t
    <3> HIDE DEF t
    <3>1. Relieved(b, t)
      BY <2>1 DEF t
    <3> QED BY <2>0, <3>1, StillRelieved
  <2> QED BY <2>2 DEF Relieved, Follows
<1>7. ASSUME NEW b \in Scheduled' PROVE Timed(key[b])'
  <2>1. CASE b = k
    <3>1. Timed(key[k])
      BY <1>1, <1>7, <2>1 DEF TableShape
    <3>2. key'[k].retire # NEVER /\ key'[k].expire = key'[k].retire + Lifetime + Buffer
      BY <1>7, <2>1, Never DEF Ended
    <3>3. key'[k].publish = 0 \/ key'[k].activate = key'[k].publish + Lead
      BY <3>1 DEF Ended, Timed
    <3> QED BY <2>1, <3>2, <3>3 DEF Timed
  <2>2. CASE b # k
    <3>1. key'[b] = key[b] /\ b \in Scheduled
      BY <1>7, <2>2 DEF Ended, Scheduled
    <3> QED BY <1>1, <3>1 DEF TableShape, Timed
  <2> QED BY <2>1, <2>2
<1> QED BY <1>3, <1>4, <1>5, <1>6, <1>7 DEF TableShape

-----------------------------------------------------------------------------
(* Copies, tokens, documents and jobs when the table is written.           *)

LEMMA StateFacts ==
  ASSUME TypeOK
  PROVE  /\ now \in Nat
         /\ \A k \in Keys : key[k] \in RowType /\ lastExp[k] \in Nat
         /\ \A j \in Jobs : job[j] \in JobType
         /\ \A n \in Nodes : /\ entry[n] \in EntryType
                             /\ \A k \in Keys : entry[n].keys[k] \in RowType
         /\ \A r \in Parties : doc[r] \in DocType
BY EntryFacts DEF TypeOK

LEMMA InsertEntries ==
  ASSUME IInv, NEW k \in Keys, NEW row \in RowType, row.st = "stored", row.retire = NEVER,
         Filled(k, row), Scheduled' \subseteq Scheduled, now' = now, entry' = entry,
         k \in Scheduled' => now + CacheTtl + EntryTtl <= row.activate,
         NEW n \in Nodes
  PROVE  EntryShape(n)'
<1>1. TypeOK /\ EntryShape(n)
  BY DEF IInv
<1>2. SUFFICES ASSUME entry[n].at # NEVER
               PROVE  /\ \A b \in Keys : Behind(entry[n].keys[b], key'[b])
                      /\ \A b \in Scheduled' : MissesLittle(entry[n].keys[b], key'[b], entry[n].at)
  BY <1>1 DEF EntryShape, Behind, MissesLittle, Timed
<1>3. /\ entry[n].at <= now /\ now \in Nat /\ entry[n].at \in Nat
      /\ \A b \in Keys : Behind(entry[n].keys[b], key[b])
      /\ \A b \in Scheduled : MissesLittle(entry[n].keys[b], key[b], entry[n].at)
  BY <1>1, <1>2, StateFacts, EntryFacts DEF EntryShape
<1>4. entry[n].keys[k].st # "stored" /\ entry[n].keys[k].retire = NEVER
  BY <1>3, NoKeyFacts DEF Filled, Behind
<1>5. ASSUME NEW b \in Keys PROVE Behind(entry[n].keys[b], key'[b])
  BY <1>3, <1>4 DEF Filled, Behind
<1>6. ASSUME NEW b \in Scheduled' PROVE MissesLittle(entry[n].keys[b], key'[b], entry[n].at)
  <2>1. CASE b = k
    <3>1. Timed(entry[n].keys[k])
      BY <1>3, <1>6, <2>1 DEF MissesLittle
    <3>2. key'[k] = row /\ row.activate \in Nat
      BY RowFacts DEF Filled
    <3>3. entry[n].at + CacheTtl + EntryTtl <= row.activate
      BY <1>3, <1>6, <2>1, <3>2, Times
    <3> QED BY <1>4, <2>1, <3>1, <3>2, <3>3 DEF MissesLittle
  <2>2. CASE b # k
    <3>1. key'[b] = key[b] /\ b \in Scheduled
      BY <1>6, <2>2 DEF Filled, Scheduled
    <3> QED BY <1>3, <3>1
  <2> QED BY <2>1, <2>2
<1> QED BY <1>5, <1>6

LEMMA InsertTokens ==
  ASSUME IInv, NEW k \in Keys, NEW row \in RowType, row.retire = NEVER,
         Filled(k, row), Scheduled' \subseteq Scheduled, now' = now, lastExp' = lastExp,
         NEW b \in Keys
  PROVE  TokenShape(b)'
<1>1. TypeOK /\ TokenShape(b)
  BY DEF IInv
<1>2. CASE b = k
  <2>1. key[b].st # "stored" /\ key'[b].retire = NEVER
    BY <1>2, NoKeyFacts DEF Filled
  <2> QED BY <1>1, <2>1 DEF TokenShape
<1>3. CASE b # k
  <2>1. key'[b] = key[b]
    BY <1>3 DEF Filled
  <2> QED BY <1>1, <2>1 DEF TokenShape
<1> QED BY <1>2, <1>3

LEMMA InsertDocs ==
  ASSUME IInv, NEW k \in Keys, NEW row \in RowType,
         Filled(k, row), Scheduled' \subseteq Scheduled, now' = now, doc' = doc,
         k \in Scheduled' => now + CacheTtl + EntryTtl <= row.activate,
         NEW r \in Parties
  PROVE  DocShape(r)'
<1>1. TypeOK /\ DocShape(r)
  BY DEF IInv
<1>2. ASSUME doc[r].at # NEVER, NEW b \in Scheduled', b \notin doc[r].keys
      PROVE  MissedSafely(key[b], doc[r].at)'
  <2>1. CASE b = k
    <3>1. doc[r].at \in Nat /\ doc[r].at <= now /\ now \in Nat /\ row.activate \in Nat
      BY <1>1, <1>2, StateFacts, DocFacts, RowFacts DEF DocShape
    <3>2. doc[r].at + CacheTtl <= row.activate
      BY <1>2, <2>1, <3>1, Times
    <3> QED BY <2>1, <3>2 DEF Filled, MissedSafely
  <2>2. CASE b # k
    <3>1. key'[b] = key[b] /\ b \in Scheduled
      BY <1>2, <2>2 DEF Filled, Scheduled
    <3>2. MissedSafely(key[b], doc[r].at)
      BY <1>1, <1>2, <3>1 DEF DocShape
    <3> QED BY <3>1, <3>2 DEF MissedSafely
  <2> QED BY <2>1, <2>2
<1> QED BY <1>1, <1>2 DEF DocShape

\* A job goes on with what it has listed, or ends.
GoesOn(j) ==
  job'[j].pc # "idle" =>
    /\ job[j].pc # "idle" /\ job'[j].read = job[j].read /\ job'[j].at = job[j].at
    /\ job'[j].head = job[j].head /\ job'[j].out = job[j].out

LEMMA InsertOverlap ==
  ASSUME IInv, NEW k \in Keys, NEW row \in RowType, row.retire = NEVER,
         Filled(k, row), Scheduled' \subseteq Scheduled, entry' = entry,
         NEW j \in Jobs, GoesOn(j)
  PROVE  OverlapShape(j)'
<1> SUFFICES ASSUME job'[j].pc # "idle", job'[j].out \in Scheduled'
             PROVE  /\ RetiredSince(key'[job'[j].out], job'[j].read)
                    /\ \A n \in Nodes : RetiredSince(entry'[n].keys[job'[j].out], job'[j].read)
  BY DEF OverlapShape, RetiredSince
<1>1. /\ job'[j].out = job[j].out /\ job'[j].read = job[j].read
      /\ job[j].pc # "idle" /\ job[j].out \in Scheduled
  BY DEF GoesOn
<1>2. /\ RetiredSince(key[job[j].out], job[j].read)
      /\ \A n \in Nodes : RetiredSince(entry[n].keys[job[j].out], job[j].read)
  BY <1>1 DEF IInv, OverlapShape
<1>3. RetiredSince(key'[job[j].out], job[j].read)
  BY <1>1, <1>2 DEF Filled, RetiredSince, Scheduled
<1> QED BY <1>1, <1>2, <1>3

LEMMA JobKept ==
  ASSUME IInv, Grown, now' = now, NEW j \in Jobs, GoesOn(j),
         job'[j].pc = "promote" => job[j].out # 0,
         job'[j].pc = "breakWithdraw" => Relieved(job[j].head, job[j].at)
  PROVE  JobShape(j)'
<1> SUFFICES ASSUME job'[j].pc # "idle" PROVE JobShape(j)'
  BY DEF JobShape
<1> DEFINE h == job[j].head
           o == job[j].out
           t == job[j].at
<1>1. /\ job[j].pc # "idle" /\ job'[j].read = job[j].read /\ job'[j].at = t
      /\ job'[j].head = h /\ job'[j].out = o
  BY DEF GoesOn
<1>2. /\ job[j].read <= now /\ now <= job[j].read + MaxStall /\ job[j].read <= t
      /\ h \in Stored(key) /\ key[h].activate <= t
      /\ o # 0 => o \in Stored(key) /\ key[o].activate < key[h].activate
  BY <1>1 DEF IInv, JobShape
<1>3. /\ h \in Stored(key') /\ key'[h].activate <= t
      /\ o # 0 => o \in Stored(key') /\ key'[o].activate < key'[h].activate
  BY <1>2 DEF Grown
<1>4. job'[j].pc = "breakWithdraw" =>
        \E s \in Stored(key') : /\ \/ key'[h].activate < key'[s].activate
                                   \/ key'[h].activate = key'[s].activate /\ h < s
                                /\ key'[s].activate <= t
  <2> HIDE DEF h, t
  <2>1. job'[j].pc = "breakWithdraw" => Relieved(h, t)
    BY DEF h, t
  <2> QED BY <1>2, <2>1, StillRelieved
<1> QED BY <1>1, <1>2, <1>3, <1>4 DEF JobShape, Relieved, Follows

LEMMA WithdrawEntries ==
  ASSUME IInv, NEW k \in Keys, NEW retire \in Nat, NEW expire \in Nat,
         Ended(k, retire, expire), Scheduled' \subseteq Scheduled, now' = now, entry' = entry,
         NEW n \in Nodes,
         k \in Scheduled' =>
           /\ now + EntryTtl + Lifetime <= expire
           /\ entry[n].keys[k].retire # NEVER => now + EntryTtl <= entry[n].keys[k].expire
  PROVE  EntryShape(n)'
<1>1. TypeOK /\ EntryShape(n)
  BY DEF IInv
<1>2. SUFFICES ASSUME entry[n].at # NEVER
               PROVE  /\ \A b \in Keys : Behind(entry[n].keys[b], key'[b])
                      /\ \A b \in Scheduled' : MissesLittle(entry[n].keys[b], key'[b], entry[n].at)
  BY <1>1 DEF EntryShape, Behind, MissesLittle, Timed
<1>3. /\ entry[n].at <= now /\ now \in Nat /\ entry[n].at \in Nat
      /\ \A b \in Keys : Behind(entry[n].keys[b], key[b])
      /\ \A b \in Scheduled : MissesLittle(entry[n].keys[b], key[b], entry[n].at)
  BY <1>1, <1>2, StateFacts, EntryFacts DEF EntryShape
<1>4. ASSUME NEW b \in Keys PROVE Behind(entry[n].keys[b], key'[b])
  BY <1>3, Never DEF Ended, Behind
<1>5. ASSUME NEW b \in Scheduled' PROVE MissesLittle(entry[n].keys[b], key'[b], entry[n].at)
  <2>1. CASE b = k
    <3> DEFINE c == entry[n].keys[k]
    <3>1. MissesLittle(c, key[k], entry[n].at)
      BY <1>3, <1>5, <2>1
    <3>2. c.expire \in Int
      BY <1>1, StateFacts, RowFacts
    <3>3. entry[n].at + EntryTtl + Lifetime <= expire
      BY <1>3, <1>5, <2>1, Times
    <3>4. c.retire # NEVER => entry[n].at + EntryTtl <= c.expire
      BY <1>3, <1>5, <2>1, <3>2, Times
    <3> HIDE DEF c
    <3>5. MissesLittle(c, key'[k], entry[n].at)
      BY <3>1, <3>3, <3>4 DEF MissesLittle, Ended
    <3> QED BY <2>1, <3>5 DEF c
  <2>2. CASE b # k
    <3>1. key'[b] = key[b] /\ b \in Scheduled
      BY <1>5, <2>2 DEF Ended, Scheduled
    <3> QED BY <1>3, <3>1
  <2> QED BY <2>1, <2>2
<1> QED BY <1>4, <1>5

LEMMA WithdrawTokens ==
  ASSUME IInv, NEW k \in Keys, NEW retire \in Nat, NEW expire \in Nat,
         Ended(k, retire, expire), Scheduled' \subseteq Scheduled, now' = now, lastExp' = lastExp,
         k \in Scheduled' => now + Lifetime <= expire,
         NEW b \in Keys
  PROVE  TokenShape(b)'
<1>1. TypeOK /\ TokenShape(b)
  BY DEF IInv
<1>2. now \in Nat /\ lastExp[b] \in Nat
  BY <1>1, StateFacts
<1>3. CASE b = k
  BY <1>1, <1>2, <1>3, Times DEF Ended, TokenShape
<1>4. CASE b # k
  <2>1. key'[b] = key[b]
    BY <1>4 DEF Ended
  <2> QED BY <1>1, <2>1 DEF TokenShape
<1> QED BY <1>3, <1>4

LEMMA WithdrawDocs ==
  ASSUME IInv, NEW k \in Keys, NEW retire \in Nat, NEW expire \in Nat,
         Ended(k, retire, expire), Scheduled' \subseteq Scheduled, now' = now, doc' = doc,
         k \in Scheduled' => (key[k].retire # NEVER => now < key[k].expire),
         NEW r \in Parties
  PROVE  DocShape(r)'
<1>1. TypeOK /\ DocShape(r)
  BY DEF IInv
<1>2. ASSUME doc[r].at # NEVER, NEW b \in Scheduled', b \notin doc[r].keys
      PROVE  MissedSafely(key[b], doc[r].at)'
  <2>1. MissedSafely(key[b], doc[r].at) /\ b \in Keys
    BY <1>1, <1>2 DEF DocShape, Scheduled
  <2>2. CASE b = k
    <3>1. key[k].expire \in Int /\ now \in Nat
      BY <1>1, StateFacts, RowFacts
    <3>2. key[k].st = "absent" \/ doc[r].at + CacheTtl <= key[k].activate
      BY <1>2, <2>1, <2>2, <3>1 DEF MissedSafely
    <3> QED BY <2>2, <3>2 DEF Ended, MissedSafely
  <2>3. CASE b # k
    BY <2>1, <2>3 DEF Ended, MissedSafely
  <2> QED BY <2>2, <2>3
<1> QED BY <1>1, <1>2 DEF DocShape

LEMMA WithdrawOverlap ==
  ASSUME IInv, NEW k \in Keys, NEW retire \in Nat, NEW expire \in Nat,
         Ended(k, retire, expire), Scheduled' \subseteq Scheduled, entry' = entry,
         k \in Scheduled' => now + Lifetime + Buffer <= expire + MaxStall,
         NEW j \in Jobs, GoesOn(j)
  PROVE  OverlapShape(j)'
<1> SUFFICES ASSUME job'[j].pc # "idle", job'[j].out \in Scheduled'
             PROVE  /\ RetiredSince(key'[job'[j].out], job'[j].read)
                    /\ \A n \in Nodes : RetiredSince(entry'[n].keys[job'[j].out], job'[j].read)
  BY DEF OverlapShape, RetiredSince
<1>1. /\ job'[j].out = job[j].out /\ job'[j].read = job[j].read
      /\ job[j].pc # "idle" /\ job[j].out \in Scheduled
  BY DEF GoesOn
<1>2. /\ RetiredSince(key[job[j].out], job[j].read)
      /\ \A n \in Nodes : RetiredSince(entry[n].keys[job[j].out], job[j].read)
  BY <1>1 DEF IInv, OverlapShape
<1>3. job[j].read <= now /\ job[j].read \in Nat /\ now \in Nat
  BY <1>1, StateFacts, JobFacts DEF IInv, JobShape
<1>4. RetiredSince(key'[job[j].out], job[j].read)
  <2>1. CASE job[j].out = k
    BY <1>1, <1>3, <2>1, Times DEF Ended, RetiredSince
  <2>2. CASE job[j].out # k
    BY <1>1, <1>2, <2>2 DEF Ended, RetiredSince, Scheduled
  <2> QED BY <2>1, <2>2
<1> QED BY <1>1, <1>2, <1>4

-----------------------------------------------------------------------------
(* The steps of a job.                                                     *)

LEMMA SeedStep ==
  ASSUME IInv, TypeOK', NEW j \in Jobs, Seed(j)
  PROVE  IInv'
<1>1. TypeOK /\ TableShape /\ now \in Nat /\ job[j] \in JobType
  BY StateFacts DEF IInv
<1>2. PICK t \in job[j].read .. now, k \in Keys :
        Insert(k, NewKey(Activation(j, Later(job[j].at, t)) - Lead,
                         Activation(j, Later(job[j].at, t))))
  BY DEF Seed
<1> DEFINE a == Activation(j, Later(job[j].at, t))
           row == NewKey(a - Lead, a)
<1>3. /\ job[j].read \in Nat /\ job[j].at \in Nat /\ now <= job[j].read + MaxStall
      /\ job[j].head \in Stored(key)
  BY <1>1, JobFacts DEF Seed, IInv, JobShape
<1>4. t \in Nat /\ job[j].read <= t
  BY <1>1, <1>3
<1>5. Later(job[j].at, t) \in Nat /\ t <= Later(job[j].at, t)
  BY <1>3, <1>4, LaterFacts
<1>6. a \in Nat /\ Later(job[j].at, t) + Lead <= a
  <2> DEFINE x == key[job[j].head].activate + Cadence
             y == Later(job[j].at, t) + Lead
  <2>1. x \in Nat
    BY <1>1, <1>3, StoredFacts, StateFacts, RowFacts, Times
  <2>2. y \in Nat
    BY <1>5, Times
  <2>3. a = Later(x, y)
    BY DEF Activation
  <2> HIDE DEF x, y, a
  <2>4. a \in Nat /\ y <= a
    BY <2>1, <2>2, <2>3, LaterFacts
  <2> QED BY <2>4 DEF y
<1>7. a - Lead \in Nat /\ now + CacheTtl + EntryTtl <= a
  <2> HIDE DEF a
  <2> QED BY <1>1, <1>3, <1>4, <1>5, <1>6, Times
<1>8. /\ row \in RowType /\ row.st = "stored" /\ row.retire = NEVER /\ row.expire = NEVER
      /\ row.activate = a /\ row.publish = a - Lead
  <2> HIDE DEF a
  <2> QED BY <1>6, <1>7, NewKeyFacts
<1>9. Timed(row) /\ now + CacheTtl + EntryTtl <= row.activate
  <2> HIDE DEF a, row
  <2> QED BY <1>6, <1>7, <1>8, Times DEF Timed
<1>10. Insert(k, row)
  BY <1>2
<1> HIDE DEF a, row
<1>11. Filled(k, row) /\ Grown
  BY <1>1, <1>8, <1>10, InsertEffect
<1>12. /\ now' = now /\ entry' = entry /\ doc' = doc /\ lastExp' = lastExp
       /\ Scheduled' = Scheduled
  BY DEF Seed, Scheduled
<1>13. TableShape'
  BY <1>8, <1>9, <1>11, <1>12, InsertTable
<1>14. \A n \in Nodes : EntryShape(n)'
  BY <1>8, <1>9, <1>11, <1>12, InsertEntries
<1>15. \A b \in Keys : TokenShape(b)'
  BY <1>8, <1>11, <1>12, InsertTokens
<1>16. \A r \in Parties : DocShape(r)'
  BY <1>8, <1>9, <1>11, <1>12, InsertDocs
<1>17. ASSUME NEW i \in Jobs PROVE JobShape(i)' /\ OverlapShape(i)'
  <2>0. JobShape(i) /\ job[j].pc = "seed"
    BY DEF IInv, Seed
  <2>1. job[j] # NoJob /\ job \in [Jobs -> JobType]
    BY <1>1, <2>0, NoJobFacts DEF TypeOK
  <2>2. /\ GoesOn(i)
        /\ job'[i].pc = "promote" => job[i].out # 0
        /\ job'[i].pc = "breakWithdraw" => Relieved(job[i].head, job[i].at)
    <3>1. CASE i # j
      <4>1. job'[i] = job[i]
        BY <3>1, <2>1 DEF Seed
      <4> QED BY <2>0, <4>1 DEF GoesOn, JobShape
    <3>2. CASE i = j /\ job[j].out = 0
      <4>1. job'[i].pc = "idle"
        BY <3>2, <2>1, NoJobFacts DEF Seed
      <4> QED BY <4>1 DEF GoesOn
    <3>3. CASE i = j /\ job[j].out # 0
      <4>1. job'[j] = [job[j] EXCEPT !.pc = "promote"]
        BY <3>3, <2>1 DEF Seed
      <4>2. /\ job'[j].pc = "promote" /\ job'[j].read = job[j].read /\ job'[j].at = job[j].at
            /\ job'[j].head = job[j].head /\ job'[j].out = job[j].out
        BY <4>1, <1>1 DEF JobType
      <4> QED BY <3>3, <2>0, <4>2 DEF GoesOn
    <3> QED BY <3>1, <3>2, <3>3
  <2>3. JobShape(i)'
    BY <1>11, <1>12, <2>2, JobKept
  <2>4. OverlapShape(i)'
    BY <1>8, <1>11, <1>12, <2>2, InsertOverlap
  <2> QED BY <2>3, <2>4
<1> QED BY <1>13, <1>14, <1>15, <1>16, <1>17 DEF IInv

LEMMA PromoteStep ==
  ASSUME IInv, TypeOK', NEW j \in Jobs, Promote(j)
  PROVE  IInv'
<1> DEFINE k == job[j].out
           t == job[j].at
           e == t + Lifetime + Buffer
<1>1. TypeOK /\ TableShape /\ now \in Nat /\ job[j] \in JobType /\ job \in [Jobs -> JobType]
  BY StateFacts DEF IInv, TypeOK
<1>2. /\ job[j].read \in Nat /\ t \in Nat /\ job[j].read <= t /\ now <= job[j].read + MaxStall
      /\ k \in Stored(key) /\ k \in Keys
      /\ job[j].head \in Stored(key) /\ key[job[j].head].activate <= t
      /\ key[k].activate < key[job[j].head].activate
  BY <1>1, JobFacts, StoredFacts DEF Promote, IInv, JobShape
<1>3. Relieved(k, t)
  BY <1>2 DEF Relieved, Follows
<1>4. e \in Nat
  BY <1>2, Times
<1>5. key' = Withdrawn(k, t, e)
  BY DEF Promote
<1>6. k \in Scheduled => /\ RetiredSince(key[k], job[j].read)
                         /\ \A n \in Nodes : RetiredSince(entry[n].keys[k], job[j].read)
  BY DEF Promote, IInv, OverlapShape
<1>7. key[k].expire \in Int /\ \A n \in Nodes : entry[n].keys[k].expire \in Int
  BY <1>1, <1>2, StateFacts, RowFacts
<1>8. /\ now + EntryTtl + Lifetime <= e /\ now + Lifetime <= e
      /\ now + Lifetime + Buffer <= e + MaxStall
  BY <1>1, <1>2, Times
<1>9. e = t + Lifetime + Buffer
  OBVIOUS
<1>10. k \in Scheduled =>
         /\ key[k].retire # NEVER => now < key[k].expire
         /\ \A n \in Nodes : entry[n].keys[k].retire # NEVER =>
                               now + EntryTtl <= entry[n].keys[k].expire
  <2> HIDE DEF k, t, e
  <2> QED BY <1>1, <1>2, <1>6, <1>7, Times DEF RetiredSince
<1>11. /\ now' = now /\ entry' = entry /\ doc' = doc /\ lastExp' = lastExp
       /\ Scheduled' = Scheduled
  BY DEF Promote, Scheduled
<1>12. ASSUME NEW i \in Jobs
       PROVE  /\ GoesOn(i)
              /\ job'[i].pc = "promote" => job[i].out # 0
              /\ job'[i].pc = "breakWithdraw" => Relieved(job[i].head, job[i].at)
  <2>0. JobShape(i)
    BY DEF IInv
  <2>1. CASE i # j
    <3>1. job'[i] = job[i]
      BY <1>1, <2>1 DEF Promote
    <3> QED BY <2>0, <3>1 DEF GoesOn, JobShape
  <2>2. CASE i = j
    <3>1. job'[i].pc = "idle"
      BY <1>1, <2>2, NoJobFacts DEF Promote
    <3> QED BY <3>1 DEF GoesOn
  <2> QED BY <2>1, <2>2
<1> HIDE DEF k, t, e
<1>13. Ended(k, t, e) /\ Grown
  BY <1>1, <1>2, <1>4, <1>5, WithdrawEffect
<1>14. TableShape'
  BY <1>2, <1>3, <1>4, <1>9, <1>11, <1>13, WithdrawTable
<1>15. \A n \in Nodes : EntryShape(n)'
  BY <1>2, <1>4, <1>8, <1>10, <1>11, <1>13, WithdrawEntries
<1>16. \A b \in Keys : TokenShape(b)'
  BY <1>2, <1>4, <1>8, <1>11, <1>13, WithdrawTokens
<1>17. \A r \in Parties : DocShape(r)'
  BY <1>2, <1>4, <1>10, <1>11, <1>13, WithdrawDocs
<1>18. \A i \in Jobs : JobShape(i)' /\ OverlapShape(i)'
  <2> SUFFICES ASSUME NEW i \in Jobs PROVE JobShape(i)' /\ OverlapShape(i)'
    OBVIOUS
  <2>1. JobShape(i)'
    BY <1>11, <1>12, <1>13, JobKept
  <2>2. OverlapShape(i)'
    BY <1>2, <1>4, <1>8, <1>11, <1>12, <1>13, WithdrawOverlap
  <2> QED BY <2>1, <2>2
<1> QED BY <1>14, <1>15, <1>16, <1>17, <1>18 DEF IInv

LEMMA BreakSeedStep ==
  ASSUME IInv, TypeOK', NEW j \in Jobs, BreakSeed(j)
  PROVE  IInv'
<1>1. TypeOK /\ TableShape /\ now \in Nat /\ job[j] \in JobType /\ job \in [Jobs -> JobType]
  BY StateFacts DEF IInv, TypeOK
<1>2. PICK k \in Keys : Insert(k, NewKey(job[j].at, job[j].at)) /\ rushed' = rushed \cup {k}
  BY DEF BreakSeed
<1> DEFINE t == job[j].at
           h == job[j].head
           row == NewKey(t, t)
<1>3. t \in Nat /\ h \in Stored(key) /\ key[h].activate <= t /\ job[j].pc = "breakSeed"
  BY <1>1, JobFacts DEF BreakSeed, IInv, JobShape
<1>4. /\ row \in RowType /\ row.st = "stored" /\ row.retire = NEVER /\ row.activate = t
  BY <1>3, NewKeyFacts
<1>5. Insert(k, row)
  BY <1>2
<1>6. /\ now' = now /\ entry' = entry /\ doc' = doc /\ lastExp' = lastExp
      /\ Scheduled' \subseteq Scheduled /\ k \notin Scheduled'
  BY <1>2 DEF BreakSeed, Scheduled
<1>7. /\ \A i \in Jobs \ {j} : job'[i] = job[i]
      /\ job'[j].pc = "breakWithdraw" /\ job'[j].read = job[j].read /\ job'[j].at = t
      /\ job'[j].head = h /\ job'[j].out = job[j].out
  BY <1>1 DEF BreakSeed, JobType
<1>8. \A i \in Jobs : GoesOn(i)
  BY <1>3, <1>7 DEF GoesOn
<1> HIDE DEF row
<1>9. Filled(k, row) /\ Grown
  BY <1>1, <1>4, <1>5, InsertEffect
<1>10. TableShape'
  BY <1>4, <1>6, <1>9, InsertTable
<1>11. \A n \in Nodes : EntryShape(n)'
  BY <1>4, <1>6, <1>9, InsertEntries
<1>12. \A b \in Keys : TokenShape(b)'
  BY <1>4, <1>6, <1>9, InsertTokens
<1>13. \A r \in Parties : DocShape(r)'
  BY <1>4, <1>6, <1>9, InsertDocs
<1>14. \A i \in Jobs : OverlapShape(i)'
  BY <1>4, <1>6, <1>8, <1>9, InsertOverlap
<1>15. ASSUME NEW i \in Jobs \ {j} PROVE JobShape(i)'
  <2>1. /\ job'[i].pc = "promote" => job[i].out # 0
        /\ job'[i].pc = "breakWithdraw" => Relieved(job[i].head, job[i].at)
    BY <1>7 DEF IInv, JobShape
  <2> QED BY <1>6, <1>8, <1>9, <2>1, JobKept
<1>16. JobShape(j)'
  <2>1. /\ job[j].read <= now /\ now <= job[j].read + MaxStall /\ job[j].read <= t
        /\ job[j].out # 0 => job[j].out \in Stored(key) /\ key[job[j].out].activate < key[h].activate
    BY <1>3 DEF IInv, JobShape
  <2>2. /\ h \in Stored(key') /\ key'[h].activate = key[h].activate
        /\ job[j].out # 0 => /\ job[j].out \in Stored(key')
                             /\ key'[job[j].out].activate < key'[h].activate
    BY <1>3, <1>9, <2>1 DEF Grown
  <2>3. k \in Stored(key') /\ key'[k].activate = t /\ h < k
    BY <1>3, <1>4, <1>9 DEF Filled
  <2>4. key[h].activate \in Nat
    BY <1>1, <1>3, StoredFacts, StateFacts, RowFacts
  <2>5. Relieved(job[j].head, job[j].at)'
    BY <1>3, <1>7, <2>2, <2>3, <2>4 DEF Relieved, Follows
  <2> QED BY <1>3, <1>6, <1>7, <2>1, <2>2, <2>5 DEF JobShape
<1>17. \A i \in Jobs : JobShape(i)'
  BY <1>15, <1>16
<1> QED BY <1>10, <1>11, <1>12, <1>13, <1>14, <1>17 DEF IInv

LEMMA BreakWithdrawStep ==
  ASSUME IInv, TypeOK', NEW j \in Jobs, BreakWithdraw(j)
  PROVE  IInv'
<1> DEFINE k == job[j].head
           t == job[j].at
<1>1. TypeOK /\ TableShape /\ now \in Nat /\ job[j] \in JobType /\ job \in [Jobs -> JobType]
  BY StateFacts DEF IInv, TypeOK
<1>2. t \in Nat /\ k \in Stored(key) /\ k \in Keys /\ Relieved(k, t)
  BY <1>1, JobFacts, StoredFacts DEF BreakWithdraw, IInv, JobShape
<1>3. key' = Withdrawn(k, t, t)
  BY DEF BreakWithdraw
<1>4. /\ now' = now /\ entry' = entry /\ doc' = doc /\ lastExp' = lastExp
      /\ Scheduled' \subseteq Scheduled /\ k \notin Scheduled'
  BY DEF BreakWithdraw, Scheduled
<1>5. ASSUME NEW i \in Jobs
      PROVE  /\ GoesOn(i)
             /\ job'[i].pc = "promote" => job[i].out # 0
             /\ job'[i].pc = "breakWithdraw" => Relieved(job[i].head, job[i].at)
  <2>0. JobShape(i)
    BY DEF IInv
  <2>1. CASE i # j
    <3>1. job'[i] = job[i]
      BY <1>1, <2>1 DEF BreakWithdraw
    <3> QED BY <2>0, <3>1 DEF GoesOn, JobShape
  <2>2. CASE i = j
    <3>1. job'[i].pc = "idle"
      BY <1>1, <2>2, NoJobFacts DEF BreakWithdraw
    <3> QED BY <3>1 DEF GoesOn
  <2> QED BY <2>1, <2>2
<1> HIDE DEF k, t
<1>6. Ended(k, t, t) /\ Grown
  BY <1>1, <1>2, <1>3, WithdrawEffect
<1>7. TableShape'
  BY <1>2, <1>4, <1>6, WithdrawTable
<1>8. \A n \in Nodes : EntryShape(n)'
  BY <1>2, <1>4, <1>6, WithdrawEntries
<1>9. \A b \in Keys : TokenShape(b)'
  BY <1>2, <1>4, <1>6, WithdrawTokens
<1>10. \A r \in Parties : DocShape(r)'
  BY <1>2, <1>4, <1>6, WithdrawDocs
<1>11. \A i \in Jobs : JobShape(i)'
  BY <1>4, <1>5, <1>6, JobKept
<1>12. \A i \in Jobs : OverlapShape(i)'
  BY <1>2, <1>4, <1>5, <1>6, WithdrawOverlap
<1> QED BY <1>7, <1>8, <1>9, <1>10, <1>11, <1>12 DEF IInv

LEMMA JobsOnly ==
  ASSUME IInv, TypeOK', UNCHANGED <<now, key, entry, doc, lastExp, burnt, rushed>>,
         \A i \in Jobs : JobShape(i)' /\ OverlapShape(i)'
  PROVE  IInv'
<1>1. Scheduled' = Scheduled
  BY DEF Scheduled
<1>2. TableShape'
  BY <1>1 DEF IInv, TableShape, Stored, Relieved, Follows, Timed
<1>3. ASSUME NEW n \in Nodes PROVE EntryShape(n)'
  BY <1>1, <1>3 DEF IInv, EntryShape, Behind, MissesLittle, Timed
<1>4. ASSUME NEW k \in Keys PROVE TokenShape(k)'
  BY <1>1, <1>4 DEF IInv, TokenShape
<1>5. ASSUME NEW r \in Parties PROVE DocShape(r)'
  BY <1>1, <1>5 DEF IInv, DocShape, MissedSafely
<1> QED BY <1>2, <1>3, <1>4, <1>5 DEF IInv

\* A job that is left as it is while nothing it depends on changes.
LEMMA JobUntouched ==
  ASSUME IInv, UNCHANGED <<now, key, entry, burnt, rushed>>, NEW i \in Jobs,
         job'[i] = job[i] \/ job'[i].pc = "idle"
  PROVE  JobShape(i)' /\ OverlapShape(i)'
<1>1. Scheduled' = Scheduled
  BY DEF Scheduled
<1>2. CASE job'[i] = job[i]
  BY <1>1, <1>2 DEF IInv, JobShape, OverlapShape, RetiredSince, Relieved, Follows, Stored
<1>3. CASE job'[i].pc = "idle"
  BY <1>3 DEF JobShape, OverlapShape
<1> QED BY <1>2, <1>3

LEMMA AbandonStep ==
  ASSUME IInv, TypeOK', NEW j \in Jobs, Abandon(j)
  PROVE  IInv'
<1>1. job \in [Jobs -> JobType]
  BY DEF IInv, TypeOK
<1>2. \A i \in Jobs : job'[i] = job[i] \/ job'[i].pc = "idle"
  BY <1>1, NoJobFacts DEF Abandon
<1>3. UNCHANGED <<now, key, entry, doc, lastExp, burnt, rushed>>
  BY DEF Abandon
<1> HIDE DEF Abandon
<1>4. \A i \in Jobs : JobShape(i)' /\ OverlapShape(i)'
  BY <1>2, <1>3, JobUntouched
<1> QED BY <1>3, <1>4, JobsOnly

\* A set of keys has at most one newest member.
LEMMA NewestOne ==
  ASSUME TypeOK, NEW S \in SUBSET Keys, NEW a \in Newest(key, S), NEW b \in Newest(key, S)
  PROVE  a = b
<1>1. /\ a \in Keys /\ b \in Keys /\ a \in Nat /\ b \in Nat
      /\ key[a].activate \in Nat /\ key[b].activate \in Nat
  BY StateFacts, RowFacts, KeyFacts DEF Newest
<1>2. /\ key[a].activate < key[b].activate \/ (key[a].activate = key[b].activate /\ a <= b)
      /\ key[b].activate < key[a].activate \/ (key[b].activate = key[a].activate /\ b <= a)
  BY DEF Newest
<1> QED BY <1>1, <1>2

\* What a promotion would retire is stored, unretired and older than the head.
LEMMA OutgoingFacts ==
  ASSUME TypeOK, NEW h \in Keys
  PROVE  /\ Outgoing(h) \in Keys \cup {0}
         /\ Outgoing(h) # 0 => /\ Outgoing(h) \in Stored(key)
                               /\ key[Outgoing(h)].retire = NEVER
                               /\ key[Outgoing(h)].activate < key[h].activate
<1> DEFINE S == Unretired(key) \ {h}
           N == Newest(key, S)
<1>1. S \in SUBSET Keys
  BY DEF Unretired, Stored
<1>2. CASE \E k \in N : key[k].activate < key[h].activate
  <2>1. PICK k \in N : key[k].activate < key[h].activate
    BY <1>2
  <2>2. Outgoing(h) = CHOOSE x \in N : TRUE
    BY <1>2 DEF Outgoing
  <2>3. (CHOOSE x \in N : TRUE) \in N
    BY <2>1
  <2>4. (CHOOSE x \in N : TRUE) = k
    <3> DEFINE c == CHOOSE x \in N : TRUE
    <3>1. c \in N
      BY <2>3
    <3> HIDE DEF c, S
    <3>2. c = k
      BY <1>1, <2>1, <3>1, NewestOne
    <3> QED BY <3>2 DEF c
  <2>5. k \in Unretired(key)
    BY <2>1 DEF Newest
  <2> QED BY <2>1, <2>2, <2>4, <2>5, KeyFacts DEF Unretired, Stored
<1>3. CASE ~ \E k \in N : key[k].activate < key[h].activate
  <2>1. Outgoing(h) = 0
    BY <1>3 DEF Outgoing
  <2> QED BY <2>1
<1> QED BY <1>2, <1>3

\* A job that has just listed: what it found is there, and what it would retire is
\* not retired, in the table or in any copy.
LEMMA ListingStep ==
  ASSUME IInv, TypeOK', NEW j \in Jobs, NEW t \in 0 .. now, NEW at \in Nat, t <= at,
         NEW h \in Keys, NEW pc, NEW out \in Keys \cup {0}, pc \in {"seed", "promote", "breakSeed"},
         out = 0 \/ out = Outgoing(h), pc = "promote" => out # 0,
         Listing(j, t, at, h, pc, out)
  PROVE  IInv'
<1>1. TypeOK /\ job \in [Jobs -> JobType] /\ now \in Nat /\ t \in Nat
  BY DEF IInv, TypeOK
<1>2. UNCHANGED <<now, key, entry, doc, lastExp, burnt, rushed>> /\ Scheduled' = Scheduled
  BY DEF Listing, Scheduled
<1>3. /\ \A i \in Jobs \ {j} : job'[i] = job[i]
      /\ job'[j].pc = pc /\ job'[j].read = t /\ job'[j].at = at
      /\ job'[j].head = h /\ job'[j].out = out
  BY <1>1 DEF Listing
<1>4. h \in Stored(key) /\ key[h].activate <= at
  BY DEF Listing, Head, Newest, Unretired
<1>5. out # 0 => /\ out \in Stored(key) /\ key[out].retire = NEVER
                 /\ key[out].activate < key[h].activate
  BY <1>1, OutgoingFacts
<1>6. t <= now /\ now <= t + MaxStall
  BY <1>1, Times DEF Listing
<1>7. JobShape(j)'
  BY <1>2, <1>3, <1>4, <1>5, <1>6 DEF JobShape, Stored
<1>8. OverlapShape(j)'
  <2> SUFFICES ASSUME out \in Scheduled
               PROVE  /\ RetiredSince(key[out], t)
                      /\ \A n \in Nodes : RetiredSince(entry[n].keys[out], t)
    BY <1>2, <1>3 DEF OverlapShape, RetiredSince
  <2>1. out \in Keys /\ key[out].retire = NEVER
    BY <1>5, KeyFacts DEF Scheduled
  <2>2. ASSUME NEW n \in Nodes PROVE entry[n].keys[out].retire = NEVER
    <3>1. CASE entry[n].at = NEVER
      BY <2>1, <3>1, NoEntryFacts, NoKeyFacts DEF IInv, EntryShape
    <3>2. CASE entry[n].at # NEVER
      BY <2>1, <3>2 DEF IInv, EntryShape, Behind
    <3> QED BY <3>1, <3>2
  <2> QED BY <2>1, <2>2 DEF RetiredSince
<1>9. ASSUME NEW i \in Jobs PROVE JobShape(i)' /\ OverlapShape(i)'
  BY <1>2, <1>3, <1>7, <1>8, JobUntouched
<1> QED BY <1>2, <1>9, JobsOnly

LEMMA ListForPassStep ==
  ASSUME IInv, TypeOK', NEW j \in Jobs, NEW t \in 0 .. now, ListForPass(j, t)
  PROVE  IInv'
<1>1. PICK at \in PassReading(t), h \in Keys :
        /\ Listing(j, t, at, h, IF SeedDue(h, at) THEN "seed" ELSE "promote", Outgoing(h))
        /\ SeedDue(h, at) \/ Outgoing(h) # 0
  BY DEF ListForPass
<1> DEFINE pc == IF SeedDue(h, at) THEN "seed" ELSE "promote"
           out == Outgoing(h)
<1>2. TypeOK /\ t \in Nat
  BY DEF IInv, TypeOK
<1>3. at \in Nat /\ t <= at
  BY <1>2, ScaleFacts DEF PassReading
<1>4. out \in Keys \cup {0}
  BY <1>2, OutgoingFacts
<1>5. pc \in {"seed", "promote", "breakSeed"} /\ (pc = "promote" => out # 0)
  BY <1>1
<1>6. Listing(j, t, at, h, pc, out) /\ out = Outgoing(h)
  BY <1>1
<1> HIDE DEF pc, out
<1> QED BY <1>3, <1>4, <1>5, <1>6, ListingStep

LEMMA ListForBreakStep ==
  ASSUME IInv, TypeOK', NEW j \in Jobs, NEW t \in 0 .. now, ListForBreak(j, t)
  PROVE  IInv'
<1>1. PICK h \in Keys : Listing(j, t, t * AdminScale, h, "breakSeed", 0)
  BY DEF ListForBreak
<1>2. TypeOK /\ t \in Nat
  BY DEF IInv, TypeOK
<1> DEFINE at == t * AdminScale
<1>3. at \in Nat /\ t <= at
  BY <1>2, ScaleFacts
<1>4. Listing(j, t, at, h, "breakSeed", 0)
  BY <1>1
<1> HIDE DEF at
<1> QED BY <1>3, <1>4, ListingStep

-----------------------------------------------------------------------------
(* The steps of the replicas, the relying parties and the clock.           *)

LEMMA TableFramed ==
  ASSUME TableShape, UNCHANGED <<key, burnt, rushed>>
  PROVE  TableShape' /\ Scheduled' = Scheduled
BY DEF TableShape, Stored, Relieved, Follows, Timed, Scheduled

LEMMA LoadStep ==
  ASSUME IInv, TypeOK', NEW n \in Nodes, Load(n)
  PROVE  IInv'
<1>1. TypeOK /\ entry \in [Nodes -> EntryType] /\ now \in Nat
  BY DEF IInv, TypeOK
<1>2. UNCHANGED <<now, key, job, doc, lastExp, burnt, rushed>>
  BY DEF Load
<1>3. TableShape' /\ Scheduled' = Scheduled
  BY <1>2, TableFramed DEF IInv
<1>4. /\ \A m \in Nodes \ {n} : entry'[m] = entry[m]
      /\ entry'[n].at = now /\ entry'[n].keys = key
  BY <1>1 DEF Load
<1>5. ASSUME NEW m \in Nodes PROVE EntryShape(m)'
  <2>1. CASE m # n
    BY <1>2, <1>3, <1>4, <2>1 DEF IInv, EntryShape, Behind, MissesLittle, Timed
  <2>2. CASE m = n
    <3>1. now # NEVER /\ now <= now /\ now < now + EntryTtl
      BY <1>1, Never, Times
    <3>2. \A k \in Keys : Behind(key[k], key[k])
      BY DEF Behind
    <3>3. \A k \in Scheduled : MissesLittle(key[k], key[k], now)
      BY DEF MissesLittle, IInv, TableShape
    <3>4. /\ \A k \in Keys : Behind(entry[n].keys[k], key[k])'
          /\ \A k \in Scheduled : MissesLittle(entry[n].keys[k], key[k], entry[n].at)'
      BY <1>2, <1>4, <3>2, <3>3 DEF Behind, MissesLittle, Timed
    <3> QED BY <1>2, <1>3, <1>4, <2>2, <3>1, <3>4 DEF EntryShape
  <2> QED BY <2>1, <2>2
<1>6. ASSUME NEW i \in Jobs PROVE JobShape(i)' /\ OverlapShape(i)'
  <2>1. JobShape(i)'
    BY <1>2, <1>6 DEF IInv, JobShape, Relieved, Follows, Stored
  <2>2. OverlapShape(i)'
    BY <1>2, <1>3, <1>4, <1>6 DEF IInv, OverlapShape, RetiredSince
  <2> QED BY <2>1, <2>2
<1>7. \A k \in Keys : TokenShape(k)'
  BY <1>2, <1>3 DEF IInv, TokenShape
<1>8. \A r \in Parties : DocShape(r)'
  BY <1>2, <1>3 DEF IInv, DocShape, MissedSafely
<1> QED BY <1>3, <1>5, <1>6, <1>7, <1>8 DEF IInv

LEMMA SignStep ==
  ASSUME IInv, TypeOK', NEW n \in Nodes, Sign(n)
  PROVE  IInv'
<1>1. TypeOK /\ lastExp \in [Keys -> Nat] /\ now \in Nat
  BY DEF IInv, TypeOK
<1>2. UNCHANGED <<now, key, job, entry, doc, burnt, rushed>>
  BY DEF Sign
<1>3. TableShape' /\ Scheduled' = Scheduled
  BY <1>2, TableFramed DEF IInv
<1>4. PICK k \in Signer(entry[n].keys, now) :
        lastExp' = [lastExp EXCEPT ![k] = Later(@, now + Lifetime)]
  BY DEF Sign
<1> DEFINE c == entry[n].keys[k]
<1>5. /\ k \in Keys /\ c.st = "stored" /\ c.activate <= now
      /\ c.retire = NEVER \/ now < c.retire
  BY <1>4 DEF Signer, Newest, Stored
<1>6. /\ entry[n].at # NEVER /\ entry[n].at \in Nat /\ now < entry[n].at + EntryTtl
      /\ Behind(c, key[k])
      /\ k \in Scheduled => MissesLittle(c, key[k], entry[n].at)
  BY <1>1, <1>5, StateFacts, EntryFacts DEF IInv, EntryShape, Sign
<1>7. /\ key[k].retire \in Int /\ key[k].expire \in Int /\ c.retire \in Int
      /\ lastExp[k] \in Nat /\ now + Lifetime \in Nat
  BY <1>1, <1>5, StateFacts, RowFacts, Times
<1>8. /\ lastExp'[k] = Later(lastExp[k], now + Lifetime)
      /\ \A b \in Keys \ {k} : lastExp'[b] = lastExp[b]
  BY <1>1, <1>4, <1>5
<1>9. lastExp'[k] = lastExp[k] \/ lastExp'[k] = now + Lifetime
  BY <1>7, <1>8, LaterFacts
<1>10. TokenShape(k)
  BY <1>5 DEF IInv
<1>11. k \in Scheduled /\ key[k].retire # NEVER => now + Lifetime <= key[k].expire
  <2> SUFFICES ASSUME k \in Scheduled, key[k].retire # NEVER
               PROVE  now + Lifetime <= key[k].expire
    OBVIOUS
  <2>1. c.retire = key[k].retire \/ entry[n].at + EntryTtl + Lifetime <= key[k].expire
    BY <1>6 DEF MissesLittle
  <2>2. key[k].expire = key[k].retire + Lifetime + Buffer
    BY DEF IInv, TableShape, Timed
  <2> QED BY <1>1, <1>5, <1>6, <1>7, <2>1, <2>2, Times
<1>12. TokenShape(k)'
  <2>1. key[k].st = "stored" /\ key[k].activate <= now
    BY <1>5, <1>6 DEF Behind
  <2> HIDE DEF c
  <2>2. lastExp'[k] <= now + Lifetime
    BY <1>9, <1>10, <1>7 DEF TokenShape
  <2>3. k \in Scheduled /\ key[k].retire # NEVER => lastExp'[k] <= key[k].expire
    BY <1>9, <1>10, <1>11 DEF TokenShape
  <2> QED BY <1>2, <1>3, <2>1, <2>2, <2>3 DEF TokenShape
<1>13. ASSUME NEW b \in Keys PROVE TokenShape(b)'
  BY <1>2, <1>3, <1>8, <1>12 DEF IInv, TokenShape
<1>14. \A i \in Jobs : JobShape(i)' /\ OverlapShape(i)'
  BY <1>2, JobUntouched
<1>15. ASSUME NEW m \in Nodes PROVE EntryShape(m)'
  BY <1>2, <1>3, <1>15 DEF IInv, EntryShape, Behind, MissesLittle, Timed
<1>16. \A r \in Parties : DocShape(r)'
  BY <1>2, <1>3 DEF IInv, DocShape, MissedSafely
<1> QED BY <1>3, <1>13, <1>14, <1>15, <1>16 DEF IInv

LEMMA FetchStep ==
  ASSUME IInv, TypeOK', NEW n \in Nodes, NEW r \in Parties, Fetch(r, n)
  PROVE  IInv'
<1>1. TypeOK /\ doc \in [Parties -> DocType] /\ now \in Nat
  BY DEF IInv, TypeOK
<1>2. UNCHANGED <<now, key, job, entry, lastExp, burnt, rushed>>
  BY DEF Fetch
<1>3. TableShape' /\ Scheduled' = Scheduled
  BY <1>2, TableFramed DEF IInv
<1>4. /\ \A q \in Parties \ {r} : doc'[q] = doc[q]
      /\ doc'[r].at = now /\ doc'[r].keys = Published(entry[n].keys, now)
  BY <1>1 DEF Fetch
<1>5. ASSUME NEW k \in Scheduled, k \notin Published(entry[n].keys, now)
      PROVE  MissedSafely(key[k], now)
  <2> DEFINE c == entry[n].keys[k]
  <2>1. /\ k \in Keys /\ entry[n].at # NEVER /\ entry[n].at \in Nat
        /\ entry[n].at <= now /\ now < entry[n].at + EntryTtl
        /\ Behind(c, key[k]) /\ MissesLittle(c, key[k], entry[n].at) /\ Timed(key[k])
    BY <1>1, <1>5, StateFacts, EntryFacts DEF IInv, EntryShape, Fetch, Scheduled, TableShape
  <2>2. c \in RowType /\ key[k] \in RowType
    BY <1>1, <2>1, StateFacts
  <2>3. /\ c.publish \in Nat /\ c.activate \in Nat /\ c.expire \in Int
        /\ key[k].activate \in Nat /\ key[k].expire \in Int /\ key[k].st \in {"absent", "stored"}
    BY <2>2, RowFacts
  <2>4. \/ c.st # "stored" \/ c.publish > now
        \/ c.expire # NEVER /\ c.expire <= now
    BY <1>1, <1>5, <2>1, <2>3 DEF Published, Stored
  <2> HIDE DEF c
  <2>5. CASE c.st # "stored"
    BY <1>1, <2>1, <2>3, <2>5, Times DEF MissesLittle, MissedSafely
  <2>6. CASE c.st = "stored" /\ c.publish > now
    <3>1. c.activate = c.publish + Lead /\ c.activate = key[k].activate
      BY <1>1, <2>1, <2>3, <2>6 DEF MissesLittle, Timed, Behind
    <3> QED BY <1>1, <2>3, <2>6, <3>1, Times DEF MissedSafely
  <2>7. CASE c.expire # NEVER /\ c.expire <= now
    <3>1. c.retire # NEVER /\ c.expire = c.retire + Lifetime + Buffer
      BY <2>1, <2>7 DEF MissesLittle, Timed
    <3>2. c.retire = key[k].retire
      BY <1>1, <2>1, <2>3, <2>7, <3>1, Times DEF MissesLittle
    <3>3. key[k].expire = c.expire
      BY <2>1, <3>1, <3>2 DEF Timed
    <3> QED BY <2>7, <3>1, <3>2, <3>3 DEF MissedSafely
  <2> QED BY <2>4, <2>5, <2>6, <2>7
<1>6. ASSUME NEW q \in Parties PROVE DocShape(q)'
  <2>1. CASE q # r
    BY <1>2, <1>3, <1>4, <2>1 DEF IInv, DocShape, MissedSafely
  <2>2. CASE q = r
    <3>1. now # NEVER /\ now <= now /\ now < now + CacheTtl
      BY <1>1, Never, Times
    <3>2. \A k \in Scheduled' : k \notin doc'[r].keys => MissedSafely(key[k], doc[r].at)'
      BY <1>2, <1>3, <1>4, <1>5 DEF MissedSafely
    <3> QED BY <1>2, <1>4, <2>2, <3>1, <3>2 DEF DocShape
  <2> QED BY <2>1, <2>2
<1>7. \A i \in Jobs : JobShape(i)' /\ OverlapShape(i)'
  BY <1>2, JobUntouched
<1>8. ASSUME NEW m \in Nodes PROVE EntryShape(m)'
  BY <1>2, <1>3, <1>8 DEF IInv, EntryShape, Behind, MissesLittle, Timed
<1>9. \A k \in Keys : TokenShape(k)'
  BY <1>2, <1>3 DEF IInv, TokenShape
<1> QED BY <1>3, <1>6, <1>7, <1>8, <1>9 DEF IInv

LEMMA TickStep ==
  ASSUME IInv, TypeOK', Tick
  PROVE  IInv'
<1>1. TypeOK /\ now \in Nat /\ now' = now + 1
  BY DEF IInv, TypeOK, Tick
<1>2. UNCHANGED <<key, job, burnt, rushed>>
  BY DEF Tick
<1>3. TableShape' /\ Scheduled' = Scheduled
  BY <1>2, TableFramed DEF IInv
<1>4. ASSUME NEW n \in Nodes
      PROVE  \/ entry'[n] = NoEntry
             \/ entry'[n] = entry[n] /\ entry[n].at # NEVER /\ now + 1 - entry[n].at < EntryTtl
  <2>1. entry'[n] = IF entry[n].at # NEVER /\ Fresh(entry[n].at, now + 1)
                    THEN entry[n] ELSE NoEntry
    BY DEF Tick
  <2>2. CASE entry[n].at # NEVER /\ Fresh(entry[n].at, now + 1)
    <3>1. entry'[n] = entry[n]
      BY <2>1, <2>2
    <3>2. entry[n].at \in Int /\ now + 1 - entry[n].at = (now + 1) - entry[n].at
      BY <1>1, StateFacts, EntryFacts
    <3> QED BY <2>2, <3>1, <3>2 DEF Fresh
  <2>3. CASE ~(entry[n].at # NEVER /\ Fresh(entry[n].at, now + 1))
    BY <2>1, <2>3
  <2> QED BY <2>2, <2>3
<1>5. ASSUME NEW n \in Nodes PROVE EntryShape(n)'
  <2>1. CASE entry'[n] = NoEntry
    BY <2>1, NoEntryFacts DEF EntryShape
  <2>2. CASE entry'[n] = entry[n] /\ entry[n].at # NEVER /\ now + 1 - entry[n].at < EntryTtl
    <3>1. entry[n].at \in Nat /\ entry[n].at <= now
      BY <1>1, <2>2, StateFacts, EntryFacts DEF IInv, EntryShape
    <3>2. entry[n].at <= now + 1 /\ now + 1 < entry[n].at + EntryTtl
      BY <1>1, <2>2, <3>1, Times
    <3> QED BY <1>1, <1>2, <1>3, <2>2, <3>2 DEF IInv, EntryShape, Behind, MissesLittle, Timed
  <2> QED BY <1>4, <2>1, <2>2
<1>6. ASSUME NEW i \in Jobs PROVE JobShape(i)'
  <2> SUFFICES ASSUME job[i].pc # "idle" PROVE JobShape(i)'
    BY <1>2 DEF JobShape
  <2>1. JobShape(i) /\ job[i].read \in Nat /\ now - job[i].read < MaxStall
    BY <1>1, StateFacts, JobFacts DEF IInv, Tick
  <2>2. job[i].read <= now + 1 /\ now + 1 <= job[i].read + MaxStall
    BY <1>1, <2>1, Times DEF JobShape
  <2> QED BY <1>1, <1>2, <2>1, <2>2 DEF JobShape, Relieved, Follows, Stored
<1>7. ASSUME NEW i \in Jobs PROVE OverlapShape(i)'
  <2> SUFFICES ASSUME job[i].pc # "idle", job[i].out \in Scheduled
               PROVE  /\ RetiredSince(key[job[i].out], job[i].read)
                      /\ \A n \in Nodes : RetiredSince(entry'[n].keys[job[i].out], job[i].read)
    BY <1>2, <1>3 DEF OverlapShape, RetiredSince
  <2>1. /\ RetiredSince(key[job[i].out], job[i].read)
        /\ \A n \in Nodes : RetiredSince(entry[n].keys[job[i].out], job[i].read)
    BY DEF IInv, OverlapShape
  <2>2. ASSUME NEW n \in Nodes PROVE RetiredSince(entry'[n].keys[job[i].out], job[i].read)
    <3>1. CASE entry'[n] = NoEntry
      BY <3>1, NoEntryFacts, NoKeyFacts DEF RetiredSince, Scheduled
    <3>2. CASE entry'[n] = entry[n]
      BY <2>1, <3>2
    <3> QED BY <1>4, <3>1, <3>2
  <2> QED BY <2>1, <2>2
<1>8. ASSUME NEW k \in Keys PROVE TokenShape(k)'
  <2>1. /\ TokenShape(k) /\ lastExp[k] \in Nat
        /\ key[k].activate \in Nat /\ key[k].expire \in Int
        /\ key[k].retire # NEVER => key[k].retire \in Nat
    BY <1>1, StateFacts, RowFacts DEF IInv
  <2>2. lastExp'[k] = lastExp[k] \/ lastExp'[k] = 0
    BY DEF Tick
  <2>3. k \in Scheduled /\ key[k].retire # NEVER => 0 <= key[k].expire
    BY <2>1, Times DEF IInv, TableShape, Timed
  <2>4. lastExp'[k] <= now + 1 + Lifetime
    BY <1>1, <2>1, <2>2, Times DEF TokenShape
  <2>5. lastExp'[k] > 0 => key[k].st = "stored" /\ key[k].activate <= now + 1
    BY <1>1, <2>1, <2>2 DEF TokenShape
  <2>6. k \in Scheduled /\ key[k].retire # NEVER => lastExp'[k] <= key[k].expire
    BY <2>1, <2>2, <2>3 DEF TokenShape
  <2> QED BY <1>1, <1>2, <1>3, <2>4, <2>5, <2>6 DEF TokenShape
<1>9. ASSUME NEW r \in Parties PROVE DocShape(r)'
  <2>1. \/ doc'[r] = NoDoc
        \/ doc'[r] = doc[r] /\ doc[r].at # NEVER /\ now + 1 - doc[r].at < CacheTtl
    BY DEF Tick
  <2>2. CASE doc'[r] = NoDoc
    BY <2>2, NoDocFacts DEF DocShape
  <2>3. CASE doc'[r] = doc[r] /\ doc[r].at # NEVER /\ now + 1 - doc[r].at < CacheTtl
    <3>1. doc[r].at \in Nat /\ doc[r].at <= now
      BY <1>1, <2>3, StateFacts, DocFacts DEF IInv, DocShape
    <3>2. doc[r].at <= now + 1 /\ now + 1 < doc[r].at + CacheTtl
      BY <1>1, <2>3, <3>1, Times
    <3>3. ASSUME NEW k \in Scheduled, k \notin doc[r].keys
          PROVE  MissedSafely(key[k], doc[r].at)'
      <4>1. MissedSafely(key[k], doc[r].at) /\ key[k].expire \in Int
        BY <1>1, <2>3, <3>3, StateFacts, RowFacts DEF IInv, DocShape, Scheduled
      <4> QED BY <1>1, <1>2, <2>3, <4>1 DEF MissedSafely
    <3> QED BY <1>1, <1>3, <2>3, <3>2, <3>3 DEF DocShape
  <2> QED BY <2>1, <2>2, <2>3
<1> QED BY <1>3, <1>5, <1>6, <1>7, <1>8, <1>9 DEF IInv

-----------------------------------------------------------------------------
(* The theorems.                                                           *)

LEMMA InitHolds == Init => IInv
<1> SUFFICES ASSUME Init PROVE IInv
  OBVIOUS
<1> DEFINE row == NewKey(0, 0)
<1>1. /\ row \in RowType /\ row.st = "stored" /\ row.publish = 0 /\ row.activate = 0
      /\ row.retire = NEVER /\ row.expire = NEVER
  BY NewKeyFacts
<1> HIDE DEF row
<1>2. key = [k \in Keys |-> IF k = 1 THEN row ELSE NoKey]
  BY DEF Init, row
<1>3. TypeOK
  <2>1. key \in [Keys -> RowType]
    BY <1>1, <1>2, NoKeyFacts
  <2> QED BY <2>1, NoJobFacts, NoEntryFacts, NoDocFacts DEF Init, TypeOK
<1>4. key[1] = row /\ \A k \in Keys : k # 1 => key[k] = NoKey
  BY <1>2, KeyFacts
<1>5. TableShape
  <2>1. Stored(key) = 1 .. 1
    BY <1>1, <1>4, KeyFacts, NoKeyFacts DEF Stored
  <2>2. \A k \in Keys : key[k].retire = NEVER /\ Timed(key[k])
    BY <1>1, <1>4, NoKeyFacts DEF Timed
  <2> QED BY <1>1, <1>4, <2>1, <2>2, KeyFacts, StoredFacts DEF TableShape, Scheduled
<1>6. \A j \in Jobs : JobShape(j) /\ OverlapShape(j)
  BY NoJobFacts DEF Init, JobShape, OverlapShape
<1>7. \A n \in Nodes : EntryShape(n)
  BY NoEntryFacts DEF Init, EntryShape
<1>8. \A k \in Keys : TokenShape(k)
  <2> SUFFICES ASSUME NEW k \in Keys PROVE TokenShape(k)
    OBVIOUS
  <2>1. key[k].retire = NEVER
    BY <1>1, <1>4, NoKeyFacts
  <2>2. lastExp[k] = 0 /\ now = 0
    BY DEF Init
  <2> QED BY <2>1, <2>2, Times DEF TokenShape
<1>9. \A r \in Parties : DocShape(r)
  BY NoDocFacts DEF Init, DocShape
<1> QED BY <1>3, <1>5, <1>6, <1>7, <1>8, <1>9 DEF IInv

LEMMA JobTypeKept ==
  ASSUME TypeOK, NEW j \in Jobs, NEW r \in JobType, job' = [job EXCEPT ![j] = r]
  PROVE  job' \in [Jobs -> JobType]
BY DEF TypeOK

LEMMA ListingType ==
  ASSUME TypeOK, NEW j \in Jobs, NEW t \in Nat, NEW at \in Nat, NEW h \in Keys, NEW pc,
         NEW out \in Keys \cup {0}, pc \in {"seed", "promote", "breakSeed"},
         Listing(j, t, at, h, pc, out)
  PROVE  job' \in [Jobs -> JobType]
<1> DEFINE r == [pc |-> pc, read |-> t, at |-> at, head |-> h, out |-> out]
<1>1. r \in JobType
  BY DEF JobType
<1>2. job' = [job EXCEPT ![j] = r]
  BY DEF Listing
<1> HIDE DEF r
<1> QED BY <1>1, <1>2, JobTypeKept

\* The table is well typed after a job's write.
LEMMA JobTypeStep ==
  ASSUME IInv, NEW j \in Jobs,
         \/ Seed(j) \/ Promote(j) \/ BreakSeed(j) \/ BreakWithdraw(j) \/ Abandon(j)
  PROVE  TypeOK'
<1>1. TypeOK /\ TableShape /\ job[j] \in JobType
  BY StateFacts DEF IInv
<1>2. job[j].read \in Nat /\ job[j].at \in Nat /\ now \in Nat
  BY <1>1, JobFacts DEF TypeOK
<1>3. CASE Seed(j)
  <2>1. PICK t \in job[j].read .. now, k \in Keys :
          Insert(k, NewKey(Activation(j, Later(job[j].at, t)) - Lead,
                           Activation(j, Later(job[j].at, t))))
    BY <1>3 DEF Seed
  <2> DEFINE x == key[job[j].head].activate + Cadence
             y == Later(job[j].at, t) + Lead
             a == Later(x, y)
  <2>0. t \in Nat
    BY <1>2
  <2>2. t \in Nat /\ Later(job[j].at, t) \in Nat
    BY <1>2, <2>0, LaterFacts
  <2>3. job[j].head \in Keys
    BY <1>3, StoredFacts DEF Seed, IInv, JobShape
  <2>4. x \in Nat /\ y \in Nat
    BY <1>1, <2>2, <2>3, StateFacts, RowFacts, Times
  <2>5. Insert(k, NewKey(a - Lead, a))
    BY <2>1 DEF Activation
  <2>6. y >= Lead
    BY <2>2, Times
  <2> HIDE DEF x, y
  <2>7. a \in Nat /\ a >= Lead
    BY <2>4, <2>6, LaterFacts, Times
  <2> HIDE DEF a
  <2>8. NewKey(a - Lead, a) \in RowType
    BY <2>7, NewKeyFacts, Times
  <2>9. key' \in [Keys -> RowType]
    BY <1>1, <2>5, <2>8 DEF Insert, TypeOK
  <2> DEFINE r == IF job[j].out = 0 THEN NoJob ELSE [job[j] EXCEPT !.pc = "promote"]
  <2>10. r \in JobType
    BY <1>1, NoJobFacts DEF JobType
  <2>11. job' = [job EXCEPT ![j] = r]
    BY <1>1, <1>3 DEF Seed, TypeOK
  <2> HIDE DEF r
  <2>12. job' \in [Jobs -> JobType]
    BY <1>1, <2>10, <2>11, JobTypeKept
  <2> QED BY <1>1, <1>3, <2>9, <2>12 DEF Seed, TypeOK
<1>4. CASE Promote(j)
  <2>1. job[j].out \in Keys
    BY <1>4, StoredFacts DEF Promote, IInv, JobShape
  <2> DEFINE e == job[j].at + Lifetime + Buffer
  <2>2. e \in Nat /\ key' = Withdrawn(job[j].out, job[j].at, e)
    BY <1>2, <1>4, Times DEF Promote
  <2> HIDE DEF e
  <2>3. Grown
    BY <1>1, <1>2, <2>1, <2>2, WithdrawEffect
  <2>4. job' \in [Jobs -> JobType]
    BY <1>1, <1>4, NoJobFacts, JobTypeKept DEF Promote
  <2> QED BY <1>1, <1>4, <2>3, <2>4 DEF Promote, TypeOK, Grown
<1>5. CASE BreakSeed(j)
  <2>1. PICK k \in Keys : Insert(k, NewKey(job[j].at, job[j].at)) /\ rushed' = rushed \cup {k}
    BY <1>5 DEF BreakSeed
  <2>2. NewKey(job[j].at, job[j].at) \in RowType
    BY <1>2, NewKeyFacts
  <2>3. key' \in [Keys -> RowType]
    BY <1>1, <2>1, <2>2 DEF Insert, TypeOK
  <2> DEFINE r == [job[j] EXCEPT !.pc = "breakWithdraw"]
  <2>4. r \in JobType
    BY <1>1 DEF JobType
  <2>5. job' = [job EXCEPT ![j] = r]
    BY <1>1, <1>5 DEF BreakSeed, TypeOK
  <2> HIDE DEF r
  <2>6. job' \in [Jobs -> JobType]
    BY <1>1, <2>4, <2>5, JobTypeKept
  <2> QED BY <1>1, <1>5, <2>1, <2>3, <2>6 DEF BreakSeed, TypeOK
<1>6. CASE BreakWithdraw(j)
  <2>1. job[j].head \in Keys
    BY <1>6, StoredFacts DEF BreakWithdraw, IInv, JobShape
  <2>2. Grown
    BY <1>1, <1>2, <1>6, <2>1, WithdrawEffect DEF BreakWithdraw
  <2>3. job' \in [Jobs -> JobType]
    BY <1>1, <1>6, NoJobFacts, JobTypeKept DEF BreakWithdraw
  <2> QED BY <1>1, <1>6, <2>1, <2>2, <2>3 DEF BreakWithdraw, TypeOK, Grown
<1>7. CASE Abandon(j)
  <2>1. job' \in [Jobs -> JobType]
    BY <1>1, <1>7, NoJobFacts, JobTypeKept DEF Abandon
  <2> QED BY <1>1, <1>7, <2>1 DEF Abandon, TypeOK
<1> QED BY <1>3, <1>4, <1>5, <1>6, <1>7

LEMMA ListTypeStep ==
  ASSUME IInv, NEW j \in Jobs, NEW t \in 0 .. now, ListForPass(j, t) \/ ListForBreak(j, t)
  PROVE  TypeOK'
<1>1. TypeOK /\ t \in Nat /\ breaks \in Nat
  BY DEF IInv, TypeOK
<1>2. CASE ListForPass(j, t)
  <2>1. PICK at \in PassReading(t), h \in Keys :
          Listing(j, t, at, h, IF SeedDue(h, at) THEN "seed" ELSE "promote", Outgoing(h))
    BY <1>2 DEF ListForPass
  <2>2. at \in Nat
    BY <1>1, ScaleFacts DEF PassReading
  <2> DEFINE pc == IF SeedDue(h, at) THEN "seed" ELSE "promote"
             out == Outgoing(h)
  <2>3. out \in Keys \cup {0} /\ pc \in {"seed", "promote", "breakSeed"}
    BY <1>1, OutgoingFacts
  <2>4. Listing(j, t, at, h, pc, out)
    BY <2>1
  <2> HIDE DEF pc, out
  <2>5. job' \in [Jobs -> JobType]
    BY <1>1, <2>2, <2>3, <2>4, ListingType
  <2>6. UNCHANGED <<now, key, entry, doc, lastExp, burnt, rushed, breaks>>
    BY <1>2, <2>4 DEF Listing, ListForPass
  <2> QED BY <1>1, <2>5, <2>6 DEF TypeOK
<1>3. CASE ListForBreak(j, t)
  <2>1. PICK h \in Keys : Listing(j, t, t * AdminScale, h, "breakSeed", 0)
    BY <1>3 DEF ListForBreak
  <2> DEFINE at == t * AdminScale
  <2>2. at \in Nat
    BY <1>1, ScaleFacts
  <2>3. Listing(j, t, at, h, "breakSeed", 0)
    BY <2>1
  <2> HIDE DEF at
  <2>4. job' \in [Jobs -> JobType]
    BY <1>1, <2>2, <2>3, ListingType
  <2>5. UNCHANGED <<now, key, entry, doc, lastExp, burnt, rushed>> /\ breaks' \in Nat
    BY <1>1, <1>3, <2>3 DEF Listing, ListForBreak
  <2> QED BY <1>1, <2>4, <2>5 DEF TypeOK
<1> QED BY <1>2, <1>3

LEMMA ServeTypeStep ==
  ASSUME IInv, (\E n \in Nodes : Load(n) \/ Sign(n) \/ \E r \in Parties : Fetch(r, n)) \/ Tick
  PROVE  TypeOK'
<1>1. TypeOK /\ now \in Nat
  BY DEF IInv, TypeOK
<1>2. ASSUME NEW n \in Nodes, Load(n) PROVE TypeOK'
  <2> DEFINE e == [at |-> now, keys |-> key]
  <2>1. e \in EntryType
    BY <1>1 DEF TypeOK, EntryType, Instants
  <2>2. entry' = [entry EXCEPT ![n] = e]
    BY <1>2 DEF Load
  <2> HIDE DEF e
  <2>3. entry' \in [Nodes -> EntryType]
    BY <1>1, <2>1, <2>2 DEF TypeOK
  <2> QED BY <1>1, <1>2, <2>3 DEF Load, TypeOK
<1>3. ASSUME NEW n \in Nodes, Sign(n) PROVE TypeOK'
  <2>1. PICK k \in Signer(entry[n].keys, now) :
          lastExp' = [lastExp EXCEPT ![k] = Later(@, now + Lifetime)]
    BY <1>3 DEF Sign
  <2>2. k \in Keys /\ lastExp[k] \in Nat /\ now + Lifetime \in Nat
    BY <1>1, <2>1, StateFacts, Times DEF Signer, Newest, Stored
  <2>3. lastExp' \in [Keys -> Nat]
    BY <1>1, <2>1, <2>2, LaterFacts DEF TypeOK
  <2> QED BY <1>1, <1>3, <2>3 DEF Sign, TypeOK
<1>4. ASSUME NEW n \in Nodes, NEW r \in Parties, Fetch(r, n) PROVE TypeOK'
  <2> DEFINE d == [at |-> now, keys |-> Published(entry[n].keys, now)]
  <2>1. d \in DocType
    BY <1>1 DEF DocType, Instants, Published, Stored
  <2>2. doc' = [doc EXCEPT ![r] = d]
    BY <1>4 DEF Fetch
  <2> HIDE DEF d
  <2>3. doc' \in [Parties -> DocType]
    BY <1>1, <2>1, <2>2 DEF TypeOK
  <2> QED BY <1>1, <1>4, <2>3 DEF Fetch, TypeOK
<1>5. CASE Tick
  <2>1. entry' \in [Nodes -> EntryType]
    BY <1>1, <1>5, NoEntryFacts DEF Tick, TypeOK
  <2>2. doc' \in [Parties -> DocType]
    BY <1>1, <1>5, NoDocFacts DEF Tick, TypeOK
  <2>3. lastExp' \in [Keys -> Nat]
    BY <1>1, <1>5 DEF Tick, TypeOK
  <2> QED BY <1>1, <1>5, <2>1, <2>2, <2>3 DEF Tick, TypeOK
<1> QED BY <1>2, <1>3, <1>4, <1>5

LEMMA StepHolds == IInv /\ [Next]_vars => IInv'
<1> SUFFICES ASSUME IInv, [Next]_vars PROVE IInv'
  OBVIOUS
<1>1. ASSUME NEW j \in Jobs,
             Seed(j) \/ Promote(j) \/ BreakSeed(j) \/ BreakWithdraw(j) \/ Abandon(j)
      PROVE  IInv'
  <2>1. TypeOK'
    BY <1>1, JobTypeStep
  <2> QED BY <1>1, <2>1, SeedStep, PromoteStep, BreakSeedStep, BreakWithdrawStep, AbandonStep
<1>2. ASSUME NEW j \in Jobs, NEW t \in 0 .. now, ListForPass(j, t) \/ ListForBreak(j, t)
      PROVE  IInv'
  <2>1. TypeOK'
    BY <1>2, ListTypeStep
  <2> QED BY <1>2, <2>1, ListForPassStep, ListForBreakStep
<1>3. ASSUME NEW n \in Nodes, Load(n) \/ Sign(n) \/ \E r \in Parties : Fetch(r, n)
      PROVE  IInv'
  <2>1. TypeOK'
    BY <1>3, ServeTypeStep
  <2> QED BY <1>3, <2>1, LoadStep, SignStep, FetchStep
<1>4. CASE Tick
  BY <1>4, ServeTypeStep, TickStep
<1>5. CASE UNCHANGED vars
  <2>1. TypeOK'
    BY <1>5 DEF IInv, TypeOK, vars
  <2>2. UNCHANGED <<now, key, entry, doc, lastExp, burnt, rushed, job>>
    BY <1>5 DEF vars
  <2>3. \A i \in Jobs : JobShape(i)' /\ OverlapShape(i)'
    BY <2>2, JobUntouched
  <2> QED BY <2>1, <2>2, <2>3, JobsOnly
<1> QED BY <1>1, <1>2, <1>3, <1>4, <1>5 DEF Next

LEMMA Invariance == Spec => []IInv
BY InitHolds, StepHolds, PTL DEF Spec

\* Every reachable state of the rotation is well typed: no write leaves the table, and
\* no activation is planned before its own pre-publication.
THEOREM TypeCorrect == Spec => []TypeOK
<1>1. IInv => TypeOK
  BY DEF IInv
<1> QED BY <1>1, Invariance, PTL

\* However many timers, operators and replicas there are and however their steps
\* overlap, a relying party can verify every live token of a scheduled key
\* (seed_successor, promote, published_keys and the bounded caches).
THEOREM AlwaysVerifiable == Spec => []TokensVerifiable
<1>1. IInv => TokensVerifiable
  BY VerifiableFromInv
<1> QED BY <1>1, Invariance, PTL

\* The environment always has a signer: whoever retires a key has seen a newer one
\* active (advance, promote and break_glass).
THEOREM AlwaysSigner == Spec => []SignerAlways
<1>1. IInv => SignerAlways
  BY SignerFromInv
<1> QED BY <1>1, Invariance, PTL
=============================================================================
