---------------------------- MODULE SigningKeys ----------------------------
(***************************************************************************)
(* The rotation of one environment's signing keys, for one algorithm: the  *)
(* table signing_keys, the passes of the rotation timer (one timer per     *)
(* replica, without a leader), the operator's advance and break-glass      *)
(* calls, the replicas that sign and publish from a cached copy of the     *)
(* table, and the relying parties that cache what was published.           *)
(*                                                                         *)
(* A pass reads the clock, lists the keys, decides, and then writes        *)
(* statement by statement; nothing it writes is compared with what it      *)
(* listed.  The rows of the audit trail are left out.                      *)
(***************************************************************************)
EXTENDS Integers, FiniteSets

CONSTANTS
  Jobs,        \* passes and operator calls that can be under way at once
  Nodes,       \* replicas that sign and serve the JWKS
  Parties,     \* relying parties
  Cadence,     \* RotationPolicy.cadence_secs
  Lead,        \* RotationPolicy.pre_publication_secs
  Lifetime,    \* max_token_lifetime_secs, and the lifetime of a token
  Buffer,      \* RotationPolicy.retirement_buffer_secs
  EntryTtl,    \* IssuerRegistry.entry_ttl
  CacheTtl,    \* JwksCacheWindow.max_age
  AdminScale,  \* what the management surface multiplies its microseconds by
  MaxStall,    \* bound: the age of the reading a job works with
  MaxKeys,     \* bound: keys ever provisioned
  MaxBreaks,   \* bound: break-glass calls
  MaxTime      \* bound: the clock's last value

NEVER == -1                    \* SQL NULL in retire_at and expire_at
Keys == 1 .. MaxKeys           \* in the order of created_at

ASSUME TimesAssumption ==
  /\ Cadence \in Nat /\ Lead \in Nat /\ Lifetime \in Nat /\ Buffer \in Nat
  /\ EntryTtl \in Nat \ {0} /\ CacheTtl \in Nat \ {0} /\ AdminScale \in Nat \ {0}
  /\ MaxStall \in Nat /\ MaxKeys \in Nat \ {0} /\ MaxBreaks \in Nat /\ MaxTime \in Nat

\* What the configuration's comments ask of pre_publication_secs (cache TTL and
\* head-room), what its validation asks of the cadence, and a retirement buffer
\* that covers the staleness of an entry and of a reading, or of two readings with
\* the token lifetime (the defaults: a day against fifteen minutes).
ASSUME PolicyAssumption ==
  /\ Lead >= CacheTtl + EntryTtl + MaxStall /\ Lead < Cadence
  /\ Buffer >= EntryTtl + MaxStall
  /\ Lifetime + Buffer >= EntryTtl + MaxStall + MaxStall

VARIABLES
  now,       \* the clock
  key,       \* the table signing_keys
  job,       \* passes and operator calls under way
  entry,     \* entry[n]: the issuer entry node n has cached
  doc,       \* doc[r]: the JWKS document r has cached
  breaks,    \* break-glass calls so far
  lastExp,   \* history: the latest expiry of a token signed with a key, 0 if none is alive
  burnt,     \* history: keys a break-glass call has withdrawn
  rushed     \* history: keys a break-glass call has seeded

vars == <<now, key, job, entry, doc, breaks, lastExp, burnt, rushed>>

NoKey == [st |-> "absent", publish |-> 0, activate |-> 0, retire |-> NEVER, expire |-> NEVER]
NoJob == [pc |-> "idle", read |-> 0, at |-> 0, head |-> 0, out |-> 0]

\* An entry or a document that is missing, or stale and therefore never served.
NoEntry == [at |-> NEVER, keys |-> [k \in Keys |-> NoKey]]
NoDoc   == [at |-> NEVER, keys |-> {}]

NewKey(publish, activate) ==
  [NoKey EXCEPT !.st = "stored", !.publish = publish, !.activate = activate]

Later(a, b) == IF a >= b THEN a ELSE b

-----------------------------------------------------------------------------
(* What is computed from a copy K of the table.                            *)

Stored(K)    == {k \in Keys : K[k].st = "stored"}
Unretired(K) == {k \in Stored(K) : K[k].retire = NEVER}

\* max_by_key(activate_at): the last of the maxima.
Newest(K, S) ==
  {k \in S : \A b \in S : K[b].activate < K[k].activate \/ (K[b].activate = K[k].activate /\ b <= k)}

\* KeySet::active_signer_for: a set of at most one key.
Signer(K, t) ==
  Newest(K, {k \in Stored(K) : K[k].activate <= t /\ (K[k].retire = NEVER \/ t < K[k].retire)})

\* KeySet::published_keys
Published(K, t) ==
  {k \in Stored(K) : K[k].publish <= t /\ (K[k].expire = NEVER \/ t < K[k].expire)}

\* Mutant: the head is the newest unretired key, active or not.
HeadPending(t) == Newest(key, Unretired(key))

\* The head of advance and break_glass, with reading t.
Head(t) == Newest(key, {k \in Unretired(key) : key[k].activate <= t})

\* The key a promotion retires: the newest other unretired one, if older than the
\* head; 0 if there is none.
Outgoing(h) ==
  LET newest == Newest(key, Unretired(key) \ {h})
  IN IF \E k \in newest : key[k].activate < key[h].activate
       THEN CHOOSE k \in newest : TRUE ELSE 0

\* seed_due and not has_pending
SeedDue(h, t) ==
  /\ t >= key[h].activate + Cadence - Lead
  /\ \A k \in Unretired(key) : key[k].activate <= t

-----------------------------------------------------------------------------
\* The day-one key is published and active together, before there is anything to
\* cache.
Init ==
  /\ now = 0
  /\ key = [k \in Keys |-> IF k = 1 THEN NewKey(0, 0) ELSE NoKey]
  /\ job = [j \in Jobs |-> NoJob]
  /\ entry = [n \in Nodes |-> NoEntry]
  /\ doc = [r \in Parties |-> NoDoc]
  /\ breaks = 0
  /\ lastExp = [k \in Keys |-> 0]
  /\ burnt = {} /\ rushed = {}

-----------------------------------------------------------------------------
(* Passes and operator calls.                                              *)

\* A job that finds no head has nothing to do for the algorithm.
Listing(j, t, at, h, pc, out) ==
  /\ job[j].pc = "idle" /\ t >= now - MaxStall
  /\ h \in Head(at)
  /\ job' = [job EXCEPT ![j] = [pc |-> pc, read |-> t, at |-> at, head |-> h, out |-> out]]
  /\ UNCHANGED <<now, key, entry, doc, lastExp, burnt, rushed>>

\* The reading a pass works with: the timer's microseconds, or the operator's.
PassReading(t) == {t, t * AdminScale}

\* RotationTimer::pass and the management surface's advance.
ListForPass(j, t) ==
  \E at \in PassReading(t), h \in Keys :
    /\ Listing(j, t, at, h, IF SeedDue(h, at) THEN "seed" ELSE "promote", Outgoing(h))
    /\ SeedDue(h, at) \/ Outgoing(h) # 0
    /\ UNCHANGED breaks

ListForBreak(j, t) ==
  /\ breaks < MaxBreaks /\ breaks' = breaks + 1
  /\ \E h \in Keys : Listing(j, t, t * AdminScale, h, "breakSeed", 0)

\* Mutant: the successor is activated when it was planned to be, however late it
\* is prepared.
ActivationPlanned(j, prepared) == key[job[j].head].activate + Cadence

\* seed_successor: the rotation instant, or a full lead after the preparation.
Activation(j, prepared) == Later(key[job[j].head].activate + Cadence, prepared + Lead)

Insert(k, row) ==
  /\ k \in Keys /\ k = Cardinality(Stored(key)) + 1
  /\ key' = [key EXCEPT ![k] = row]

\* The clock is read again once the material is there, and then the row inserted.
Seed(j) ==
  /\ job[j].pc = "seed"
  /\ \E t \in job[j].read .. now, k \in Keys :
       LET activation == Activation(j, Later(job[j].at, t))
       IN Insert(k, NewKey(activation - Lead, activation))
  /\ job' = [job EXCEPT ![j] = IF job[j].out = 0 THEN NoJob ELSE [@ EXCEPT !.pc = "promote"]]
  /\ UNCHANGED <<now, entry, doc, breaks, lastExp, burnt, rushed>>

Withdrawn(k, retire, expire) == [key EXCEPT ![k].retire = retire, ![k].expire = expire]

\* ActingSigningKeyRepo::promote
Promote(j) ==
  /\ job[j].pc = "promote"
  /\ key' = Withdrawn(job[j].out, job[j].at, job[j].at + Lifetime + Buffer)
  /\ job' = [job EXCEPT ![j] = NoJob]
  /\ UNCHANGED <<now, entry, doc, breaks, lastExp, burnt, rushed>>

\* break_glass provisions the successor in a transaction of its own ..
BreakSeed(j) ==
  /\ job[j].pc = "breakSeed"
  /\ \E k \in Keys : /\ Insert(k, NewKey(job[j].at, job[j].at))
                     /\ rushed' = rushed \cup {k}
  /\ job' = [job EXCEPT ![j].pc = "breakWithdraw"]
  /\ UNCHANGED <<now, entry, doc, breaks, lastExp, burnt>>

\* .. and withdraws the head it had listed in another.
BreakWithdraw(j) ==
  /\ job[j].pc = "breakWithdraw"
  /\ key' = Withdrawn(job[j].head, job[j].at, job[j].at)
  /\ burnt' = burnt \cup {job[j].head}
  /\ job' = [job EXCEPT ![j] = NoJob]
  /\ UNCHANGED <<now, entry, doc, breaks, lastExp, rushed>>

\* A store error, a remote key that is not confirmed, or the end of the process.
Abandon(j) ==
  /\ job[j].pc # "idle"
  /\ job' = [job EXCEPT ![j] = NoJob]
  /\ UNCHANGED <<now, key, entry, doc, breaks, lastExp, burnt, rushed>>

-----------------------------------------------------------------------------
(* Serving.                                                                *)

\* load_issuer_entry, when there is no fresh entry.
Load(n) ==
  /\ entry[n] = NoEntry
  /\ entry' = [entry EXCEPT ![n] = [at |-> now, keys |-> key]]
  /\ UNCHANGED <<now, key, job, doc, breaks, lastExp, burnt, rushed>>

\* A token is signed from the cached entry.
Sign(n) ==
  /\ entry[n] # NoEntry
  /\ \E k \in Signer(entry[n].keys, now) :
       lastExp' = [lastExp EXCEPT ![k] = Later(@, now + Lifetime)]
  /\ UNCHANGED <<now, key, job, entry, doc, breaks, burnt, rushed>>

\* jwks_json from the cached entry, kept by the relying party for the max-age.
Fetch(r, n) ==
  /\ doc[r] = NoDoc /\ entry[n] # NoEntry
  /\ doc' = [doc EXCEPT ![r] = [at |-> now, keys |-> Published(entry[n].keys, now)]]
  /\ UNCHANGED <<now, key, job, entry, breaks, lastExp, burnt, rushed>>

\* is_fresh
Fresh(at, t) == t - at < EntryTtl

\* Stale entries and documents are dropped, nobody serves them, and so are the
\* expiries of dead tokens.
Tick ==
  /\ now < MaxTime
  /\ \A j \in Jobs : job[j].pc # "idle" => now - job[j].read < MaxStall
  /\ now' = now + 1
  /\ entry' = [n \in Nodes |-> IF entry[n].at # NEVER /\ Fresh(entry[n].at, now + 1)
                               THEN entry[n] ELSE NoEntry]
  /\ doc' = [r \in Parties |-> IF doc[r].at # NEVER /\ now + 1 - doc[r].at < CacheTtl
                               THEN doc[r] ELSE NoDoc]
  /\ lastExp' = [k \in Keys |-> IF now + 1 < lastExp[k] THEN lastExp[k] ELSE 0]
  /\ UNCHANGED <<key, job, breaks, burnt, rushed>>

-----------------------------------------------------------------------------
Next ==
  \/ \E j \in Jobs :
       \/ Seed(j) \/ Promote(j) \/ BreakSeed(j) \/ BreakWithdraw(j) \/ Abandon(j)
       \/ \E t \in 0 .. now : ListForPass(j, t) \/ ListForBreak(j, t)
  \/ \E n \in Nodes : Load(n) \/ Sign(n) \/ \E r \in Parties : Fetch(r, n)
  \/ Tick

Spec == Init /\ [][Next]_vars

-----------------------------------------------------------------------------
(* Properties.                                                             *)

Instants == Nat \cup {NEVER}
RowType == [st : {"absent", "stored"}, publish : Nat, activate : Nat,
            retire : Instants, expire : Instants]
JobType == [pc : {"idle", "seed", "promote", "breakSeed", "breakWithdraw"},
            read : Nat, at : Nat, head : Keys \cup {0}, out : Keys \cup {0}]
EntryType == [at : Instants, keys : [Keys -> RowType]]
DocType == [at : Instants, keys : SUBSET Keys]

\* The type of the state.
TypeOK ==
  /\ now \in Nat
  /\ key \in [Keys -> RowType]
  /\ job \in [Jobs -> JobType]
  /\ entry \in [Nodes -> EntryType]
  /\ doc \in [Parties -> DocType]
  /\ breaks \in Nat
  /\ lastExp \in [Keys -> Nat]
  /\ burnt \subseteq Keys /\ rushed \subseteq Keys

\* No relying party meets a token it cannot verify: while a token signed by a
\* scheduled key is alive, its key is in every document a relying party may still
\* be using, whichever replica signed, whichever replica the document came from,
\* and however the passes of several timers overlap.  (Pre-publication in
\* seed_successor, retention in promote, the bounded entries of IssuerRegistry.)
\* The keys of a break-glass call are the documented exception.
TokensVerifiable ==
  \A r \in Parties, k \in Keys \ (burnt \cup rushed) :
    doc[r] # NoDoc /\ now < lastExp[k] => k \in doc[r].keys

\* The environment always has a signer, through promotions, late and overlapping
\* passes and break-glass calls at any of their steps (the hand-overs of promote
\* and break_glass).
SignerAlways == Signer(key, now) # {}

-----------------------------------------------------------------------------
(* The inductive invariant.                                                *)

\* The keys whose life is planned from end to end.
Scheduled == Keys \ (burnt \cup rushed)

\* b follows a in the order of Newest.
Follows(a, b) ==
  \/ key[a].activate < key[b].activate
  \/ key[a].activate = key[b].activate /\ a < b

\* From instant t on, a key that follows k is active.
Relieved(k, t) == \E s \in Stored(key) : Follows(k, s) /\ key[s].activate <= t

\* A row of a scheduled key: its times are a lead and a retention apart.
Timed(row) ==
  /\ row.publish = 0 \/ row.activate = row.publish + Lead
  /\ row.retire = NEVER => row.expire = NEVER
  /\ row.retire # NEVER => row.expire = row.retire + Lifetime + Buffer

\* A retirement as late as a job with the given reading can have met it.
RetiredSince(row, read) ==
  row.retire # NEVER => read + Lifetime + Buffer <= row.expire + MaxStall

TableShape ==
  /\ \E n \in Keys : Stored(key) = 1 .. n
  /\ key[1].activate = 0
  /\ \A k \in Keys : key[k].st = "absent" => key[k] = NoKey
  /\ \A k \in Stored(key) : key[k].retire # NEVER => Relieved(k, key[k].retire)
  /\ \A k \in Scheduled : Timed(key[k])

\* What a job has listed is still so when it writes.
JobShape(j) ==
  /\ job[j].pc # "idle" =>
       /\ job[j].read <= now /\ now <= job[j].read + MaxStall /\ job[j].read <= job[j].at
       /\ job[j].head \in Stored(key) /\ key[job[j].head].activate <= job[j].at
       /\ job[j].out # 0 => /\ job[j].out \in Stored(key)
                            /\ key[job[j].out].activate < key[job[j].head].activate
  /\ job[j].pc = "promote" => job[j].out # 0
  /\ job[j].pc = "breakWithdraw" => Relieved(job[j].head, job[j].at)

\* Two jobs that retire the same key do it in the same stretch of time.
OverlapShape(j) ==
  job[j].pc # "idle" /\ job[j].out \in Scheduled =>
    /\ RetiredSince(key[job[j].out], job[j].read)
    /\ \A n \in Nodes : RetiredSince(entry[n].keys[job[j].out], job[j].read)

\* A copy of a row against the row.
Behind(copy, row) ==
  /\ copy.st = "stored" => /\ row.st = "stored"
                           /\ copy.publish = row.publish /\ copy.activate = row.activate
  /\ copy.retire # NEVER => row.retire # NEVER

\* What a copy of a scheduled row may miss: an activation, a retirement or a later
\* retirement that does not matter while the copy, taken at the given time, is fresh.
MissesLittle(copy, row, at) ==
  /\ Timed(copy)
  /\ row.st = "stored" /\ copy.st # "stored" => at + CacheTtl + EntryTtl <= row.activate
  /\ row.retire # NEVER => copy.retire = row.retire \/ at + EntryTtl + Lifetime <= row.expire
  /\ copy.retire # NEVER => copy.retire = row.retire \/ at + EntryTtl <= copy.expire

EntryShape(n) ==
  /\ entry[n].at = NEVER => entry[n] = NoEntry
  /\ entry[n].at # NEVER =>
       /\ entry[n].at <= now /\ now < entry[n].at + EntryTtl
       /\ \A k \in Keys : Behind(entry[n].keys[k], key[k])
       /\ \A k \in Scheduled : MissesLittle(entry[n].keys[k], key[k], entry[n].at)

TokenShape(k) ==
  /\ lastExp[k] <= now + Lifetime
  /\ lastExp[k] > 0 => key[k].st = "stored" /\ key[k].activate <= now
  /\ k \in Scheduled /\ key[k].retire # NEVER => lastExp[k] <= key[k].expire

\* A scheduled key is missing in a document only before it signs or once its tokens
\* are dead.
MissedSafely(row, at) ==
  \/ row.st = "absent"
  \/ at + CacheTtl <= row.activate
  \/ row.retire # NEVER /\ row.expire <= now

DocShape(r) ==
  /\ doc[r].at = NEVER => doc[r] = NoDoc
  /\ doc[r].at # NEVER =>
       /\ doc[r].at <= now /\ now < doc[r].at + CacheTtl
       /\ \A k \in Scheduled : k \notin doc[r].keys => MissedSafely(key[k], doc[r].at)

\* The inductive invariant of the rotation.
IInv ==
  /\ TypeOK
  /\ TableShape
  /\ \A j \in Jobs : JobShape(j) /\ OverlapShape(j)
  /\ \A n \in Nodes : EntryShape(n)
  /\ \A k \in Keys : TokenShape(k)
  /\ \A r \in Parties : DocShape(r)

-----------------------------------------------------------------------------
(* What a comment of the source states and the code does not give.         *)

\* A completed break-glass call has withdrawn the compromised key.
BreakGlassWithdraws == burnt \cap Published(key, now) = {}
=============================================================================
