---------------------------- MODULE TokenGrants ----------------------------
(***************************************************************************)
(* SSO sessions, authorization codes and refresh-token families: the rows  *)
(* `sessions`, `client_sessions`, `grants`, `authorization_codes`,         *)
(* `refresh_families` and `refresh_tokens` of one scope, and the           *)
(* transactions that race over them                                        *)
(* (crates/ironauth-store/src/repository.rs, driven by                     *)
(* crates/ironauth-oidc/src/token.rs and interaction.rs).                  *)
(*                                                                         *)
(* Every process of Procs is one in-flight request: a login, a code        *)
(* exchange, a refresh, or a user-wide revocation.  A request is several   *)
(* transactions, and a transaction that waits for a row lock or whose      *)
(* statement works on an older snapshot is several steps (all transactions *)
(* are pinned to READ COMMITTED).  A transaction is invisible until its    *)
(* last step, which is its commit.                                         *)
(*                                                                         *)
(* Left to nondeterminism: which client policy, signature, quota or store  *)
(* fault refuses a request (Abort), the expiry of codes, tokens and        *)
(* families (a refusal, so also Abort), and when a session expires (Lapse).*)
(***************************************************************************)
EXTENDS Naturals, FiniteSets

CONSTANTS
  Users,        \* subjects of the scope
  Sessions,     \* session ids that can be generated
  Clients,      \* relying parties
  Grants,       \* grants: one authorization code and at most one family each
  ClientOf,     \* the client of each grant
  Procs,        \* requests in flight
  MaxTokens,    \* bound on the refresh-token rows ever written
  Grace,        \* the refresh rotation grace window
  CodeGrace,    \* the reuse grace window of a code
  MaxTime,      \* bound on the clock
  MaxLapses,    \* bound on the sessions that expire
  Fates,        \* what a user-wide revocation makes of the user, of the three below
  Kills,        \* whether a revocation may be a hard kill, a soft one, or either
  NONE          \* "no such value" (SQL NULL)

ASSUME BoundsAssumption ==
  /\ MaxTokens \in Nat /\ Grace \in Nat /\ CodeGrace \in Nat /\ MaxTime \in Nat
  /\ MaxLapses \in Nat /\ Kills \subseteq BOOLEAN
  /\ Fates \subseteq {"active", "fenced", "deleted"}

ASSUME ClientAssumption == ClientOf \in [Grants -> Clients]

ASSUME NoneAssumption ==
  /\ NONE \notin Users /\ NONE \notin Sessions /\ NONE \notin Grants
  /\ NONE \notin Nat

VARIABLES
  now,       \* the application clock
  user,      \* users.state: may authenticate, fenced (blocked, disabled), deleted
  sess,      \* sessions rows
  lapsed,    \* sessions past their idle or absolute expiry
  sid,       \* client_sessions rows, by session and client
  grant,     \* grants rows, each with its authorization code
  fam,       \* refresh_families rows, by grant
  tok,       \* refresh_tokens rows
  events,    \* session-ended events enqueued for each session
  pc, job    \* where each request is, and what it works on

vars == <<now, user, sess, lapsed, sid, grant, fam, tok, events, pc, job>>
rowVars == <<user, sess, lapsed, sid, grant, fam, tok, events>>

Tokens == 1..MaxTokens
Instants == Nat \cup {NONE}

Steps == {"idle", "login", "rotating", "sid", "minted", "won", "opening",
          "cleared", "picked", "sweeping"}

JobType == [user : Users \cup {NONE}, sess : Sessions \cup {NONE},
            grant : Grants \cup {NONE}, tok : Tokens \cup {NONE}, at : Nat,
            snap : SUBSET Sessions, hard : BOOLEAN, to : {"active", "fenced", "deleted"}]

SessType == [st : {"absent", "live", "superseded", "revoked"},
             subject : Users \cup {NONE}, next : Sessions \cup {NONE}]

GrantType == [st : {"absent", "live", "revoked"}, session : Sessions \cup {NONE},
              subject : Users \cup {NONE}, offline : BOOLEAN, consumedAt : Instants,
              reuses : Nat]

FamType == [st : {"absent", "live", "revoked"}, session : Sessions \cup {NONE},
            reuses : Nat]

TokType == [grant : Grants \cup {NONE}, gen : Nat, rotatedAt : Instants]

TypeOK ==
  /\ now \in Nat
  /\ user \in [Users -> {"active", "fenced", "deleted"}]
  /\ sess \in [Sessions -> SessType]
  /\ lapsed \in SUBSET Sessions
  /\ sid \in [Sessions -> [Clients -> {"absent", "live", "revoked"}]]
  /\ grant \in [Grants -> GrantType]
  /\ fam \in [Grants -> FamType]
  /\ tok \in [Tokens -> TokType]
  /\ events \in [Sessions -> Nat]
  /\ pc \in [Procs -> Steps]
  /\ job \in [Procs -> JobType]

NoJob == [user |-> NONE, sess |-> NONE, grant |-> NONE, tok |-> NONE, at |-> 0,
          snap |-> {}, hard |-> FALSE, to |-> "active"]

Init ==
  /\ now = 0
  /\ user = [u \in Users |-> "active"]
  /\ sess = [s \in Sessions |-> [st |-> "absent", subject |-> NONE, next |-> NONE]]
  /\ lapsed = {}
  /\ sid = [s \in Sessions |-> [c \in Clients |-> "absent"]]
  /\ grant = [g \in Grants |->
       [st |-> "absent", session |-> NONE, subject |-> NONE, offline |-> FALSE,
        consumedAt |-> NONE, reuses |-> 0]]
  /\ fam = [g \in Grants |-> [st |-> "absent", session |-> NONE, reuses |-> 0]]
  /\ tok = [t \in Tokens |-> [grant |-> NONE, gen |-> 0, rotatedAt |-> NONE]]
  /\ events = [s \in Sessions |-> 0]
  /\ pc = [p \in Procs |-> "idle"]
  /\ job = [p \in Procs |-> NoJob]

-----------------------------------------------------------------------------
(* Row predicates and locks.                                               *)

Live(s) == sess[s].st = "live"

\* The liveness predicate every read path shares: not revoked, not ended, not
\* superseded, and inside both expiries.
Usable(s) == Live(s) /\ s \notin lapsed

Opened(g) == fam[g].st # "absent"

\* The families and grants a cascade over the sessions S reaches, by session_ref.
BoundTo(S) == {g \in Grants : Opened(g) /\ fam[g].session \in S}

\* The families a cascade over the user u reaches, by subject.
FamiliesOf(u) == {g \in Grants : Opened(g) /\ grant[g].subject = u}

\* Mutant of Holds: the opening of a family takes no row lock.
HoldsRotatingOnly(p, s) == pc[p] = "rotating" /\ job[p].sess = s

\* The row lock on session s that process p holds: taken with FOR UPDATE by a
\* rotation on the prior session, and by the opening of a session-bound family.
Holds(p, s) ==
  \/ pc[p] = "rotating" /\ job[p].sess = s
  \/ pc[p] = "opening" /\ ~grant[job[p].grant].offline /\ grant[job[p].grant].session = s

Locked(s) == \E p \in Procs : Holds(p, s)

At(p, step) == pc[p] = step

Goto(p, step, j) == pc' = [pc EXCEPT ![p] = step] /\ job' = [job EXCEPT ![p] = j]

Finish(p) == Goto(p, "idle", NoJob)

-----------------------------------------------------------------------------
(* The cascade of a session end, shared by every path that ends sessions.  *)

\* Flips exactly the sessions of S that have not ended yet ...
SessionsEnded(S) ==
  [s \in Sessions |-> IF s \in S /\ Live(s) THEN [sess[s] EXCEPT !.st = "revoked"]
                      ELSE sess[s]]

\* Mutant of EventsFor: an event for every session named, ended already or not.
EventsForAll(S) == [s \in Sessions |-> IF s \in S THEN events[s] + 1 ELSE events[s]]

\* ... and enqueues one session-ended event for each of them.
EventsFor(S) ==
  [s \in Sessions |-> IF s \in S /\ Live(s) THEN events[s] + 1 ELSE events[s]]

SidsEnded(S) ==
  [s \in Sessions |-> [c \in Clients |->
     IF s \in S /\ sid[s][c] = "live" THEN "revoked" ELSE sid[s][c]]]

\* Session-bound families always, offline families only on a hard kill.
FamiliesEnded(F, hard) ==
  [g \in Grants |-> IF g \in F /\ fam[g].st = "live" /\ (hard \/ ~grant[g].offline)
                    THEN [fam[g] EXCEPT !.st = "revoked"] ELSE fam[g]]

\* A hard kill also revokes the grants behind the families.
GrantsEnded(F, hard) ==
  [g \in Grants |-> IF hard /\ g \in F THEN [grant[g] EXCEPT !.st = "revoked"]
                    ELSE grant[g]]

-----------------------------------------------------------------------------
(* Login: establish_session reads the lifecycle state, then rotates.       *)

\* The central lifecycle fence: a separate read, before the rotation. The browser
\* may present any session cookie it once received.
Login(p, u, s) ==
  /\ At(p, "idle")
  /\ user[u] = "active"
  /\ s # NONE => sess[s].st # "absent"
  /\ Goto(p, "login", [NoJob EXCEPT !.user = u, !.sess = s])
  /\ UNCHANGED <<now, rowVars>>

\* SELECT ... FOR UPDATE of the prior session, if it has not ended; the new row is
\* already inserted and not yet visible.
RotateLock(p) ==
  LET s == job[p].sess IN
  /\ At(p, "login")
  /\ s # NONE => ~Locked(s)
  /\ Goto(p, "rotating",
          [job[p] EXCEPT !.sess = IF s # NONE THEN IF Live(s) THEN s ELSE NONE ELSE NONE])
  /\ UNCHANGED <<now, rowVars>>

\* The row of a new session.
NewSession(u) == [st |-> "live", subject |-> u, next |-> NONE]

\* The same subject: supersede the prior session and carry its client sessions and
\* its unrevoked families onto the successor.
Carry(s, n, u) ==
  /\ sess' = [sess EXCEPT ![s].st = "superseded", ![s].next = n, ![n] = NewSession(u)]
  /\ sid' = [sid EXCEPT
       ![n] = [c \in Clients |-> IF sid[s][c] = "live" THEN "live" ELSE sid[n][c]],
       ![s] = [c \in Clients |-> IF sid[s][c] = "live" THEN "absent" ELSE sid[s][c]]]
  /\ fam' = [g \in Grants |-> IF fam[g].st = "live" /\ fam[g].session = s
                              THEN [fam[g] EXCEPT !.session = n] ELSE fam[g]]
  /\ UNCHANGED events

\* Somebody else's session: revoke it with the soft cascade and carry nothing.
Replace(s, n, u) ==
  /\ sess' = [SessionsEnded({s}) EXCEPT ![n] = NewSession(u)]
  /\ events' = EventsFor({s})
  /\ sid' = SidsEnded({s})
  /\ fam' = FamiliesEnded(BoundTo({s}), FALSE)

FirstLogin(n, u) ==
  /\ sess' = [sess EXCEPT ![n] = NewSession(u)]
  /\ UNCHANGED <<sid, fam, events>>

\* Mutant of RotateCommit: carries the prior session whoever it belongs to.
RotateCarriesAll(p, n) ==
  /\ At(p, "rotating")
  /\ sess[n].st = "absent"
  /\ \/ job[p].sess = NONE /\ FirstLogin(n, job[p].user)
     \/ job[p].sess # NONE /\ Carry(job[p].sess, n, job[p].user)
  /\ Finish(p)
  /\ UNCHANGED <<now, user, lapsed, grant, tok>>

\* The commit of the rotation: the new session, and what becomes of the prior one.
RotateCommit(p, n) ==
  LET s == job[p].sess
      u == job[p].user
  IN
  /\ At(p, "rotating")
  /\ sess[n].st = "absent"
  /\ \/ s = NONE /\ FirstLogin(n, u)
     \/ s # NONE /\ sess[s].subject = u /\ Carry(s, n, u)
     \/ s # NONE /\ sess[s].subject # u /\ Replace(s, n, u)
  /\ Finish(p)
  /\ UNCHANGED <<now, user, lapsed, grant, tok>>

-----------------------------------------------------------------------------
(* The authorization endpoint and the code exchange.                       *)

\* One transaction writes the grant and its code. The session was live when the
\* authorization endpoint resolved it and may have ended since.
IssueCode(g, s, offline) ==
  /\ grant[g].st = "absent"
  /\ sess[s].st # "absent"
  /\ grant' = [grant EXCEPT ![g] =
       [st |-> "live", session |-> s, subject |-> sess[s].subject, offline |-> offline,
        consumedAt |-> NONE, reuses |-> 0]]
  /\ UNCHANGED <<now, user, sess, lapsed, sid, fam, tok, events, pc, job>>

\* load_code, then resolve_code_exchange_sid: the session must resolve, and the
\* INSERT ... SELECT of ensure_sid must see it live. The insert takes no lock.
StartExchange(p, g) ==
  /\ At(p, "idle")
  /\ grant[g].st # "absent"
  /\ Usable(grant[g].session)
  /\ Goto(p, "sid", [NoJob EXCEPT !.grant = g])
  /\ UNCHANGED <<now, rowVars>>

\* The client session becomes visible; an existing one is kept (ON CONFLICT). The
\* tokens are minted next.
CommitSid(p) ==
  LET g == job[p].grant
      s == grant[g].session
      c == ClientOf[g]
  IN
  /\ At(p, "sid")
  /\ sid' = [sid EXCEPT ![s][c] = IF sid[s][c] = "absent" THEN "live" ELSE sid[s][c]]
  /\ Goto(p, "minted", job[p])
  /\ UNCHANGED <<now, user, sess, lapsed, grant, fam, tok, events>>

\* Mutant of ConsumeCode: the UPDATE has lost its consumed_at IS NULL guard.
ConsumeUnguarded(p) ==
  /\ At(p, "minted")
  /\ grant' = [grant EXCEPT ![job[p].grant].consumedAt = now]
  /\ Goto(p, "won", job[p])
  /\ UNCHANGED <<now, user, sess, lapsed, sid, fam, tok, events>>

\* The single-use gate: the one UPDATE that finds consumed_at NULL wins.
ConsumeCode(p) ==
  LET g == job[p].grant IN
  /\ At(p, "minted")
  /\ grant[g].consumedAt = NONE
  /\ grant' = [grant EXCEPT ![g].consumedAt = now]
  /\ Goto(p, "won", job[p])
  /\ UNCHANGED <<now, user, sess, lapsed, sid, fam, tok, events>>

\* classify_miss: inside the grace window nothing happens; beyond it the grant is
\* revoked, and the revocation that flips it writes the one reuse audit row.
MissCode(p) ==
  LET g == job[p].grant
      reused == now - grant[g].consumedAt > CodeGrace
  IN
  /\ At(p, "minted")
  /\ grant[g].consumedAt # NONE
  /\ grant' = IF reused /\ grant[g].st = "live"
              THEN [grant EXCEPT ![g].st = "revoked", ![g].reuses = @ + 1]
              ELSE grant
  /\ Finish(p)
  /\ UNCHANGED <<now, user, sess, lapsed, sid, fam, tok, events>>

\* lock_bound_session_live: an offline family takes no lock and is not gated; a
\* session-bound one waits for the row and opens only if the session is then live.
OpenLock(p) ==
  LET g == job[p].grant
      s == grant[g].session
  IN
  /\ At(p, "won")
  /\ \/ grant[g].offline /\ Goto(p, "opening", job[p])
     \/ ~grant[g].offline /\ ~Locked(s) /\ Usable(s) /\ Goto(p, "opening", job[p])
     \/ ~grant[g].offline /\ ~Locked(s) /\ ~Usable(s) /\ Finish(p)
  /\ UNCHANGED <<now, rowVars>>

\* The row the next refresh token is written to.
Unused(t) == tok[t].grant = NONE /\ \A v \in Tokens : v < t => tok[v].grant # NONE

\* The family with the grant's session_ref, and its generation-0 token.
OpenCommit(p, t) ==
  LET g == job[p].grant IN
  /\ At(p, "opening")
  /\ Unused(t)
  /\ fam' = [fam EXCEPT ![g] = [st |-> "live", session |-> grant[g].session, reuses |-> 0]]
  /\ tok' = [tok EXCEPT ![t] = [grant |-> g, gen |-> 0, rotatedAt |-> NONE]]
  /\ Finish(p)
  /\ UNCHANGED <<now, user, sess, lapsed, sid, grant, events>>

-----------------------------------------------------------------------------
(* The refresh grant.                                                      *)

\* load finds the presented token and its family; the lifecycle re-check of the
\* subject follows, both before the redeem's transaction.
StartRefresh(p, t) ==
  /\ At(p, "idle")
  /\ tok[t].grant # NONE
  /\ LET g == tok[t].grant IN
       /\ fam[g].st = "live" /\ grant[g].st = "live"
       /\ user[grant[g].subject] = "active"
  /\ Goto(p, "cleared", [NoJob EXCEPT !.tok = t])
  /\ UNCHANGED <<now, rowVars>>

\* The redeem's SELECT: family, grant and, unless offline, the bound session must be
\* live. Reads the clock once for the whole redeem. (A live leaf that the client's
\* policy does not rotate only records an access token: Abort.)
RedeemRead(p) ==
  LET g == tok[job[p].tok].grant IN
  /\ At(p, "cleared")
  /\ fam[g].st = "live" /\ grant[g].st = "live"
  /\ grant[g].offline \/ Usable(fam[g].session)
  /\ Goto(p, "picked", [job[p] EXCEPT !.at = now])
  /\ UNCHANGED <<now, rowVars>>

\* Mutant of RedeemRotate: the UPDATE has lost its rotated_at IS NULL guard.
RotateUnguarded(p, n) ==
  LET t == job[p].tok IN
  /\ At(p, "picked")
  /\ Unused(n)
  /\ tok' = [tok EXCEPT ![t].rotatedAt = job[p].at,
                        ![n] = [grant |-> tok[t].grant, gen |-> tok[t].gen + 1,
                                rotatedAt |-> NONE]]
  /\ Finish(p)
  /\ UNCHANGED <<now, user, sess, lapsed, sid, grant, fam, events>>

\* The conditional UPDATE wins: the token is superseded and its successor written.
RedeemRotate(p, n) ==
  LET t == job[p].tok IN
  /\ At(p, "picked")
  /\ tok[t].rotatedAt = NONE
  /\ Unused(n)
  /\ tok' = [tok EXCEPT ![t].rotatedAt = job[p].at,
                        ![n] = [grant |-> tok[t].grant, gen |-> tok[t].gen + 1,
                                rotatedAt |-> NONE]]
  /\ Finish(p)
  /\ UNCHANGED <<now, user, sess, lapsed, sid, grant, fam, events>>

\* Mutant of RedeemSuperseded: every replay audits, whether it flipped the family or not.
SupersededAuditsAlways(p) ==
  LET t == job[p].tok
      g == tok[t].grant
      reused == ~(job[p].at < tok[t].rotatedAt + Grace)
  IN
  /\ At(p, "picked")
  /\ tok[t].rotatedAt # NONE
  /\ fam' = IF reused THEN [fam EXCEPT ![g].st = "revoked", ![g].reuses = @ + 1] ELSE fam
  /\ Finish(p)
  /\ UNCHANGED <<now, user, sess, lapsed, sid, grant, tok, events>>

\* classify_superseded, for a token found superseded and for the loser of the race:
\* inside the grace window an access token only; beyond it the family is revoked, and
\* the revocation that flips it writes the one reuse audit row.
RedeemSuperseded(p) ==
  LET t == job[p].tok
      g == tok[t].grant
      reused == ~(job[p].at < tok[t].rotatedAt + Grace)
  IN
  /\ At(p, "picked")
  /\ tok[t].rotatedAt # NONE
  /\ fam' = IF reused /\ fam[g].st = "live"
            THEN [fam EXCEPT ![g].st = "revoked", ![g].reuses = @ + 1]
            ELSE fam
  /\ Finish(p)
  /\ UNCHANGED <<now, user, sess, lapsed, sid, grant, tok, events>>

-----------------------------------------------------------------------------
(* Revocation.                                                             *)

\* One session, or a bulk revoke of several, in one transaction.
RevokeSessions(S, hard) ==
  /\ \A s \in S : sess[s].st # "absent" /\ ~Locked(s)
  /\ sess' = SessionsEnded(S)
  /\ events' = EventsFor(S)
  /\ sid' = SidsEnded(S)
  /\ fam' = FamiliesEnded(BoundTo(S), hard)
  /\ grant' = GrantsEnded(BoundTo(S), hard)
  /\ UNCHANGED <<now, user, lapsed, tok, pc, job>>

\* Revoke all of a user's sessions, block, disable or delete the user: the UPDATE of
\* the sessions finds its rows in the snapshot of its start. (Disabling a blocked user
\* is the cascade alone: both states are fenced.)
SweepStart(p, u, to, hard) ==
  /\ At(p, "idle")
  /\ user[u] # "deleted"
  /\ to = "fenced" => user[u] = "active"
  /\ Goto(p, "sweeping",
          [NoJob EXCEPT !.user = u, !.to = to, !.hard = hard,
             !.snap = {s \in Sessions : Live(s) /\ sess[s].subject = u}])
  /\ UNCHANGED <<now, rowVars>>

\* It waits for the rows of the snapshot that others hold, re-checks each, and
\* cascades by subject. The user row is written in the same transaction, guarded by
\* the state the caller read.
SweepCommit(p) ==
  LET u == job[p].user
      F == FamiliesOf(u)
      mine == {s \in Sessions : sess[s].subject = u}
  IN
  /\ At(p, "sweeping")
  /\ \A s \in job[p].snap : ~Locked(s)
  /\ job[p].to = "fenced" => user[u] = "active"
  /\ job[p].to = "deleted" => user[u] # "deleted"
  /\ user' = IF job[p].to = "active" THEN user ELSE [user EXCEPT ![u] = job[p].to]
  /\ sess' = SessionsEnded(job[p].snap)
  /\ events' = EventsFor(job[p].snap)
  /\ sid' = SidsEnded(mine)
  /\ fam' = FamiliesEnded(F, job[p].hard)
  /\ grant' = GrantsEnded(F, job[p].hard)
  /\ Finish(p)
  /\ UNCHANGED <<now, lapsed, tok>>

\* An unblock or enable.
Reactivate(u) ==
  /\ user[u] = "fenced"
  /\ user' = [user EXCEPT ![u] = "active"]
  /\ UNCHANGED <<now, sess, lapsed, sid, grant, fam, tok, events, pc, job>>

\* RFC 7009 revocation of a refresh token: the family and the grant behind it.
RevokeFamily(g) ==
  /\ Opened(g)
  /\ fam[g].st = "live" \/ grant[g].st = "live"
  /\ fam' = [fam EXCEPT ![g].st = "revoked"]
  /\ grant' = [grant EXCEPT ![g].st = "revoked"]
  /\ UNCHANGED <<now, user, sess, lapsed, sid, tok, events, pc, job>>

-----------------------------------------------------------------------------
(* Time and failure.                                                       *)

\* A session passes its idle timeout or its absolute cap; no row is written.
Lapse(s) ==
  /\ Live(s)
  /\ Cardinality(lapsed) < MaxLapses
  /\ lapsed' = lapsed \cup {s}
  /\ UNCHANGED <<now, user, sess, sid, grant, fam, tok, events, pc, job>>

\* A request is refused, or its transaction rolls back (a fault, a crash, a deadlock
\* victim): its locks go, what it committed stays.
Abort(p) ==
  /\ ~At(p, "idle")
  /\ Finish(p)
  /\ UNCHANGED <<now, rowVars>>

Tick ==
  /\ now < MaxTime
  /\ now' = now + 1
  /\ UNCHANGED <<rowVars, pc, job>>

LoginNext == \E p \in Procs :
  \/ \E u \in Users, s \in Sessions \cup {NONE} : Login(p, u, s)
  \/ RotateLock(p)
  \/ \E n \in Sessions : RotateCommit(p, n)

ExchangeNext ==
  \/ \E g \in Grants, s \in Sessions, offline \in BOOLEAN : IssueCode(g, s, offline)
  \/ \E p \in Procs :
       \/ \E g \in Grants : StartExchange(p, g)
       \/ CommitSid(p) \/ ConsumeCode(p) \/ MissCode(p) \/ OpenLock(p)
       \/ \E t \in Tokens : OpenCommit(p, t)

RefreshNext == \E p \in Procs :
  \/ \E t \in Tokens : StartRefresh(p, t)
  \/ RedeemRead(p)
  \/ \E n \in Tokens : RedeemRotate(p, n)
  \/ RedeemSuperseded(p)

RevokeNext ==
  \/ \E S \in SUBSET Sessions, hard \in Kills : RevokeSessions(S, hard)
  \/ \E p \in Procs, u \in Users, to \in Fates, hard \in Kills :
       SweepStart(p, u, to, hard)
  \/ \E p \in Procs : SweepCommit(p)
  \/ \E u \in Users : Reactivate(u)
  \/ \E g \in Grants : RevokeFamily(g)

Next ==
  \/ LoginNext \/ ExchangeNext \/ RefreshNext \/ RevokeNext
  \/ \E s \in Sessions : Lapse(s)
  \/ \E p \in Procs : Abort(p)
  \/ Tick

Spec == Init /\ [][Next]_vars
-----------------------------------------------------------------------------
(* Properties.                                                             *)

\* A family never forks: of its tokens exactly one is unrotated, and it is the
\* newest generation (RefreshRepo::live_leaf_count: "ALWAYS at most one").
Family(g) == {t \in Tokens : tok[t].grant = g}

Leaf(g, t) == tok[t].grant = g /\ tok[t].rotatedAt = NONE

SingleLeaf ==
  \A g \in Grants : Opened(g) =>
    \E t \in Tokens : Leaf(g, t) /\ \A v \in Family(g) \ {t} :
                         tok[v].rotatedAt # NONE /\ tok[v].gen < tok[t].gen

\* A session-bound family that is not revoked hangs off a session that has not ended,
\* so that ending the session still reaches it: no interleaving of an opening, a
\* rotation and a revocation leaves an orphan (lock_bound_session_live,
\* reconcile_prior_session_at_rotation).
NoOrphan ==
  \A g \in Grants : fam[g].st = "live" /\ ~grant[g].offline => Live(fam[g].session)

\* No family is ever bound to another user's session, however often browsers are
\* shared between logins (reconcile_prior_session_at_rotation: carrying across
\* subjects "would be a cross-user privilege escalation").
SameSubject ==
  \A g \in Grants : Opened(g) => sess[fam[g].session].subject = grant[g].subject

\* One session-ended event per terminal end and none for a session that lives or was
\* rotated away, whichever revocations race (revoke_session_in_tx).
EventPerEnd ==
  \A s \in Sessions : events[s] = IF sess[s].st = "revoked" THEN 1 ELSE 0

\* A code opens one family: at most one exchange is past the single-use gate, and
\* none is once the family exists (AuthorizationRepo::redeem).
CodeOnce ==
  \A p \in Procs : pc[p] \in {"won", "opening"} =>
    /\ ~Opened(job[p].grant)
    /\ \A q \in Procs \ {p} : pc[q] \in {"won", "opening"} => job[q].grant # job[p].grant

\* A reuse is audited once, however many replays race, and only for what is revoked
\* (classify_superseded, classify_miss: "EXACTLY once").
ReuseOnce ==
  \A g \in Grants :
    /\ fam[g].reuses <= 1 /\ (fam[g].reuses = 1 => fam[g].st = "revoked")
    /\ grant[g].reuses <= 1 /\ (grant[g].reuses = 1 => grant[g].st = "revoked")

\* A row lock is held by one transaction, and never on a session that has ended under
\* it (lock_bound_session_live orders an opening against a revocation).
LockDiscipline ==
  \A p \in Procs, s \in Sessions : Holds(p, s) =>
    Live(s) /\ \A q \in Procs \ {p} : ~Holds(q, s)

-----------------------------------------------------------------------------
(* What the comments claim and the code does not give.                     *)

\* interaction.rs: a fenced user "mints NO session on ANY factor".
FencedHasNoSession ==
  \A s \in Sessions : Live(s) => user[sess[s].subject] = "active"

\* ClientSessionRepo::ensure_sid: no live client session bound to a dead session.
SidBound ==
  \A s \in Sessions, c \in Clients : sid[s][c] = "live" => Live(s)

\* revoke_all_for_user: "All of the user's live sessions are revoked", so none of them
\* lives on under the id it is being rotated to.
SweepEndsAll ==
  [][\A p \in Procs : At(p, "sweeping") /\ SweepCommit(p) =>
       \A s \in job[p].snap : sess[s].st = "superseded" => sess'[sess[s].next].st # "live"]_vars
-----------------------------------------------------------------------------
(* The inductive strengthening the proofs of TokenGrantsProofs rest on.    *)

\* The session s exists and belongs to the subject of the grant g.
Anchored(g, s) ==
  s \in Sessions /\ sess[s].st # "absent" /\ sess[s].subject = grant[g].subject

\* Every row refers to rows that exist, and a family only to a consumed code.
RowShape ==
  /\ \A s \in Sessions : sess[s].st # "absent" => sess[s].subject \in Users
  /\ \A g \in Grants : grant[g].st # "absent" => Anchored(g, grant[g].session)
  /\ \A g \in Grants : Opened(g) =>
       grant[g].st # "absent" /\ grant[g].consumedAt # NONE /\ Anchored(g, fam[g].session)
  /\ \A t \in Tokens : tok[t].grant # NONE => Opened(tok[t].grant)

\* What a request remembers still refers to rows that exist: a user-wide revocation
\* has only sessions of its user in its snapshot.
JobOK(p) ==
  /\ pc[p] \in {"login", "rotating"} => job[p].user \in Users
  /\ pc[p] \in {"sid", "minted", "won", "opening"} =>
       job[p].grant \in Grants /\ grant[job[p].grant].st # "absent"
  /\ pc[p] \in {"won", "opening"} => grant[job[p].grant].consumedAt # NONE
  /\ pc[p] \in {"cleared", "picked"} => job[p].tok \in Tokens /\ tok[job[p].tok].grant # NONE
  /\ pc[p] = "sweeping" => job[p].user \in Users /\ \A s \in job[p].snap :
       sess[s].st # "absent" /\ sess[s].subject = job[p].user

JobShape == \A p \in Procs : JobOK(p)

RowInv == RowShape /\ NoOrphan /\ EventPerEnd /\ ReuseOnce /\ SingleLeaf
ProcInv == JobShape /\ LockDiscipline /\ CodeOnce

IInv == TypeOK /\ RowInv /\ ProcInv
=============================================================================
