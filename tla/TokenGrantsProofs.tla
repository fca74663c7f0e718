------------------------- MODULE TokenGrantsProofs -------------------------
(* Proofs about TokenGrants, for every value of its constants.             *)
(*                                                                         *)
(* The argument.  A family can be orphaned only by an opening that commits *)
(* after its session ended, or by a cascade that misses it.  The opening   *)
(* holds the session's row from its check to its commit, and every end of  *)
(* a session waits for that row (LockDiscipline), so the session it saw is *)
(* still live.  The cascades find families by session or by subject, and   *)
(* both reach all of them because every family is anchored on a session of *)
(* its own grant's subject (RowShape) and the snapshot of a user-wide      *)
(* revocation holds only sessions of that user (JobShape).  IInv collects  *)
(* these facts; one lemma per action shows that it is preserved.           *)
EXTENDS TokenGrants, TLAPS

-----------------------------------------------------------------------------
(* Types of what the statements write.                                     *)

LEMMA InstantFacts == NONE \in Instants /\ Nat \subseteq Instants
BY DEF Instants

LEMMA NoJobType == NoJob \in JobType
BY DEF NoJob, JobType

\* A move of a request keeps the types of pc and job.
LEMMA GotoType ==
  ASSUME TypeOK, NEW p \in Procs, NEW step \in Steps, NEW j \in JobType, Goto(p, step, j)
  PROVE  pc' \in [Procs -> Steps] /\ job' \in [Procs -> JobType]
BY DEF TypeOK, Goto

LEMMA FinishType ==
  ASSUME TypeOK, NEW p \in Procs, Finish(p)
  PROVE  pc' \in [Procs -> Steps] /\ job' \in [Procs -> JobType]
BY NoJobType, GotoType DEF Finish, Steps

\* What the cascade writes.
LEMMA CascadeType ==
  ASSUME TypeOK, NEW S, NEW F, NEW hard
  PROVE  /\ SessionsEnded(S) \in [Sessions -> SessType]
         /\ EventsFor(S) \in [Sessions -> Nat]
         /\ SidsEnded(S) \in [Sessions -> [Clients -> {"absent", "live", "revoked"}]]
         /\ FamiliesEnded(F, hard) \in [Grants -> FamType]
         /\ GrantsEnded(F, hard) \in [Grants -> GrantType]
<1>1. SessionsEnded(S) \in [Sessions -> SessType]
  <2>1. \A s \in Sessions : [sess[s] EXCEPT !.st = "revoked"] \in SessType
    BY DEF TypeOK, SessType
  <2> QED BY <2>1 DEF TypeOK, SessionsEnded
<1>2. EventsFor(S) \in [Sessions -> Nat]
  BY DEF TypeOK, EventsFor
<1>3. SidsEnded(S) \in [Sessions -> [Clients -> {"absent", "live", "revoked"}]]
  BY DEF TypeOK, SidsEnded
<1>4. FamiliesEnded(F, hard) \in [Grants -> FamType]
  <2>1. \A g \in Grants : [fam[g] EXCEPT !.st = "revoked"] \in FamType
    BY DEF TypeOK, FamType
  <2> QED BY <2>1 DEF TypeOK, FamiliesEnded
<1>5. GrantsEnded(F, hard) \in [Grants -> GrantType]
  <2>1. \A g \in Grants : [grant[g] EXCEPT !.st = "revoked"] \in GrantType
    BY DEF TypeOK, GrantType
  <2> QED BY <2>1 DEF TypeOK, GrantsEnded
<1> QED BY <1>1, <1>2, <1>3, <1>4, <1>5

-----------------------------------------------------------------------------
(* What the requests that do not move rely on.                             *)

\* A step keeps what requests remember: rows stay, sessions keep their subject,
\* grants their session, subject and kind, consumed codes stay consumed.
Kept ==
  /\ \A s \in Sessions : sess[s].st # "absent" =>
       sess'[s].st # "absent" /\ sess'[s].subject = sess[s].subject
  /\ \A g \in Grants : grant[g].st # "absent" =>
       /\ grant'[g].st # "absent" /\ grant'[g].session = grant[g].session
       /\ grant'[g].subject = grant[g].subject /\ grant'[g].offline = grant[g].offline
       /\ grant[g].consumedAt # NONE => grant'[g].consumedAt # NONE
  /\ \A t \in Tokens : tok[t].grant # NONE => tok'[t].grant = tok[t].grant

\* A step of the requests in M ends no session another request has locked ...
LocksRespected(M) ==
  \A q \in Procs \ M, s \in Sessions : Holds(q, s) => sess'[s].st = "live"

\* ... and opens only the family that one of them is opening.
OpensOwn(M) ==
  \A g \in Grants : fam'[g].st # "absent" =>
    Opened(g) \/ \E p \in M : pc[p] = "opening" /\ job[p].grant = g

\* The requests outside M stay where they are.
OthersStay(M) == \A q \in Procs \ M : pc'[q] = pc[q] /\ job'[q] = job[q]

\* The part of the invariant about one request, but for the other requests.
HoldsLive(p) == \A s \in Sessions : Holds(p, s) => Live(s)
NotOpenedYet(p) == pc[p] \in {"won", "opening"} => ~Opened(job[p].grant)

LEMMA Others ==
  ASSUME IInv, NEW M \in SUBSET Procs, Kept, LocksRespected(M), OpensOwn(M), OthersStay(M),
         NEW q \in Procs \ M
  PROVE  /\ JobOK(q)' /\ HoldsLive(q)' /\ NotOpenedYet(q)'
         /\ \A s \in Sessions : Holds(q, s)' <=> Holds(q, s)
<1> USE DEF IInv, ProcInv
<1>1. pc'[q] = pc[q] /\ job'[q] = job[q] /\ pc[q] \in Steps /\ job[q] \in JobType
  BY DEF OthersStay, TypeOK
<1>2. JobOK(q)
  BY DEF JobShape
<1>3. JobOK(q)'
  <2>1. job[q].snap \subseteq Sessions
    BY <1>1 DEF JobType
  <2> QED BY <1>1, <1>2, <2>1 DEF JobOK, Kept
<1>4. \A s \in Sessions : Holds(q, s)' <=> Holds(q, s)
  BY <1>1, <1>2 DEF Holds, JobOK, Kept
<1>5. HoldsLive(q)'
  BY <1>4 DEF HoldsLive, LocksRespected, Live
<1>6. NotOpenedYet(q)'
  <2> SUFFICES ASSUME pc[q] \in {"won", "opening"}, fam'[job[q].grant].st # "absent" PROVE FALSE
    BY <1>1 DEF NotOpenedYet, Opened
  <2>1. job[q].grant \in Grants /\ ~Opened(job[q].grant)
    BY <1>2 DEF JobOK, CodeOnce
  <2>2. PICK p \in M : pc[p] = "opening" /\ job[p].grant = job[q].grant
    BY <2>1 DEF OpensOwn
  <2> QED BY <2>2 DEF CodeOnce
<1> QED BY <1>3, <1>4, <1>5, <1>6

\* A step no request takes.
LEMMA NobodyMoves ==
  ASSUME IInv, Kept, LocksRespected({}), OpensOwn({}), pc' = pc, job' = job
  PROVE  ProcInv'
<1>1. OthersStay({})
  BY DEF OthersStay
<1>2. \A q \in Procs : /\ JobOK(q)' /\ HoldsLive(q)' /\ NotOpenedYet(q)'
                       /\ \A s \in Sessions : Holds(q, s)' <=> Holds(q, s)
  BY <1>1, Others
<1>3. JobShape'
  BY <1>2 DEF JobShape
<1>4. LockDiscipline'
  BY <1>2 DEF LockDiscipline, HoldsLive, IInv, ProcInv
<1>5. CodeOnce'
  BY <1>2 DEF CodeOnce, NotOpenedYet, IInv, ProcInv
<1> QED BY <1>3, <1>4, <1>5 DEF ProcInv

\* A request moves to another step with what it remembers.
LEMMA OneMoves ==
  ASSUME IInv, NEW p \in Procs, NEW step \in Steps, NEW j \in JobType, Goto(p, step, j),
         Kept, LocksRespected({p}), OpensOwn({p}),
         JobOK(p)', HoldsLive(p)', NotOpenedYet(p)',
         \A s \in Sessions, q \in Procs \ {p} : Holds(p, s)' => ~Holds(q, s),
         step \in {"won", "opening"} => \A q \in Procs \ {p} :
           pc[q] \in {"won", "opening"} => job[q].grant # j.grant
  PROVE  ProcInv'
<1>1. OthersStay({p}) /\ pc'[p] = step /\ job'[p] = j
  BY DEF OthersStay, Goto, IInv, TypeOK
<1>2. \A q \in Procs \ {p} : /\ JobOK(q)' /\ HoldsLive(q)' /\ NotOpenedYet(q)'
                             /\ \A s \in Sessions : Holds(q, s)' <=> Holds(q, s)
  BY <1>1, Others
<1>3. JobShape'
  BY <1>2 DEF JobShape
<1>4. LockDiscipline'
  <2>1. \A q \in Procs : HoldsLive(q)'
    BY <1>2
  <2>2. \A s \in Sessions : \A a, b \in Procs : a # b => ~Holds(a, s)' \/ ~Holds(b, s)'
    <3> SUFFICES ASSUME NEW s \in Sessions, NEW a \in Procs, NEW b \in Procs, a # b
                 PROVE  ~Holds(a, s)' \/ ~Holds(b, s)'
      OBVIOUS
    <3>1. CASE a = p
      BY <1>2, <3>1 DEF Holds
    <3>2. CASE b = p
      BY <1>2, <3>2 DEF Holds
    <3>3. CASE a # p /\ b # p
      BY <1>2, <3>3 DEF LockDiscipline, IInv, ProcInv
    <3> QED BY <3>1, <3>2, <3>3
  <2> QED BY <2>1, <2>2 DEF LockDiscipline, HoldsLive
<1>5. CodeOnce'
  <2> SUFFICES ASSUME NEW a \in Procs, pc'[a] \in {"won", "opening"}, NEW b \in Procs \ {a},
                      pc'[b] \in {"won", "opening"}
               PROVE  job'[b].grant # job'[a].grant
    BY <1>2 DEF CodeOnce, NotOpenedYet
  <2>1. CASE a = p \/ b = p
    BY <1>1, <2>1 DEF OthersStay
  <2>2. CASE a # p /\ b # p
    BY <1>1, <2>2 DEF OthersStay, CodeOnce, IInv, ProcInv
  <2> QED BY <2>1, <2>2
<1> QED BY <1>3, <1>4, <1>5 DEF ProcInv

\* A request ends.
LEMMA OneFinishes ==
  ASSUME IInv, NEW p \in Procs, Finish(p), Kept, LocksRespected({p}), OpensOwn({p})
  PROVE  ProcInv'
<1>1. pc'[p] = "idle" /\ Goto(p, "idle", NoJob) /\ "idle" \in Steps
  BY DEF Finish, Goto, Steps, IInv, TypeOK
<1>2. JobOK(p)' /\ HoldsLive(p)' /\ NotOpenedYet(p)' /\ \A s \in Sessions : ~Holds(p, s)'
  BY <1>1 DEF JobOK, HoldsLive, NotOpenedYet, Holds
<1> QED BY <1>1, <1>2, NoJobType, OneMoves

\* A step that leaves these rows alone keeps all that is said of rows.
coreVars == <<sess, grant, fam, tok, events>>

LEMMA RowsAlone ==
  ASSUME IInv, NEW M \in SUBSET Procs, UNCHANGED coreVars
  PROVE  RowInv' /\ Kept /\ LocksRespected(M) /\ OpensOwn(M)
<1>1. RowInv'
  BY DEF IInv, RowInv, RowShape, Anchored, NoOrphan, EventPerEnd, ReuseOnce, SingleLeaf, Leaf,
         Family, Opened, Live, coreVars
<1>2. Kept
  BY DEF Kept, coreVars
<1>3. LocksRespected(M) /\ OpensOwn(M)
  BY DEF LocksRespected, OpensOwn, IInv, ProcInv, LockDiscipline, Live, Opened, coreVars
<1> QED BY <1>1, <1>2, <1>3

-----------------------------------------------------------------------------
(* Steps that only move a request.                                         *)

\* A step at which a request takes no lock and passes no gate.
Plain == {"idle", "login", "sid", "minted", "cleared", "picked", "sweeping"}

LEMMA PlainMove ==
  ASSUME IInv, NEW p \in Procs, NEW step \in Plain, NEW j \in JobType, Goto(p, step, j),
         UNCHANGED <<now, rowVars>>, JobOK(p)'
  PROVE  IInv'
<1>1. step \in Steps /\ step \notin {"rotating", "won", "opening"} /\ pc'[p] = step
  BY DEF Plain, Steps, Goto, IInv, TypeOK
<1>2. HoldsLive(p)' /\ NotOpenedYet(p)' /\ \A s \in Sessions : ~Holds(p, s)'
  BY <1>1 DEF HoldsLive, NotOpenedYet, Holds
<1>3. RowInv' /\ Kept /\ LocksRespected({p}) /\ OpensOwn({p})
  BY RowsAlone DEF rowVars, coreVars
<1>4. ProcInv'
  BY <1>1, <1>2, <1>3, OneMoves
<1>5. TypeOK'
  BY <1>1, GotoType DEF IInv, TypeOK, rowVars
<1> QED BY <1>3, <1>4, <1>5 DEF IInv

LEMMA LoginStep ==
  ASSUME IInv, NEW p \in Procs, NEW u \in Users, NEW s \in Sessions \cup {NONE}, Login(p, u, s)
  PROVE  IInv'
<1> DEFINE j == [NoJob EXCEPT !.user = u, !.sess = s]
<1>1. Goto(p, "login", j) /\ UNCHANGED <<now, rowVars>> /\ "login" \in Plain
  BY DEF Login, Plain
<1>2. j \in JobType
  BY NoJobType DEF JobType
<1>3. j.user = u
  BY DEF NoJob
<1>4. JobOK(p)'
  BY <1>1, <1>3 DEF JobOK, Goto, IInv, TypeOK
<1> HIDE DEF j
<1> QED BY <1>1, <1>2, <1>4, PlainMove

LEMMA StartExchangeStep ==
  ASSUME IInv, NEW p \in Procs, NEW g \in Grants, StartExchange(p, g)
  PROVE  IInv'
<1> DEFINE j == [NoJob EXCEPT !.grant = g]
<1>1. Goto(p, "sid", j) /\ UNCHANGED <<now, rowVars>> /\ "sid" \in Plain
  BY DEF StartExchange, Plain
<1>2. j \in JobType
  BY NoJobType DEF JobType
<1>3. j.grant = g
  BY DEF NoJob
<1>4. JobOK(p)'
  BY <1>1, <1>3 DEF JobOK, Goto, IInv, TypeOK, StartExchange, rowVars
<1> HIDE DEF j
<1> QED BY <1>1, <1>2, <1>4, PlainMove

LEMMA StartRefreshStep ==
  ASSUME IInv, NEW p \in Procs, NEW t \in Tokens, StartRefresh(p, t)
  PROVE  IInv'
<1> DEFINE j == [NoJob EXCEPT !.tok = t]
<1>1. Goto(p, "cleared", j) /\ UNCHANGED <<now, rowVars>> /\ "cleared" \in Plain
  BY DEF StartRefresh, Plain
<1>2. j \in JobType
  BY NoJobType DEF JobType
<1>3. j.tok = t
  BY DEF NoJob
<1>4. JobOK(p)'
  BY <1>1, <1>3 DEF JobOK, Goto, IInv, TypeOK, StartRefresh, rowVars
<1> HIDE DEF j
<1> QED BY <1>1, <1>2, <1>4, PlainMove

LEMMA RedeemReadStep ==
  ASSUME IInv, NEW p \in Procs, RedeemRead(p)
  PROVE  IInv'
<1> DEFINE j == [job[p] EXCEPT !.at = now]
<1>1. Goto(p, "picked", j) /\ UNCHANGED <<now, rowVars>> /\ "picked" \in Plain
  BY DEF RedeemRead, Plain
<1>2. job[p] \in JobType /\ now \in Nat
  BY DEF IInv, TypeOK
<1>3. j \in JobType /\ j.tok = job[p].tok
  BY <1>2 DEF JobType
<1>4. pc[p] = "cleared" /\ JobOK(p)
  BY DEF RedeemRead, At, IInv, ProcInv, JobShape
<1>5. JobOK(p)'
  BY <1>1, <1>3, <1>4 DEF JobOK, Goto, IInv, TypeOK, rowVars
<1> HIDE DEF j
<1> QED BY <1>1, <1>3, <1>5, PlainMove

LEMMA SweepStartStep ==
  ASSUME IInv, NEW p \in Procs, NEW u \in Users, NEW to \in Fates, NEW hard \in Kills,
         SweepStart(p, u, to, hard)
  PROVE  IInv'
<1> DEFINE S == {s \in Sessions : Live(s) /\ sess[s].subject = u}
           j == [NoJob EXCEPT !.user = u, !.to = to, !.hard = hard, !.snap = S]
<1>1. Goto(p, "sweeping", j) /\ UNCHANGED <<now, rowVars>> /\ "sweeping" \in Plain
  BY DEF SweepStart, Plain
<1>2. j \in JobType
  BY NoJobType, BoundsAssumption DEF JobType
<1>3. j.user = u /\ j.snap = S
  BY DEF NoJob
<1>4. JobOK(p)'
  BY <1>1, <1>3 DEF JobOK, Goto, IInv, TypeOK, Live, rowVars
<1> HIDE DEF j
<1> QED BY <1>1, <1>2, <1>4, PlainMove

LEMMA AbortStep ==
  ASSUME IInv, NEW p \in Procs, Abort(p)
  PROVE  IInv'
<1>1. Goto(p, "idle", NoJob) /\ UNCHANGED <<now, rowVars>> /\ "idle" \in Plain
  BY DEF Abort, Finish, Plain
<1>2. JobOK(p)'
  BY <1>1 DEF JobOK, Goto, IInv, TypeOK
<1> QED BY <1>1, <1>2, NoJobType, PlainMove

LEMMA TickStep == ASSUME IInv, Tick PROVE IInv'
<1>1. UNCHANGED <<rowVars, pc, job>> /\ now' \in Nat
  BY DEF Tick, IInv, TypeOK
<1>2. RowInv' /\ Kept /\ LocksRespected({}) /\ OpensOwn({})
  BY <1>1, RowsAlone DEF rowVars, coreVars
<1>3. ProcInv'
  BY <1>1, <1>2, NobodyMoves
<1>4. TypeOK'
  BY <1>1 DEF IInv, TypeOK, rowVars
<1> QED BY <1>2, <1>3, <1>4 DEF IInv

\* The rotation locks the prior session, if it finds it free and live.
LEMMA RotateLockStep ==
  ASSUME IInv, NEW p \in Procs, RotateLock(p)
  PROVE  IInv'
<1> DEFINE s == job[p].sess
           x == IF s # NONE THEN IF Live(s) THEN s ELSE NONE ELSE NONE
           j == [job[p] EXCEPT !.sess = x]
<1>1. Goto(p, "rotating", j) /\ UNCHANGED <<now, rowVars>> /\ "rotating" \in Steps
  BY DEF RotateLock, Steps
<1>2. job[p] \in JobType
  BY DEF IInv, TypeOK
<1>3. j \in JobType /\ j.sess = x /\ j.user = job[p].user
  BY <1>2 DEF JobType
<1>4. pc'[p] = "rotating" /\ job'[p] = j
  BY <1>1 DEF Goto, IInv, TypeOK
<1>5. \A y \in Sessions : Holds(p, y)' => y = s /\ Live(y) /\ ~Locked(y)
  BY <1>3, <1>4, NoneAssumption DEF Holds, RotateLock
<1>6. JobOK(p)'
  <2>1. pc[p] = "login" /\ JobOK(p)
    BY DEF RotateLock, At, IInv, ProcInv, JobShape
  <2> QED BY <1>3, <1>4, <2>1 DEF JobOK
<1>7. HoldsLive(p)'
  BY <1>1, <1>5 DEF HoldsLive, Live, rowVars
<1>8. NotOpenedYet(p)'
  BY <1>4 DEF NotOpenedYet
<1>9. \A y \in Sessions, q \in Procs \ {p} : Holds(p, y)' => ~Holds(q, y)
  BY <1>5 DEF Locked
<1>10. RowInv' /\ Kept /\ LocksRespected({p}) /\ OpensOwn({p})
  BY <1>1, RowsAlone DEF rowVars, coreVars
<1>11. TypeOK'
  BY <1>1, <1>3, GotoType DEF IInv, TypeOK, rowVars
<1> HIDE DEF j
<1>12. ProcInv'
  BY <1>1, <1>3, <1>6, <1>7, <1>8, <1>9, <1>10, OneMoves
<1> QED BY <1>10, <1>11, <1>12 DEF IInv

\* A session-bound family locks its session and goes on only if it is live.
LEMMA OpenLockStep ==
  ASSUME IInv, NEW p \in Procs, OpenLock(p)
  PROVE  IInv'
<1> DEFINE g == job[p].grant
           s == grant[g].session
<1>1. pc[p] = "won" /\ JobOK(p) /\ job[p] \in JobType /\ UNCHANGED <<now, rowVars>>
  BY DEF OpenLock, At, IInv, ProcInv, JobShape, TypeOK
<1>2. RowInv' /\ Kept /\ LocksRespected({p}) /\ OpensOwn({p})
  BY <1>1, RowsAlone DEF rowVars, coreVars
<1>3. CASE Finish(p)
  <2>1. TypeOK'
    BY <1>1, <1>3, FinishType DEF IInv, TypeOK, rowVars
  <2>2. ProcInv'
    BY <1>2, <1>3, OneFinishes
  <2> QED BY <1>2, <2>1, <2>2 DEF IInv
<1>4. CASE Goto(p, "opening", job[p]) /\ (grant[g].offline \/ (~Locked(s) /\ Usable(s)))
  <2>1. pc'[p] = "opening" /\ job'[p] = job[p] /\ "opening" \in Steps
    BY <1>4 DEF Goto, Steps, IInv, TypeOK
  <2>2. g \in Grants /\ grant[g].st # "absent" /\ grant[g].consumedAt # NONE
    BY <1>1 DEF JobOK
  <2>3. JobOK(p)'
    BY <1>1, <2>1, <2>2 DEF JobOK, rowVars
  <2>4. \A y \in Sessions : Holds(p, y)' => y = s /\ Live(y) /\ ~Locked(y)
    BY <1>1, <1>4, <2>1 DEF Holds, Usable, rowVars
  <2>5. HoldsLive(p)'
    BY <1>1, <2>4 DEF HoldsLive, Live, rowVars
  <2>6. ~Opened(g) /\ \A q \in Procs \ {p} : pc[q] \in {"won", "opening"} => job[q].grant # g
    BY <1>1 DEF CodeOnce, IInv, ProcInv
  <2>7. NotOpenedYet(p)'
    BY <1>1, <2>1, <2>6 DEF NotOpenedYet, Opened, rowVars
  <2>8. \A y \in Sessions, q \in Procs \ {p} : Holds(p, y)' => ~Holds(q, y)
    BY <2>4 DEF Locked
  <2>9. ProcInv'
    BY <1>1, <1>2, <1>4, <2>1, <2>3, <2>5, <2>6, <2>7, <2>8, OneMoves
  <2>10. TypeOK'
    BY <1>1, <1>4, <2>1, GotoType DEF IInv, TypeOK, rowVars
  <2> QED BY <1>2, <2>9, <2>10 DEF IInv
<1>5. \/ Finish(p)
      \/ Goto(p, "opening", job[p]) /\ (grant[g].offline \/ (~Locked(s) /\ Usable(s)))
  BY DEF OpenLock
<1> HIDE DEF g, s
<1> QED BY <1>3, <1>4, <1>5

\* The client session is written; no other row changes.
LEMMA CommitSidStep ==
  ASSUME IInv, NEW p \in Procs, CommitSid(p)
  PROVE  IInv'
<1>1. /\ pc[p] = "sid" /\ JobOK(p) /\ job[p] \in JobType /\ Goto(p, "minted", job[p])
      /\ UNCHANGED <<now, user, sess, lapsed, grant, fam, tok, events>> /\ "minted" \in Steps
  BY DEF CommitSid, At, IInv, ProcInv, JobShape, TypeOK, Steps
<1>2. pc'[p] = "minted" /\ job'[p] = job[p]
  BY <1>1 DEF Goto, IInv, TypeOK
<1>3. RowInv' /\ Kept /\ LocksRespected({p}) /\ OpensOwn({p})
  BY <1>1, RowsAlone DEF coreVars
<1>4. JobOK(p)' /\ HoldsLive(p)' /\ NotOpenedYet(p)' /\ \A s \in Sessions : ~Holds(p, s)'
  BY <1>1, <1>2 DEF JobOK, HoldsLive, NotOpenedYet, Holds
<1>5. ProcInv'
  BY <1>1, <1>3, <1>4, OneMoves
<1>6. sid' \in [Sessions -> [Clients -> {"absent", "live", "revoked"}]]
  BY ClientAssumption DEF CommitSid, IInv, TypeOK
<1>7. TypeOK'
  BY <1>1, <1>6, GotoType DEF IInv, TypeOK
<1> QED BY <1>3, <1>5, <1>7 DEF IInv

LEMMA ReactivateStep ==
  ASSUME IInv, NEW u \in Users, Reactivate(u)
  PROVE  IInv'
<1>1. RowInv' /\ Kept /\ LocksRespected({}) /\ OpensOwn({})
  BY RowsAlone DEF Reactivate, coreVars
<1>2. ProcInv'
  BY <1>1, NobodyMoves DEF Reactivate
<1>3. TypeOK'
  BY DEF Reactivate, IInv, TypeOK
<1> QED BY <1>1, <1>2, <1>3 DEF IInv

LEMMA LapseStep ==
  ASSUME IInv, NEW s \in Sessions, Lapse(s)
  PROVE  IInv'
<1>1. RowInv' /\ Kept /\ LocksRespected({}) /\ OpensOwn({})
  BY RowsAlone DEF Lapse, coreVars
<1>2. ProcInv'
  BY <1>1, NobodyMoves DEF Lapse
<1>3. TypeOK'
  BY DEF Lapse, IInv, TypeOK
<1> QED BY <1>1, <1>2, <1>3 DEF IInv

-----------------------------------------------------------------------------
(* Codes and grants.                                                       *)

\* A step that writes to existing grants, and to nothing else of these rows.
LEMMA GrantsTouched ==
  ASSUME IInv, NEW M \in SUBSET Procs, UNCHANGED <<sess, fam, tok, events>>, Kept,
         \A g \in Grants : grant[g].st = "absent" => grant'[g] = grant[g],
         \A g \in Grants : grant'[g].reuses <= 1 /\ (grant'[g].reuses = 1 => grant'[g].st = "revoked")
  PROVE  RowInv' /\ LocksRespected(M) /\ OpensOwn(M)
<1> USE DEF IInv, RowInv
<1>1. RowShape'
  BY DEF RowShape, Anchored, Opened, Kept
<1>2. NoOrphan'
  BY DEF NoOrphan, RowShape, Opened, Live, Kept
<1>3. EventPerEnd' /\ SingleLeaf'
  BY DEF EventPerEnd, SingleLeaf, Leaf, Family, Opened
<1>4. ReuseOnce'
  BY DEF ReuseOnce
<1>5. LocksRespected(M) /\ OpensOwn(M)
  BY DEF LocksRespected, OpensOwn, ProcInv, LockDiscipline, Live, Opened
<1> QED BY <1>1, <1>2, <1>3, <1>4, <1>5

\* The single-use gate: whoever is past it, or has opened a family, found the code
\* unconsumed and left it consumed.
LEMMA ConsumeCodeStep ==
  ASSUME IInv, NEW p \in Procs, ConsumeCode(p)
  PROVE  IInv'
<1> DEFINE g == job[p].grant
<1>1. /\ pc[p] = "minted" /\ JobOK(p) /\ job[p] \in JobType /\ Goto(p, "won", job[p])
      /\ UNCHANGED <<now, user, sess, lapsed, sid, fam, tok, events>>
      /\ grant' = [grant EXCEPT ![g].consumedAt = now] /\ grant[g].consumedAt = NONE
      /\ "won" \in Steps
  BY DEF ConsumeCode, At, IInv, ProcInv, JobShape, TypeOK, Steps
<1>2. pc'[p] = "won" /\ job'[p] = job[p]
  BY <1>1 DEF Goto, IInv, TypeOK
<1>3. g \in Grants /\ grant[g].st # "absent" /\ grant[g] \in GrantType /\ now \in Nat
  BY <1>1 DEF JobOK, IInv, TypeOK
<1>4. /\ \A h \in Grants \ {g} : grant'[h] = grant[h]
      /\ grant'[g] = [grant[g] EXCEPT !.consumedAt = now]
  BY <1>1, <1>3 DEF IInv, TypeOK
<1>5. /\ grant'[g].consumedAt = now /\ grant'[g].st = grant[g].st
      /\ grant'[g].session = grant[g].session /\ grant'[g].subject = grant[g].subject
      /\ grant'[g].offline = grant[g].offline /\ grant'[g].reuses = grant[g].reuses
  BY <1>3, <1>4 DEF GrantType
<1>6. now # NONE
  BY <1>3, NoneAssumption
<1>7. Kept
  BY <1>1, <1>4, <1>5, <1>6 DEF Kept
<1>8. RowInv' /\ LocksRespected({p}) /\ OpensOwn({p})
  <2>1. \A h \in Grants : grant[h].st = "absent" => grant'[h] = grant[h]
    BY <1>3, <1>4
  <2>2. \A h \in Grants : grant'[h].reuses <= 1 /\ (grant'[h].reuses = 1 => grant'[h].st = "revoked")
    <3> TAKE h \in Grants
    <3>1. grant'[h].reuses = grant[h].reuses /\ grant'[h].st = grant[h].st
      BY <1>4, <1>5
    <3> QED BY <3>1 DEF IInv, RowInv, ReuseOnce
  <2> QED BY <1>1, <1>7, <2>1, <2>2, GrantsTouched
<1>9. JobOK(p)'
  BY <1>2, <1>3, <1>5, <1>6 DEF JobOK
<1>10. HoldsLive(p)' /\ \A s \in Sessions : ~Holds(p, s)'
  BY <1>2 DEF HoldsLive, Holds
<1>11. ~Opened(g)
  BY <1>1, <1>3 DEF IInv, RowInv, RowShape
<1>12. NotOpenedYet(p)'
  BY <1>1, <1>2, <1>11 DEF NotOpenedYet, Opened
<1>13. \A q \in Procs \ {p} : pc[q] \in {"won", "opening"} => job[q].grant # g
  BY <1>1 DEF IInv, ProcInv, JobShape, JobOK
<1>14. ProcInv'
  BY <1>1, <1>7, <1>8, <1>9, <1>10, <1>12, <1>13, OneMoves
<1>15. TypeOK'
  <2>1. grant' \in [Grants -> GrantType]
    <3>1. [grant[g] EXCEPT !.consumedAt = now] \in GrantType
      BY <1>3, InstantFacts DEF GrantType
    <3> QED BY <1>1, <3>1 DEF IInv, TypeOK
  <2> QED BY <1>1, <2>1, GotoType DEF IInv, TypeOK
<1> QED BY <1>8, <1>14, <1>15 DEF IInv

\* A replay revokes the grant once: the second finds it revoked.
LEMMA MissCodeStep ==
  ASSUME IInv, NEW p \in Procs, MissCode(p)
  PROVE  IInv'
<1> DEFINE g == job[p].grant
           reused == now - grant[g].consumedAt > CodeGrace
           after == [grant[g] EXCEPT !.st = "revoked", !.reuses = @ + 1]
<1>1. /\ pc[p] = "minted" /\ JobOK(p) /\ Finish(p)
      /\ UNCHANGED <<now, user, sess, lapsed, sid, fam, tok, events>>
  BY DEF MissCode, At, IInv, ProcInv, JobShape
<1>2. g \in Grants /\ grant[g].st # "absent" /\ grant[g] \in GrantType /\ grant \in [Grants -> GrantType]
  BY <1>1 DEF JobOK, IInv, TypeOK
<1>3. \/ grant' = grant
      \/ grant[g].st = "live" /\ grant' = [grant EXCEPT ![g] = after]
  BY <1>2 DEF MissCode
<1>4. /\ after \in GrantType /\ after.st = "revoked" /\ after.reuses = grant[g].reuses + 1
      /\ after.session = grant[g].session /\ after.subject = grant[g].subject
      /\ after.offline = grant[g].offline /\ after.consumedAt = grant[g].consumedAt
  <2>1. grant[g].reuses + 1 \in Nat
    BY <1>2 DEF GrantType
  <2> QED BY <1>2, <2>1 DEF GrantType
<1>5. grant[g].st = "live" => grant[g].reuses = 0
  BY <1>2 DEF IInv, RowInv, ReuseOnce, GrantType
<1> HIDE DEF after
<1>6. Kept
  BY <1>1, <1>2, <1>3, <1>4 DEF Kept
<1>7. RowInv' /\ LocksRespected({p}) /\ OpensOwn({p})
  <2>1. \A h \in Grants : grant[h].st = "absent" => grant'[h] = grant[h]
    BY <1>2, <1>3
  <2>2. \A h \in Grants : grant'[h].reuses <= 1 /\ (grant'[h].reuses = 1 => grant'[h].st = "revoked")
    <3>1. grant[g].st = "live" => after.reuses = 1
      BY <1>4, <1>5
    <3> QED BY <1>2, <1>3, <1>4, <3>1 DEF IInv, RowInv, ReuseOnce
  <2> QED BY <1>1, <1>6, <2>1, <2>2, GrantsTouched
<1>8. ProcInv'
  BY <1>1, <1>6, <1>7, OneFinishes
<1>9. TypeOK'
  <2>1. grant' \in [Grants -> GrantType]
    BY <1>2, <1>3, <1>4
  <2> QED BY <1>1, <2>1, FinishType DEF IInv, TypeOK
<1> QED BY <1>7, <1>8, <1>9 DEF IInv

\* A new grant: nothing refers to it yet.
LEMMA IssueCodeStep ==
  ASSUME IInv, NEW g \in Grants, NEW s \in Sessions, NEW offline \in BOOLEAN,
         IssueCode(g, s, offline)
  PROVE  IInv'
<1> DEFINE new == [st |-> "live", session |-> s, subject |-> sess[s].subject,
                   offline |-> offline, consumedAt |-> NONE, reuses |-> 0]
<1>1. /\ grant[g].st = "absent" /\ sess[s].st # "absent" /\ grant' = [grant EXCEPT ![g] = new]
      /\ UNCHANGED <<now, user, sess, lapsed, sid, fam, tok, events, pc, job>>
  BY DEF IssueCode
<1>2. /\ new \in GrantType /\ new.st = "live" /\ new.session = s
      /\ new.subject = sess[s].subject /\ new.reuses = 0
  BY InstantFacts DEF GrantType, IInv, TypeOK, SessType
<1> HIDE DEF new
<1>3. grant' \in [Grants -> GrantType] /\ grant'[g] = new /\ \A h \in Grants \ {g} : grant'[h] = grant[h]
  BY <1>1, <1>2 DEF IInv, TypeOK
<1>4. ~Opened(g)
  BY <1>1 DEF IInv, RowInv, RowShape
<1>5. Kept
  BY <1>1, <1>3 DEF Kept
<1>6. RowInv'
  <2> USE DEF IInv, RowInv
  <2>1. RowShape'
    BY <1>1, <1>2, <1>3, <1>4 DEF RowShape, Anchored, Opened
  <2>2. NoOrphan'
    BY <1>1, <1>3, <1>4 DEF NoOrphan, Opened, Live
  <2>3. EventPerEnd' /\ SingleLeaf'
    BY <1>1 DEF EventPerEnd, SingleLeaf, Leaf, Family, Opened
  <2>4. ReuseOnce'
    BY <1>1, <1>2, <1>3 DEF ReuseOnce
  <2> QED BY <2>1, <2>2, <2>3, <2>4
<1>7. LocksRespected({}) /\ OpensOwn({})
  BY <1>1 DEF LocksRespected, OpensOwn, IInv, ProcInv, LockDiscipline, Live, Opened
<1>8. ProcInv'
  BY <1>1, <1>5, <1>7, NobodyMoves
<1>9. TypeOK'
  BY <1>1, <1>3 DEF IInv, TypeOK
<1> QED BY <1>6, <1>8, <1>9 DEF IInv

-----------------------------------------------------------------------------
(* Families and refresh tokens.                                            *)

\* The opened family is alone with its first token, and its session, locked since
\* OpenLock, is live.
LEMMA OpenCommitStep ==
  ASSUME IInv, NEW p \in Procs, NEW t \in Tokens, OpenCommit(p, t)
  PROVE  IInv'
<1> DEFINE g == job[p].grant
           newFam == [st |-> "live", session |-> grant[g].session, reuses |-> 0]
           newTok == [grant |-> g, gen |-> 0, rotatedAt |-> NONE]
<1>1. /\ pc[p] = "opening" /\ JobOK(p) /\ Finish(p) /\ tok[t].grant = NONE
      /\ fam' = [fam EXCEPT ![g] = newFam] /\ tok' = [tok EXCEPT ![t] = newTok]
      /\ UNCHANGED <<now, user, sess, lapsed, sid, grant, events>>
  BY DEF OpenCommit, Unused, At, IInv, ProcInv, JobShape
<1>2. /\ g \in Grants /\ grant[g].st # "absent" /\ grant[g].consumedAt # NONE
      /\ ~Opened(g) /\ g # NONE
  BY <1>1, NoneAssumption DEF JobOK, IInv, ProcInv, CodeOnce
<1>3. Anchored(g, grant[g].session)
  BY <1>2 DEF IInv, RowInv, RowShape
<1>4. newFam \in FamType /\ newTok \in TokType
  BY <1>2, <1>3, InstantFacts DEF FamType, TokType, Anchored
<1>5. /\ fam'[g] = newFam /\ \A h \in Grants \ {g} : fam'[h] = fam[h]
      /\ tok'[t] = newTok /\ \A v \in Tokens \ {t} : tok'[v] = tok[v]
  BY <1>1, <1>2 DEF IInv, TypeOK
<1>6. \A v \in Tokens : tok[v].grant # g
  BY <1>2 DEF IInv, RowInv, RowShape
<1>7. Kept
  BY <1>1, <1>5 DEF Kept
<1>8. RowInv'
  <2> USE DEF IInv, RowInv
  <2>1. RowShape'
    <3>1. \A h \in Grants : Opened(h)' =>
            grant[h].st # "absent" /\ grant[h].consumedAt # NONE /\ Anchored(h, fam'[h].session)
      BY <1>2, <1>3, <1>5 DEF RowShape, Opened
    <3>2. \A v \in Tokens : tok'[v].grant # NONE => fam'[tok'[v].grant].st # "absent"
      <4>1. \A v \in Tokens : tok[v].grant # NONE => tok[v].grant \in Grants \ {g}
        BY <1>6 DEF TypeOK, TokType
      <4> QED BY <1>2, <1>5, <4>1 DEF RowShape, Opened
    <3> QED BY <1>1, <3>1, <3>2 DEF RowShape, Anchored, Opened
  <2>2. NoOrphan'
    <3>1. ~grant[g].offline => Live(grant[g].session)
      BY <1>1, <1>3 DEF ProcInv, LockDiscipline, Holds, Anchored
    <3> QED BY <1>1, <1>5, <3>1 DEF NoOrphan, Live
  <2>3. EventPerEnd'
    BY <1>1 DEF EventPerEnd
  <2>4. ReuseOnce'
    BY <1>1, <1>2, <1>5 DEF ReuseOnce
  <2>5. SingleLeaf'
    <3> SUFFICES ASSUME NEW h \in Grants, Opened(h)'
                 PROVE  \E x \in Tokens : Leaf(h, x)' /\ \A v \in (Family(h) \ {x})' :
                          tok'[v].rotatedAt # NONE /\ tok'[v].gen < tok'[x].gen
      BY DEF SingleLeaf
    <3>1. CASE h = g
      BY <1>5, <1>6, <3>1 DEF Leaf, Family
    <3>2. CASE h # g
      <4>1. Opened(h) /\ newTok.grant # h
        BY <1>5, <3>2 DEF Opened
      <4>2. PICK x \in Tokens : Leaf(h, x) /\ \A v \in Family(h) \ {x} :
                                   tok[v].rotatedAt # NONE /\ tok[v].gen < tok[x].gen
        BY <4>1 DEF SingleLeaf
      <4>3. x # t
        BY <1>1, <4>2, NoneAssumption DEF Leaf
      <4> QED BY <1>5, <4>1, <4>2, <4>3 DEF Leaf, Family
    <3> QED BY <3>1, <3>2
  <2> QED BY <2>1, <2>2, <2>3, <2>4, <2>5
<1>9. LocksRespected({p})
  BY <1>1 DEF LocksRespected, IInv, ProcInv, LockDiscipline, Live
<1>10. OpensOwn({p})
  BY <1>1, <1>5 DEF OpensOwn, Opened
<1>11. ProcInv'
  BY <1>1, <1>7, <1>9, <1>10, OneFinishes
<1>12. TypeOK'
  <2>1. fam' \in [Grants -> FamType] /\ tok' \in [Tokens -> TokType]
    BY <1>1, <1>4 DEF IInv, TypeOK
  <2> QED BY <1>1, <2>1, FinishType DEF IInv, TypeOK
<1> QED BY <1>8, <1>11, <1>12 DEF IInv

\* The rotated token was the leaf of its family; its successor is the new one.
LEMMA RedeemRotateStep ==
  ASSUME IInv, NEW p \in Procs, NEW n \in Tokens, RedeemRotate(p, n)
  PROVE  IInv'
<1> DEFINE t == job[p].tok
           g == tok[t].grant
           old == [tok[t] EXCEPT !.rotatedAt = job[p].at]
           new == [grant |-> g, gen |-> tok[t].gen + 1, rotatedAt |-> NONE]
<1>1. /\ pc[p] = "picked" /\ JobOK(p) /\ Finish(p) /\ tok[t].rotatedAt = NONE
      /\ tok[n].grant = NONE /\ tok' = [tok EXCEPT ![t].rotatedAt = job[p].at, ![n] = new]
      /\ UNCHANGED <<now, user, sess, lapsed, sid, grant, fam, events>>
  BY DEF RedeemRotate, Unused, At, IInv, ProcInv, JobShape
<1>2. t \in Tokens /\ g # NONE /\ t # n /\ tok[t] \in TokType /\ job[p].at \in Nat
  BY <1>1 DEF JobOK, IInv, TypeOK, JobType
<1>3. g \in Grants /\ Opened(g) /\ job[p].at # NONE
  BY <1>2, NoneAssumption DEF TokType, IInv, RowInv, RowShape
<1>4. /\ old \in TokType /\ old.grant = g /\ old.gen = tok[t].gen /\ old.rotatedAt = job[p].at
      /\ new \in TokType /\ new.grant = g /\ new.gen = tok[t].gen + 1 /\ new.rotatedAt = NONE
      /\ tok[t].gen \in Nat
  <2>1. tok[t].gen \in Nat /\ tok[t].gen + 1 \in Nat
    BY <1>2 DEF TokType
  <2> QED BY <1>2, <1>3, <2>1, InstantFacts DEF TokType
<1>5. tok'[t] = old /\ tok'[n] = new /\ \A v \in Tokens \ {t, n} : tok'[v] = tok[v]
  BY <1>1, <1>2 DEF IInv, TypeOK
<1> HIDE DEF old, new
<1>6. Kept
  BY <1>1, <1>2, <1>4, <1>5 DEF Kept
<1>7. RowInv'
  <2> USE DEF IInv, RowInv
  <2>1. RowShape'
    <3>1. \A v \in Tokens : tok'[v].grant # NONE => fam[tok'[v].grant].st # "absent"
      BY <1>3, <1>4, <1>5 DEF RowShape, Opened
    <3>2. UNCHANGED <<sess, grant, fam>>
      BY <1>1
    <3> QED BY <3>1, <3>2 DEF RowShape, Anchored, Opened
  <2>2. NoOrphan' /\ EventPerEnd' /\ ReuseOnce'
    BY <1>1 DEF NoOrphan, EventPerEnd, ReuseOnce, Live
  <2>3. SingleLeaf'
    <3> SUFFICES ASSUME NEW h \in Grants, Opened(h)
                 PROVE  \E x \in Tokens : Leaf(h, x)' /\ \A v \in (Family(h) \ {x})' :
                          tok'[v].rotatedAt # NONE /\ tok'[v].gen < tok'[x].gen
      BY <1>1 DEF SingleLeaf, Opened
    <3>1. PICK x \in Tokens : Leaf(h, x) /\ \A v \in Family(h) \ {x} :
                                 tok[v].rotatedAt # NONE /\ tok[v].gen < tok[x].gen
      BY DEF SingleLeaf
    <3>2. CASE h = g
      <4>1. x = t
        BY <1>1, <1>2, <3>1, <3>2 DEF Family
      <4>2. \A v \in Tokens : tok[v].gen \in Nat
        BY DEF TypeOK, TokType
      <4>3. Leaf(h, n)'
        BY <1>4, <1>5, <3>2 DEF Leaf
      <4>4. \A v \in Tokens \ {n} : tok'[v].grant = h =>
              tok'[v].rotatedAt # NONE /\ tok'[v].gen < tok'[n].gen
        BY <1>2, <1>3, <1>4, <1>5, <3>1, <3>2, <4>1, <4>2 DEF Family
      <4> QED BY <4>3, <4>4 DEF Family
    <3>3. CASE h # g
      <4>1. x # n /\ x # t
        BY <1>1, <3>1, <3>3, NoneAssumption DEF Leaf
      <4> QED BY <1>4, <1>5, <3>1, <3>3, <4>1 DEF Leaf, Family
    <3> QED BY <3>2, <3>3
  <2> QED BY <2>1, <2>2, <2>3
<1>8. LocksRespected({p}) /\ OpensOwn({p})
  BY <1>1 DEF LocksRespected, OpensOwn, IInv, ProcInv, LockDiscipline, Live, Opened
<1>9. ProcInv'
  BY <1>1, <1>6, <1>8, OneFinishes
<1>10. TypeOK'
  <2>1. tok' \in [Tokens -> TokType]
    BY <1>1, <1>2, <1>4 DEF IInv, TypeOK, old
  <2> QED BY <1>1, <2>1, FinishType DEF IInv, TypeOK
<1> QED BY <1>7, <1>9, <1>10 DEF IInv

\* A step that revokes families and grants, and writes nothing else of these rows.
LEMMA FamiliesTouched ==
  ASSUME IInv, NEW M \in SUBSET Procs, UNCHANGED <<sess, tok, events>>, Kept,
         \A g \in Grants : grant[g].st = "absent" => grant'[g] = grant[g],
         \A g \in Grants :
           /\ fam'[g].session = fam[g].session
           /\ fam'[g].st = "absent" <=> fam[g].st = "absent"
           /\ fam'[g].st = "live" => fam[g].st = "live",
         ReuseOnce'
  PROVE  RowInv' /\ LocksRespected(M) /\ OpensOwn(M)
<1> USE DEF IInv, RowInv
<1>1. RowShape'
  <2>1. \A g \in Grants : Opened(g)' <=> Opened(g)
    BY DEF Opened
  <2>2. \A g \in Grants : grant'[g].st # "absent" => Anchored(g, grant[g].session)'
    BY DEF RowShape, Anchored, Kept
  <2>3. \A g \in Grants : Opened(g) =>
          grant'[g].st # "absent" /\ grant'[g].consumedAt # NONE /\ Anchored(g, fam[g].session)'
    BY DEF RowShape, Anchored, Kept
  <2>4. \A t \in Tokens : tok[t].grant # NONE => tok[t].grant \in Grants
    BY DEF TypeOK, TokType
  <2>5. \A t \in Tokens : tok'[t].grant # NONE => fam'[tok'[t].grant].st # "absent"
    BY <2>4 DEF RowShape, Opened
  <2> QED BY <2>1, <2>2, <2>3, <2>5 DEF RowShape, Opened
<1>2. NoOrphan'
  BY DEF NoOrphan, RowShape, Opened, Live, Kept
<1>3. EventPerEnd' /\ SingleLeaf'
  BY DEF EventPerEnd, SingleLeaf, Leaf, Family, Opened
<1>4. LocksRespected(M) /\ OpensOwn(M)
  BY DEF LocksRespected, OpensOwn, ProcInv, LockDiscipline, Live, Opened
<1> QED BY <1>1, <1>2, <1>3, <1>4

\* A reuse revokes the family once: the second finds it revoked.
LEMMA RedeemSupersededStep ==
  ASSUME IInv, NEW p \in Procs, RedeemSuperseded(p)
  PROVE  IInv'
<1> DEFINE g == tok[job[p].tok].grant
           after == [fam[g] EXCEPT !.st = "revoked", !.reuses = @ + 1]
<1>1. /\ pc[p] = "picked" /\ JobOK(p) /\ Finish(p)
      /\ UNCHANGED <<now, user, sess, lapsed, sid, grant, tok, events>>
  BY DEF RedeemSuperseded, At, IInv, ProcInv, JobShape
<1>2. job[p].tok \in Tokens /\ g # NONE
  BY <1>1 DEF JobOK
<1>3. g \in Grants /\ fam[g] \in FamType /\ fam \in [Grants -> FamType]
  BY <1>2 DEF IInv, TypeOK, TokType
<1>4. fam' = fam \/ (fam[g].st = "live" /\ fam' = [fam EXCEPT ![g] = after])
  BY <1>3 DEF RedeemSuperseded
<1>5. /\ after \in FamType /\ after.st = "revoked" /\ after.reuses = fam[g].reuses + 1
      /\ after.session = fam[g].session
  <2>1. fam[g].reuses + 1 \in Nat
    BY <1>3 DEF FamType
  <2> QED BY <1>3, <2>1 DEF FamType
<1>6. fam[g].st = "live" => after.reuses = 1
  <2>1. ReuseOnce
    BY DEF IInv, RowInv
  <2>2. fam[g].reuses \in Nat
    BY <1>3 DEF FamType
  <2>3. fam[g].st = "live" => fam[g].reuses = 0
    <3> HIDE DEF g, after
    <3> QED BY <1>3, <2>1, <2>2 DEF ReuseOnce
  <2> QED BY <1>5, <2>3
<1> HIDE DEF after
<1>7. Kept
  BY <1>1 DEF Kept
<1>8. ReuseOnce'
  BY <1>1, <1>3, <1>4, <1>5, <1>6 DEF IInv, RowInv, ReuseOnce
<1>9. \A h \in Grants :
        /\ fam'[h].session = fam[h].session
        /\ fam'[h].st = "absent" <=> fam[h].st = "absent"
        /\ fam'[h].st = "live" => fam[h].st = "live"
  BY <1>3, <1>4, <1>5
<1>10. RowInv' /\ LocksRespected({p}) /\ OpensOwn({p})
  BY <1>1, <1>7, <1>8, <1>9, FamiliesTouched
<1>11. ProcInv'
  BY <1>1, <1>7, <1>10, OneFinishes
<1>12. TypeOK'
  <2>1. fam' \in [Grants -> FamType]
    BY <1>3, <1>4, <1>5
  <2> QED BY <1>1, <2>1, FinishType DEF IInv, TypeOK
<1> QED BY <1>10, <1>11, <1>12 DEF IInv

LEMMA RevokeFamilyStep ==
  ASSUME IInv, NEW g \in Grants, RevokeFamily(g)
  PROVE  IInv'
<1> DEFINE newFam == [fam[g] EXCEPT !.st = "revoked"]
           newGrant == [grant[g] EXCEPT !.st = "revoked"]
<1>1. /\ Opened(g) /\ fam' = [fam EXCEPT ![g] = newFam] /\ grant' = [grant EXCEPT ![g] = newGrant]
      /\ UNCHANGED <<now, user, sess, lapsed, sid, tok, events, pc, job>>
  BY DEF RevokeFamily, IInv, TypeOK
<1>2. fam[g] \in FamType /\ grant[g] \in GrantType /\ grant[g].st # "absent"
  BY <1>1 DEF IInv, TypeOK, RowInv, RowShape
<1>3. /\ newFam \in FamType /\ newFam.st = "revoked" /\ newFam.reuses = fam[g].reuses
      /\ newFam.session = fam[g].session
  BY <1>2 DEF FamType
<1>4. /\ newGrant \in GrantType /\ newGrant.st = "revoked" /\ newGrant.reuses = grant[g].reuses
      /\ newGrant.session = grant[g].session /\ newGrant.subject = grant[g].subject
      /\ newGrant.offline = grant[g].offline /\ newGrant.consumedAt = grant[g].consumedAt
  BY <1>2 DEF GrantType
<1> HIDE DEF newFam, newGrant
<1>5. /\ fam' \in [Grants -> FamType] /\ grant' \in [Grants -> GrantType]
      /\ fam'[g] = newFam /\ grant'[g] = newGrant
      /\ \A h \in Grants \ {g} : fam'[h] = fam[h] /\ grant'[h] = grant[h]
  BY <1>1, <1>3, <1>4 DEF IInv, TypeOK
<1>6. Kept
  BY <1>1, <1>4, <1>5 DEF Kept
<1>7. ReuseOnce'
  <2> SUFFICES ASSUME NEW h \in Grants
               PROVE  /\ fam'[h].reuses <= 1 /\ (fam'[h].reuses = 1 => fam'[h].st = "revoked")
                      /\ grant'[h].reuses <= 1 /\ (grant'[h].reuses = 1 => grant'[h].st = "revoked")
    BY DEF ReuseOnce
  <2>1. /\ fam'[h].reuses = fam[h].reuses /\ (fam'[h].st = fam[h].st \/ fam'[h].st = "revoked")
        /\ grant'[h].reuses = grant[h].reuses
        /\ (grant'[h].st = grant[h].st \/ grant'[h].st = "revoked")
    BY <1>3, <1>4, <1>5
  <2> QED BY <2>1 DEF IInv, RowInv, ReuseOnce
<1>8. \A h \in Grants :
        /\ fam'[h].session = fam[h].session
        /\ fam'[h].st = "absent" <=> fam[h].st = "absent"
        /\ fam'[h].st = "live" => fam[h].st = "live"
  BY <1>1, <1>3, <1>5 DEF Opened
<1>9. RowInv' /\ LocksRespected({}) /\ OpensOwn({})
  <2>1. \A h \in Grants : grant[h].st = "absent" => grant'[h] = grant[h]
    BY <1>2, <1>5
  <2> QED BY <1>1, <1>6, <1>7, <1>8, <2>1, FamiliesTouched
<1>10. ProcInv'
  BY <1>1, <1>6, <1>9, NobodyMoves
<1>11. TypeOK'
  BY <1>1, <1>5 DEF IInv, TypeOK
<1> QED BY <1>9, <1>10, <1>11 DEF IInv

-----------------------------------------------------------------------------
(* Ends of sessions.                                                       *)

\* The cascade over the sessions S and the families F, while the sessions N are
\* created: it may end only sessions nobody has locked, and must reach every
\* session-bound family of the sessions it ends.
LEMMA Cascade ==
  ASSUME IInv, NEW M \in SUBSET Procs, NEW S \in SUBSET Sessions, NEW F \in SUBSET Grants,
         NEW N \in SUBSET Sessions, NEW hard \in BOOLEAN,
         \A s \in S : \A q \in Procs \ M : ~Holds(q, s),
         \A g \in F : Opened(g),
         \A g \in Grants : Opened(g) /\ fam[g].session \in S /\ Live(fam[g].session) => g \in F,
         \A s \in N : /\ sess[s].st = "absent" /\ sess'[s].st = "live"
                      /\ sess'[s].subject \in Users,
         \A s \in Sessions \ N : sess'[s] = SessionsEnded(S)[s],
         events' = EventsFor(S), UNCHANGED tok,
         fam' = FamiliesEnded(F, hard), grant' = GrantsEnded(F, hard)
  PROVE  RowInv' /\ Kept /\ LocksRespected(M) /\ OpensOwn(M)
<1> USE DEF IInv, RowInv
<1>1. \A s \in Sessions \ N :
        /\ sess'[s].st = IF s \in S /\ Live(s) THEN "revoked" ELSE sess[s].st
        /\ sess'[s].subject = sess[s].subject
  <2> TAKE s \in Sessions \ N
  <2>1. sess'[s] = IF s \in S /\ Live(s) THEN [sess[s] EXCEPT !.st = "revoked"] ELSE sess[s]
    BY DEF SessionsEnded
  <2>2. sess[s] \in SessType
    BY DEF TypeOK
  <2> QED BY <2>1, <2>2 DEF SessType
<1>2. \A g \in Grants :
        /\ grant'[g].st = IF hard /\ g \in F THEN "revoked" ELSE grant[g].st
        /\ grant'[g].session = grant[g].session /\ grant'[g].subject = grant[g].subject
        /\ grant'[g].offline = grant[g].offline /\ grant'[g].consumedAt = grant[g].consumedAt
        /\ grant'[g].reuses = grant[g].reuses
  BY DEF GrantsEnded, TypeOK, GrantType
<1>3. \A g \in Grants :
        /\ fam'[g].st = IF g \in F /\ fam[g].st = "live" /\ (hard \/ ~grant[g].offline)
                        THEN "revoked" ELSE fam[g].st
        /\ fam'[g].session = fam[g].session /\ fam'[g].reuses = fam[g].reuses
  BY DEF FamiliesEnded, TypeOK, FamType
<1>4. Kept
  BY <1>1, <1>2 DEF Kept
<1>5. \A g \in Grants : Opened(g)' <=> Opened(g)
  BY <1>3 DEF Opened
<1>6. RowShape'
  <2>1. \A s \in Sessions : sess'[s].st # "absent" => sess'[s].subject \in Users
    BY <1>1 DEF RowShape, Live
  <2>2. \A g \in Grants : grant'[g].st # "absent" <=> grant[g].st # "absent"
    BY <1>2 DEF RowShape
  <2>3. \A g \in Grants : grant[g].st # "absent" => Anchored(g, grant[g].session)'
    BY <1>2, <1>4 DEF RowShape, Anchored, Kept
  <2>4. \A g \in Grants : Opened(g) =>
          grant'[g].st # "absent" /\ grant'[g].consumedAt # NONE /\ Anchored(g, fam[g].session)'
    BY <1>2, <1>3, <1>4 DEF RowShape, Anchored, Kept
  <2>5. \A t \in Tokens : tok[t].grant # NONE => tok[t].grant \in Grants
    BY DEF TypeOK, TokType
  <2>6. \A t \in Tokens : tok'[t].grant # NONE => fam'[tok'[t].grant].st # "absent"
    BY <1>3, <2>5 DEF RowShape, Opened
  <2> QED BY <1>5, <2>1, <2>2, <2>3, <2>4, <2>6 DEF RowShape, Opened
<1>7. NoOrphan'
  <2> SUFFICES ASSUME NEW g \in Grants, fam'[g].st = "live", ~grant'[g].offline
               PROVE  sess'[fam'[g].session].st = "live"
    BY DEF NoOrphan, Live
  <2>1. fam[g].st = "live" /\ ~grant[g].offline /\ g \notin F /\ fam'[g].session = fam[g].session
    BY <1>2, <1>3
  <2>2. Opened(g) /\ Live(fam[g].session) /\ fam[g].session \in Sessions
    BY <2>1 DEF NoOrphan, Opened, RowShape, Anchored
  <2>3. fam[g].session \notin S /\ fam[g].session \notin N
    BY <2>1, <2>2 DEF Live
  <2> QED BY <1>1, <2>1, <2>2, <2>3 DEF Live
<1>8. EventPerEnd'
  <2> SUFFICES ASSUME NEW s \in Sessions
               PROVE  events'[s] = IF sess'[s].st = "revoked" THEN 1 ELSE 0
    BY DEF EventPerEnd
  <2>1. events'[s] = IF s \in S /\ Live(s) THEN events[s] + 1 ELSE events[s]
    BY DEF EventsFor
  <2>2. events[s] = IF sess[s].st = "revoked" THEN 1 ELSE 0
    BY DEF EventPerEnd
  <2>3. CASE s \in N
    BY <2>1, <2>2, <2>3 DEF Live
  <2>4. CASE s \notin N
    BY <1>1, <2>1, <2>2, <2>4 DEF Live
  <2> QED BY <2>3, <2>4
<1>9. ReuseOnce'
  <2> SUFFICES ASSUME NEW g \in Grants
               PROVE  /\ fam'[g].reuses <= 1 /\ (fam'[g].reuses = 1 => fam'[g].st = "revoked")
                      /\ grant'[g].reuses <= 1 /\ (grant'[g].reuses = 1 => grant'[g].st = "revoked")
    BY DEF ReuseOnce
  <2>1. /\ fam'[g].reuses = fam[g].reuses /\ (fam'[g].st = fam[g].st \/ fam'[g].st = "revoked")
        /\ grant'[g].reuses = grant[g].reuses
        /\ (grant'[g].st = grant[g].st \/ grant'[g].st = "revoked")
    BY <1>2, <1>3
  <2> QED BY <2>1 DEF ReuseOnce
<1>10. SingleLeaf'
  BY <1>5 DEF SingleLeaf, Leaf, Family
<1>11. LocksRespected(M)
  <2> SUFFICES ASSUME NEW q \in Procs \ M, NEW s \in Sessions, Holds(q, s)
               PROVE  sess'[s].st = "live"
    BY DEF LocksRespected
  <2>1. Live(s) /\ s \notin S
    BY DEF ProcInv, LockDiscipline
  <2>2. s \notin N
    BY <2>1 DEF Live
  <2> QED BY <1>1, <2>1, <2>2 DEF Live
<1>12. OpensOwn(M)
  BY <1>5 DEF OpensOwn, Opened
<1> QED BY <1>4, <1>6, <1>7, <1>8, <1>9, <1>10, <1>11, <1>12

LEMMA RevokeSessionsStep ==
  ASSUME IInv, NEW S \in SUBSET Sessions, NEW hard \in Kills, RevokeSessions(S, hard)
  PROVE  IInv'
<1> DEFINE F == BoundTo(S)
<1>1. /\ sess' = SessionsEnded(S) /\ events' = EventsFor(S) /\ sid' = SidsEnded(S)
      /\ fam' = FamiliesEnded(F, hard) /\ grant' = GrantsEnded(F, hard)
      /\ \A s \in S : ~Locked(s)
      /\ UNCHANGED <<now, user, lapsed, tok, pc, job>>
  BY DEF RevokeSessions
<1>2. /\ hard \in BOOLEAN /\ F \in SUBSET Grants /\ \A g \in F : Opened(g)
      /\ \A g \in Grants : Opened(g) /\ fam[g].session \in S => g \in F
  BY BoundsAssumption DEF BoundTo
<1>3. \A s \in S : \A q \in Procs : ~Holds(q, s)
  BY <1>1 DEF Locked
<1> HIDE DEF F
<1>4. RowInv' /\ Kept /\ LocksRespected({}) /\ OpensOwn({})
  <2> DEFINE N == {}
  <2>1. \A s \in Sessions \ N : sess'[s] = SessionsEnded(S)[s]
    BY <1>1
  <2>2. N \in SUBSET Sessions /\ \A s \in N : /\ sess[s].st = "absent" /\ sess'[s].st = "live"
                                              /\ sess'[s].subject \in Users
    OBVIOUS
  <2> HIDE DEF N
  <2> QED BY <1>1, <1>2, <1>3, <2>1, <2>2, Cascade
<1>5. ProcInv'
  BY <1>1, <1>4, NobodyMoves
<1>6. TypeOK'
  BY <1>1, CascadeType DEF IInv, TypeOK
<1> QED BY <1>4, <1>5, <1>6 DEF IInv

\* Every live session of the snapshot belongs to the user, so the cascade by subject
\* reaches its families.
LEMMA SweepCommitStep ==
  ASSUME IInv, NEW p \in Procs, SweepCommit(p)
  PROVE  IInv'
<1> DEFINE u == job[p].user
           S == job[p].snap
           F == FamiliesOf(u)
           hard == job[p].hard
<1>1. /\ pc[p] = "sweeping" /\ JobOK(p) /\ Finish(p)
      /\ sess' = SessionsEnded(S) /\ events' = EventsFor(S)
      /\ sid' = SidsEnded({s \in Sessions : sess[s].subject = u})
      /\ fam' = FamiliesEnded(F, hard) /\ grant' = GrantsEnded(F, hard)
      /\ \A s \in S : ~Locked(s)
      /\ user' = IF job[p].to = "active" THEN user ELSE [user EXCEPT ![u] = job[p].to]
      /\ UNCHANGED <<now, lapsed, tok>>
  BY DEF SweepCommit, At, IInv, ProcInv, JobShape
<1>2. /\ hard \in BOOLEAN /\ S \in SUBSET Sessions
      /\ job[p].to \in {"active", "fenced", "deleted"}
  BY DEF IInv, TypeOK, JobType
<1>3. u \in Users /\ \A s \in S : sess[s].st # "absent" /\ sess[s].subject = u
  BY <1>1 DEF JobOK
<1>4. /\ F \in SUBSET Grants /\ \A g \in F : Opened(g)
      /\ \A g \in Grants : Opened(g) /\ fam[g].session \in S => g \in F
  BY <1>3 DEF FamiliesOf, IInv, RowInv, RowShape, Anchored
<1>5. \A s \in S : \A q \in Procs : ~Holds(q, s)
  BY <1>1 DEF Locked
<1>6. TypeOK'
  <2>1. user' \in [Users -> {"active", "fenced", "deleted"}]
    BY <1>1, <1>2 DEF IInv, TypeOK
  <2> HIDE DEF F
  <2> QED BY <1>1, <2>1, CascadeType, FinishType DEF IInv, TypeOK
<1> HIDE DEF u, S, F, hard
<1>7. RowInv' /\ Kept /\ LocksRespected({p}) /\ OpensOwn({p})
  <2> DEFINE N == {}
  <2>1. \A s \in Sessions \ N : sess'[s] = SessionsEnded(S)[s]
    BY <1>1
  <2>2. N \in SUBSET Sessions /\ \A s \in N : /\ sess[s].st = "absent" /\ sess'[s].st = "live"
                                              /\ sess'[s].subject \in Users
    OBVIOUS
  <2> HIDE DEF N
  <2> QED BY <1>1, <1>2, <1>4, <1>5, <2>1, <2>2, Cascade
<1>8. ProcInv'
  BY <1>1, <1>7, OneFinishes
<1> QED BY <1>6, <1>7, <1>8 DEF IInv

-----------------------------------------------------------------------------
(* The commit of a login.                                                  *)

LEMMA NoCascade ==
  ASSUME TypeOK, NEW F
  PROVE  /\ SessionsEnded({}) = sess /\ EventsFor({}) = events
         /\ FamiliesEnded({}, FALSE) = fam /\ GrantsEnded(F, FALSE) = grant
BY DEF TypeOK, SessionsEnded, EventsFor, FamiliesEnded, GrantsEnded

LEMMA NewSessionType ==
  ASSUME NEW u \in Users
  PROVE  /\ NewSession(u) \in SessType /\ NewSession(u).st = "live"
         /\ NewSession(u).subject = u
BY DEF NewSession, SessType

\* A login without a live prior session, and one that ends somebody else's: the
\* cascade over at most the prior session, with one new session.
LEMMA FirstOrReplaceRows ==
  ASSUME IInv, NEW p \in Procs, NEW n \in Sessions, NEW u \in Users,
         NEW S \in SUBSET Sessions, sess[n].st = "absent",
         \A s \in S : Live(s) /\ Holds(p, s),
         sess' = [SessionsEnded(S) EXCEPT ![n] = NewSession(u)], events' = EventsFor(S),
         fam' = FamiliesEnded(BoundTo(S), FALSE), UNCHANGED <<grant, tok>>
  PROVE  /\ RowInv' /\ Kept /\ LocksRespected({p}) /\ OpensOwn({p})
         /\ sess' \in [Sessions -> SessType] /\ events' \in [Sessions -> Nat]
         /\ fam' \in [Grants -> FamType]
<1> DEFINE N == {n}
           F == BoundTo(S)
<1>1. TypeOK /\ SessionsEnded(S) \in [Sessions -> SessType]
  BY CascadeType DEF IInv
<1>2. sess' \in [Sessions -> SessType] /\ events' \in [Sessions -> Nat] /\ fam' \in [Grants -> FamType]
  BY <1>1, CascadeType, NewSessionType
<1>3. /\ N \in SUBSET Sessions
      /\ \A s \in N : /\ sess[s].st = "absent" /\ sess'[s].st = "live"
                      /\ sess'[s].subject \in Users
      /\ \A s \in Sessions \ N : sess'[s] = SessionsEnded(S)[s]
  BY <1>1, NewSessionType
<1>4. /\ F \in SUBSET Grants /\ \A g \in F : Opened(g)
      /\ \A g \in Grants : Opened(g) /\ fam[g].session \in S => g \in F
  BY DEF BoundTo
<1>5. \A s \in S : \A q \in Procs \ {p} : ~Holds(q, s)
  BY DEF IInv, ProcInv, LockDiscipline
<1>6. grant' = GrantsEnded(F, FALSE) /\ fam' = FamiliesEnded(F, FALSE)
  BY <1>1, NoCascade
<1>7. UNCHANGED tok /\ events' = EventsFor(S) /\ {p} \in SUBSET Procs /\ FALSE \in BOOLEAN
  OBVIOUS
<1> HIDE DEF N, F
<1>8. RowInv' /\ Kept /\ LocksRespected({p}) /\ OpensOwn({p})
  BY <1>3, <1>4, <1>5, <1>6, <1>7, Cascade
<1> QED BY <1>2, <1>8

\* The same subject: the families of the prior session move to a session of the same
\* user, and nobody else had locked the prior one.
LEMMA CarryRows ==
  ASSUME IInv, NEW p \in Procs, NEW n \in Sessions, NEW u \in Users, NEW s \in Sessions,
         sess[n].st = "absent", Live(s), Holds(p, s), sess[s].subject = u, Carry(s, n, u),
         UNCHANGED <<grant, tok>>
  PROVE  /\ RowInv' /\ Kept /\ LocksRespected({p}) /\ OpensOwn({p})
         /\ sess' \in [Sessions -> SessType] /\ fam' \in [Grants -> FamType]
         /\ sid' \in [Sessions -> [Clients -> {"absent", "live", "revoked"}]]
<1> DEFINE old == [sess[s] EXCEPT !.st = "superseded", !.next = n]
<1> USE DEF IInv, RowInv
<1>1. s # n /\ sess[s] \in SessType
  BY DEF Live, TypeOK
<1>2. old \in SessType /\ old.st = "superseded" /\ old.subject = u
  BY <1>1 DEF SessType
<1>3. sess' = [sess EXCEPT ![s] = old, ![n] = NewSession(u)]
  BY <1>1 DEF Carry, TypeOK
<1> HIDE DEF old
<1>4. /\ sess' \in [Sessions -> SessType] /\ sess'[s] = old /\ sess'[n] = NewSession(u)
      /\ \A x \in Sessions \ {s, n} : sess'[x] = sess[x]
  BY <1>1, <1>2, <1>3, NewSessionType DEF TypeOK
<1>5. \A g \in Grants :
        /\ fam'[g].st = fam[g].st /\ fam'[g].reuses = fam[g].reuses
        /\ fam'[g].session = IF fam[g].st = "live" /\ fam[g].session = s THEN n ELSE fam[g].session
  <2> TAKE g \in Grants
  <2>1. fam'[g] = IF fam[g].st = "live" /\ fam[g].session = s
                  THEN [fam[g] EXCEPT !.session = n] ELSE fam[g]
    BY DEF Carry
  <2>2. fam[g] \in FamType
    BY DEF TypeOK
  <2> QED BY <2>1, <2>2 DEF FamType
<1>6. fam' \in [Grants -> FamType]
  <2>1. \A g \in Grants : [fam[g] EXCEPT !.session = n] \in FamType
    BY DEF TypeOK, FamType
  <2> QED BY <2>1 DEF Carry, TypeOK
<1>7. sid' \in [Sessions -> [Clients -> {"absent", "live", "revoked"}]]
  <2> DEFINE to == [c \in Clients |-> IF sid[s][c] = "live" THEN "live" ELSE sid[n][c]]
             from == [c \in Clients |-> IF sid[s][c] = "live" THEN "absent" ELSE sid[s][c]]
  <2>1. /\ to \in [Clients -> {"absent", "live", "revoked"}]
        /\ from \in [Clients -> {"absent", "live", "revoked"}]
    BY DEF TypeOK
  <2>2. sid' = [sid EXCEPT ![n] = to, ![s] = from]
    BY DEF Carry
  <2> HIDE DEF to, from
  <2> QED BY <2>1, <2>2 DEF TypeOK
<1>8. Kept
  BY <1>1, <1>2, <1>4 DEF Kept, Live
<1>9. \A g \in Grants : Opened(g)' <=> Opened(g)
  BY <1>5 DEF Opened
<1>10. RowShape'
  <2>1. \A x \in Sessions : sess'[x].st # "absent" => sess'[x].subject \in Users
    BY <1>2, <1>4, NewSessionType DEF RowShape
  <2>2. \A g \in Grants : grant'[g].st # "absent" => Anchored(g, grant[g].session)'
    BY <1>8 DEF RowShape, Anchored, Kept
  <2>3. \A g \in Grants : Opened(g) => Anchored(g, fam[g].session)'
    <3> SUFFICES ASSUME NEW g \in Grants, Opened(g)
                 PROVE  /\ fam'[g].session \in Sessions /\ sess'[fam'[g].session].st # "absent"
                        /\ sess'[fam'[g].session].subject = grant'[g].subject
      BY DEF Anchored
    <3>1. Anchored(g, fam[g].session)
      BY DEF RowShape
    <3>2. CASE fam'[g].session = fam[g].session
      BY <1>8, <3>1, <3>2 DEF Anchored, Kept
    <3>3. CASE fam[g].session = s /\ fam'[g].session = n
      BY <1>4, <3>1, <3>3, NewSessionType DEF Anchored
    <3> QED BY <1>5, <3>2, <3>3
  <2>4. \A t \in Tokens : tok[t].grant # NONE => tok[t].grant \in Grants
    BY DEF TypeOK, TokType
  <2>5. \A t \in Tokens : tok'[t].grant # NONE => fam'[tok'[t].grant].st # "absent"
    BY <1>5, <2>4 DEF RowShape, Opened
  <2> QED BY <1>9, <2>1, <2>2, <2>3, <2>5 DEF RowShape, Opened
<1>11. NoOrphan'
  <2> SUFFICES ASSUME NEW g \in Grants, fam[g].st = "live", ~grant[g].offline
               PROVE  sess'[fam'[g].session].st = "live"
    BY <1>5 DEF NoOrphan, Live
  <2>1. Live(fam[g].session) /\ fam[g].session \in Sessions
    BY DEF NoOrphan, RowShape, Opened, Anchored
  <2>2. CASE fam[g].session = s
    BY <1>4, <1>5, <2>2, NewSessionType
  <2>3. CASE fam[g].session # s
    BY <1>4, <1>5, <2>1, <2>3 DEF Live
  <2> QED BY <2>2, <2>3
<1>12. EventPerEnd'
  <2>1. UNCHANGED events
    BY DEF Carry
  <2> QED BY <1>1, <1>2, <1>4, <2>1, NewSessionType DEF EventPerEnd, Live
<1>13. ReuseOnce'
  BY <1>5 DEF ReuseOnce
<1>14. SingleLeaf'
  BY <1>9 DEF SingleLeaf, Leaf, Family
<1>15. LocksRespected({p})
  <2> SUFFICES ASSUME NEW q \in Procs \ {p}, NEW x \in Sessions, Holds(q, x)
               PROVE  sess'[x].st = "live"
    BY DEF LocksRespected
  <2>1. Live(x) /\ x # s
    BY DEF ProcInv, LockDiscipline
  <2> QED BY <1>4, <2>1 DEF Live
<1>16. OpensOwn({p})
  BY <1>9 DEF OpensOwn, Opened
<1> QED BY <1>4, <1>6, <1>7, <1>8, <1>10, <1>11, <1>12, <1>13, <1>14, <1>15, <1>16

LEMMA RotateCommitStep ==
  ASSUME IInv, NEW p \in Procs, NEW n \in Sessions, RotateCommit(p, n)
  PROVE  IInv'
<1> DEFINE s == job[p].sess
           u == job[p].user
           Rows == /\ RowInv' /\ Kept /\ LocksRespected({p}) /\ OpensOwn({p})
                   /\ sess' \in [Sessions -> SessType] /\ events' \in [Sessions -> Nat]
                   /\ fam' \in [Grants -> FamType]
                   /\ sid' \in [Sessions -> [Clients -> {"absent", "live", "revoked"}]]
<1>1. /\ pc[p] = "rotating" /\ JobOK(p) /\ Finish(p) /\ sess[n].st = "absent"
      /\ UNCHANGED <<now, user, lapsed, grant, tok>>
  BY DEF RotateCommit, At, IInv, ProcInv, JobShape
<1>2. u \in Users /\ s \in Sessions \cup {NONE} /\ TypeOK
  BY <1>1 DEF JobOK, IInv, TypeOK, JobType
<1>3. s # NONE => s \in Sessions /\ Holds(p, s) /\ Live(s)
  BY <1>1, <1>2 DEF Holds, IInv, ProcInv, LockDiscipline
<1>4. ASSUME s = NONE, FirstLogin(n, u) PROVE Rows
  <2> DEFINE S == {}
  <2>1. BoundTo(S) = {} /\ S \in SUBSET Sessions /\ \A x \in S : Live(x) /\ Holds(p, x)
    BY DEF BoundTo
  <2>2. /\ sess' = [SessionsEnded(S) EXCEPT ![n] = NewSession(u)] /\ events' = EventsFor(S)
        /\ fam' = FamiliesEnded(BoundTo(S), FALSE) /\ sid' = sid
    BY <1>2, <1>4, <2>1, NoCascade DEF FirstLogin
  <2> HIDE DEF S
  <2>3. sid' \in [Sessions -> [Clients -> {"absent", "live", "revoked"}]]
    BY <1>2, <2>2 DEF TypeOK
  <2> HIDE DEF u
  <2> QED BY <1>1, <1>2, <2>1, <2>2, <2>3, FirstOrReplaceRows
<1>5. ASSUME s # NONE, sess[s].subject = u, Carry(s, n, u) PROVE Rows
  <2>1. events' \in [Sessions -> Nat]
    BY <1>2, <1>5 DEF Carry, TypeOK
  <2> HIDE DEF s, u
  <2> QED BY <1>1, <1>2, <1>3, <1>5, <2>1, CarryRows
<1>6. ASSUME s # NONE, Replace(s, n, u) PROVE Rows
  <2> DEFINE S == {s}
  <2>1. S \in SUBSET Sessions /\ \A x \in S : Live(x) /\ Holds(p, x)
    BY <1>3, <1>6
  <2>2. /\ sess' = [SessionsEnded(S) EXCEPT ![n] = NewSession(u)] /\ events' = EventsFor(S)
        /\ fam' = FamiliesEnded(BoundTo(S), FALSE) /\ sid' = SidsEnded(S)
    BY <1>6 DEF Replace
  <2> HIDE DEF S
  <2>3. sid' \in [Sessions -> [Clients -> {"absent", "live", "revoked"}]]
    BY <1>2, <2>2, CascadeType
  <2> HIDE DEF u
  <2> QED BY <1>1, <1>2, <2>1, <2>2, <2>3, FirstOrReplaceRows
<1>7. Rows
  BY <1>4, <1>5, <1>6 DEF RotateCommit
<1>8. ProcInv'
  BY <1>1, <1>7, OneFinishes
<1>9. TypeOK'
  BY <1>1, <1>2, <1>7, FinishType DEF TypeOK
<1> QED BY <1>7, <1>8, <1>9 DEF IInv

-----------------------------------------------------------------------------
(* The invariant and the theorems.                                         *)

LEMMA InvInit == Init => IInv
<1> SUFFICES ASSUME Init PROVE IInv
  OBVIOUS
<1>1. TypeOK
  <2>1. [st |-> "absent", subject |-> NONE, next |-> NONE] \in SessType
    BY DEF SessType
  <2>2. [st |-> "absent", session |-> NONE, subject |-> NONE, offline |-> FALSE,
         consumedAt |-> NONE, reuses |-> 0] \in GrantType
    BY InstantFacts DEF GrantType
  <2>3. [st |-> "absent", session |-> NONE, reuses |-> 0] \in FamType
    BY DEF FamType
  <2>4. [grant |-> NONE, gen |-> 0, rotatedAt |-> NONE] \in TokType
    BY InstantFacts DEF TokType
  <2> QED BY <2>1, <2>2, <2>3, <2>4, NoJobType DEF Init, TypeOK, Steps
<1>2. RowInv
  BY DEF Init, RowInv, RowShape, NoOrphan, EventPerEnd, ReuseOnce, SingleLeaf, Opened
<1>3. ProcInv
  BY DEF Init, ProcInv, JobShape, JobOK, LockDiscipline, Holds, CodeOnce
<1> QED BY <1>1, <1>2, <1>3 DEF IInv

LEMMA InvStep == IInv /\ [Next]_vars => IInv'
<1> SUFFICES ASSUME IInv, [Next]_vars PROVE IInv'
  OBVIOUS
<1>1. CASE LoginNext
  BY <1>1, LoginStep, RotateLockStep, RotateCommitStep DEF LoginNext
<1>2. CASE ExchangeNext
  BY <1>2, IssueCodeStep, StartExchangeStep, CommitSidStep, ConsumeCodeStep, MissCodeStep,
     OpenLockStep, OpenCommitStep DEF ExchangeNext
<1>3. CASE RefreshNext
  BY <1>3, StartRefreshStep, RedeemReadStep, RedeemRotateStep, RedeemSupersededStep
     DEF RefreshNext
<1>4. CASE RevokeNext
  BY <1>4, RevokeSessionsStep, SweepStartStep, SweepCommitStep, ReactivateStep,
     RevokeFamilyStep DEF RevokeNext
<1>5. ASSUME NEW s \in Sessions, Lapse(s) PROVE IInv'
  BY <1>5, LapseStep
<1>6. ASSUME NEW p \in Procs, Abort(p) PROVE IInv'
  BY <1>6, AbortStep
<1>7. CASE Tick
  BY <1>7, TickStep
<1>8. CASE UNCHANGED vars
  <2>1. UNCHANGED <<now, rowVars, pc, job>>
    BY <1>8 DEF vars, rowVars
  <2>2. RowInv' /\ Kept /\ LocksRespected({}) /\ OpensOwn({})
    BY <2>1, RowsAlone DEF rowVars, coreVars
  <2>3. ProcInv'
    BY <2>1, <2>2, NobodyMoves
  <2>4. TypeOK'
    BY <2>1 DEF IInv, TypeOK, rowVars
  <2> QED BY <2>2, <2>3, <2>4 DEF IInv
<1> QED BY <1>1, <1>2, <1>3, <1>4, <1>5, <1>6, <1>7, <1>8 DEF Next

LEMMA Invariant == Spec => []IInv
<1> QED BY InvInit, InvStep, PTL DEF Spec

\* The type invariant holds of every behaviour, for any number of users, sessions,
\* grants, tokens and requests in flight.
THEOREM TypeCorrect == Spec => []TypeOK
<1>1. IInv => TypeOK
  BY DEF IInv
<1> QED BY <1>1, Invariant, PTL

\* No interleaving of openings, rotations and revocations leaves a session-bound
\* family alive on a session that has ended.
THEOREM EndReachesFamilies == Spec => []NoOrphan
<1>1. IInv => NoOrphan
  BY DEF IInv, RowInv
<1> QED BY <1>1, Invariant, PTL

\* No family is ever bound to a session of another user.
THEOREM NoCrossing == Spec => []SameSubject
<1>1. IInv => SameSubject
  BY DEF IInv, RowInv, RowShape, Anchored, SameSubject
<1> QED BY <1>1, Invariant, PTL

\* Every terminal end of a session enqueues one event and a rotation none.
THEOREM OneEventPerEnd == Spec => []EventPerEnd
<1>1. IInv => EventPerEnd
  BY DEF IInv, RowInv
<1> QED BY <1>1, Invariant, PTL

\* The row locks order openings, rotations and revocations: one holder per session,
\* and the session lives as long as it is held.
THEOREM LocksOrder == Spec => []LockDiscipline
<1>1. IInv => LockDiscipline
  BY DEF IInv, ProcInv
<1> QED BY <1>1, Invariant, PTL

\* A family never forks, whatever the number of concurrent refreshes and retries.
THEOREM NeverForks == Spec => []SingleLeaf
<1>1. IInv => SingleLeaf
  BY DEF IInv, RowInv
<1> QED BY <1>1, Invariant, PTL

\* A code opens at most one family, whatever the number of concurrent exchanges.
THEOREM CodeSingleUse == Spec => []CodeOnce
<1>1. IInv => CodeOnce
  BY DEF IInv, ProcInv
<1> QED BY <1>1, Invariant, PTL

\* A reuse is audited at most once, and only for what is revoked.
THEOREM ReuseAuditedOnce == Spec => []ReuseOnce
<1>1. IInv => ReuseOnce
  BY DEF IInv, RowInv
<1> QED BY <1>1, Invariant, PTL
=============================================================================
