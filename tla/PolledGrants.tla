---------------------------- MODULE PolledGrants ----------------------------
(***************************************************************************)
(* The two grants whose client polls while a person decides elsewhere: the *)
(* device authorization grant (device_codes) and CIBA                      *)
(* (backchannel_authentication_requests).  Token-endpoint requests,        *)
(* approval pages and operators interleave statement by statement over one *)
(* row per flow.                                                           *)
(*                                                                         *)
(* A clock reading is taken before the statement that carries it, so a     *)
(* statement may carry a reading that is MaxStall old.  A user has at most *)
(* one live session here, named by the number of the sign-in.  The refresh *)
(* family a device exchange opens afterwards is TokenGrants' business.     *)
(*                                                                         *)
(* CIBA is served in poll mode only: nothing writes a client's             *)
(* backchannel_delivery_mode and nothing consumes the ping message         *)
(* decide_with_event would enqueue, so pings are not part of the model.    *)
(***************************************************************************)
EXTENDS Integers, FiniteSets

CONSTANTS
  Users,
  Flows,         \* device codes and CIBA requests
  Requests,      \* token-endpoint requests in flight
  Base,          \* device_poll_interval_secs
  Increment,     \* device_slow_down_increment_secs
  MaxAttempts,   \* device_user_code_max_attempts
  Lifetime,      \* device_code_ttl, bounded_expiry
  MaxTime,       \* bound: the clock's last value
  MaxStall,      \* bound: the age of a clock reading when it is used
  MaxInterval,   \* bound: no poll begins once slow_down has raised the interval past it
  MaxSignIns,    \* bound: sign-ins of a user
  MaxFaults      \* bound: users that are fenced

NONE == "none"
NEVER == -1                    \* SQL NULL in last_poll_at

\* Whoever approves a device code becomes its subject; a CIBA request names its subject.
Kinds == {"device", "ciba"}

ASSUME NamesAssumption == NONE \notin Users \cup Flows
ASSUME TimesAssumption ==
  /\ Base \in Nat /\ Increment \in Nat /\ MaxAttempts \in Nat \ {0} /\ Lifetime \in Nat
  /\ MaxTime \in Nat /\ MaxStall \in Nat /\ MaxInterval \in Nat
  /\ MaxSignIns \in Nat /\ MaxFaults \in Nat
  /\ MaxStall <= Increment

VARIABLES
  now,       \* the clock
  user,      \* "active" or "fenced" (blocked, disabled or deleted)
  session,   \* session[u]: the number of u's live session, 0 if none
  signIns,   \* sessions u has ever had
  flow,      \* the row of each flow
  grant,     \* the grant its approval opened: NONE, "open" or "revoked"
  req,       \* token-endpoint requests
  page,      \* page[u]: the decision u's browser is submitting
  faults,    \* users that have been fenced
  issued,    \* history: how often tokens were issued for a flow
  named,     \* history: the subject the flow was requested for
  approver,  \* history: who approved it
  onTime,    \* history: the reading of the last poll that was not told to slow down
  crowded,   \* history: flows with two such polls closer than Base
  raced,     \* history: requests whose subject was fenced after their check
  fencedIssue \* history: flows issued to a subject fenced before the check

people  == <<user, session, signIns>>
history == <<issued, named, approver, onTime, crowded, raced, fencedIssue>>
vars == <<now, people, flow, grant, req, page, faults, history>>

NoFlow    == [status |-> NONE, kind |-> "device", subject |-> NONE, session |-> 0, expires |-> 0,
              interval |-> 0, last |-> NEVER, failed |-> 0]
NoRequest == [pc |-> "idle", flow |-> NONE, at |-> 0, soon |-> FALSE, status |-> NONE]
NoPage    == [pc |-> "idle", flow |-> NONE, session |-> 0, at |-> 0]

Device(f)   == flow[f].kind = "device"
Live(f, t)  == flow[f].expires > t
Answer(p)   == req' = [req EXCEPT ![p] = NoRequest]
Proceed(p, pc) == req' = [req EXCEPT ![p].pc = pc]

-----------------------------------------------------------------------------
Init ==
  /\ now = 0
  /\ user = [u \in Users |-> "active"]
  /\ session = [u \in Users |-> 0]
  /\ signIns = [u \in Users |-> 0]
  /\ flow = [f \in Flows |-> NoFlow]
  /\ grant = [f \in Flows |-> NONE]
  /\ req = [p \in Requests |-> NoRequest]
  /\ page = [u \in Users |-> NoPage]
  /\ faults = 0
  /\ issued = [f \in Flows |-> 0]
  /\ named = [f \in Flows |-> NONE]
  /\ approver = [f \in Flows |-> NONE]
  /\ onTime = [f \in Flows |-> NEVER]
  /\ crowded = {} /\ raced = {} /\ fencedIssue = {}

-----------------------------------------------------------------------------
(* People.                                                                 *)

SignIn(u) ==
  /\ user[u] = "active" /\ session[u] = 0 /\ signIns[u] < MaxSignIns
  /\ session' = [session EXCEPT ![u] = signIns[u] + 1]
  /\ signIns' = [signIns EXCEPT ![u] = @ + 1]
  /\ UNCHANGED <<now, user, flow, grant, req, page, faults, history>>

Logout(u) ==
  /\ session[u] # 0
  /\ session' = [session EXCEPT ![u] = 0]
  /\ UNCHANGED <<now, user, signIns, flow, grant, req, page, faults, history>>

\* Requests past their last look at the subject.
Committed(u) == {p \in Requests : req[p].pc = "redeem" /\ flow[req[p].flow].subject = u}

\* An operator blocks, disables or deletes a user: the user's sessions end in the
\* same transaction (cascade_user_sessions_ended).  CIBA requests and device
\* codes are not touched.
Fence(u) ==
  /\ user[u] = "active" /\ faults < MaxFaults
  /\ faults' = faults + 1
  /\ user' = [user EXCEPT ![u] = "fenced"]
  /\ session' = [session EXCEPT ![u] = 0]
  /\ raced' = raced \cup Committed(u)
  /\ UNCHANGED <<now, signIns, flow, grant, req, page,
                 issued, named, approver, onTime, crowded, fencedIssue>>

Reinstate(u) ==
  /\ user[u] = "fenced"
  /\ user' = [user EXCEPT ![u] = "active"]
  /\ UNCHANGED <<now, session, signIns, flow, grant, req, page, faults, history>>

RevokeGrant(f) ==
  /\ grant[f] = "open"
  /\ grant' = [grant EXCEPT ![f] = "revoked"]
  /\ UNCHANGED <<now, people, flow, req, page, faults, history>>

\* Clock readings in the hands of a request or a page do not get older than MaxStall.
Tick ==
  /\ now < MaxTime
  /\ \A p \in Requests : req[p].pc # "idle" => now - req[p].at < MaxStall
  /\ \A u \in Users : page[u].pc # "idle" => now - page[u].at < MaxStall
  /\ now' = now + 1
  /\ UNCHANGED <<people, flow, grant, req, page, faults, history>>

-----------------------------------------------------------------------------
(* The approval pages.                                                     *)

\* device_authorization, backchannel_authenticate: the row is inserted pending.
\* No flow is opened that the bound on the clock keeps from expiring.
Issue(f, k, subject) ==
  /\ flow[f].status = NONE /\ now + Lifetime <= MaxTime
  /\ k = "device" <=> subject = NONE
  /\ flow' = [flow EXCEPT ![f] = [NoFlow EXCEPT !.status = "pending", !.kind = k,
                !.subject = subject, !.expires = now + Lifetime, !.interval = Base]]
  /\ named' = [named EXCEPT ![f] = subject]
  /\ UNCHANGED <<now, people, grant, req, page, faults, issued, approver,
                 onTime, crowded, raced, fencedIssue>>

\* lookup_user_code: a flow the verification page accepts a code for.
Approvable(f, t) ==
  flow[f].status = "pending" /\ Live(f, t) /\ flow[f].failed < MaxAttempts

\* A signed-in user submits a decision.  The session (and, for a device, the
\* code) is looked up first; the statement that decides comes later.
Submit(u, f) ==
  /\ page[u].pc = "idle" /\ session[u] # 0
  /\ flow[f].status # NONE /\ (Device(f) => Approvable(f, now))
  /\ page' = [page EXCEPT ![u] = [pc |-> "decide", flow |-> f, session |-> session[u], at |-> now]]
  /\ UNCHANGED <<now, people, flow, grant, req, faults, history>>

\* record_failed_user_code: a decision that names the flow but not its code
\* counts against the flow and closes it at the bound.
WrongCode(u, f) ==
  /\ session[u] # 0 /\ Device(f)
  /\ flow[f].status = "pending" /\ Live(f, now)
  /\ flow' = [flow EXCEPT ![f].failed = @ + 1,
                          ![f].status = IF flow[f].failed + 1 >= MaxAttempts THEN "denied" ELSE @]
  /\ UNCHANGED <<now, people, grant, req, page, faults, history>>

\* Mutant: the subject of a CIBA request is not compared.
MayDecideForOthers(u, f, t) == flow[f].status = "pending" /\ Live(f, t)

\* The conditions both deciding statements repeat under the row's lock.
MayDecide(u, f, t) ==
  /\ flow[f].status = "pending" /\ Live(f, t)
  /\ Device(f) \/ flow[f].subject = u

\* ActingDeviceCodeRepo::approve and decide_with_event: the grant, the status and
\* the subject, in one transaction.
Approve(u, f, t) ==
  /\ MayDecide(u, f, t)
  /\ flow' = [flow EXCEPT ![f].status = "approved", ![f].subject = u,
                          ![f].session = IF Device(f) THEN page[u].session ELSE 0]
  /\ grant' = [grant EXCEPT ![f] = "open"]
  /\ approver' = [approver EXCEPT ![f] = u]

\* deny does not look at the expiry of a device code, decide does.
Deny(u, f, t) ==
  /\ IF Device(f) THEN flow[f].status = "pending" ELSE MayDecide(u, f, t)
  /\ flow' = [flow EXCEPT ![f].status = "denied"]
  /\ UNCHANGED <<grant, approver>>

\* A flow that can no longer be decided is left as it is.
Decide(u) ==
  /\ page[u].pc = "decide"
  /\ LET f == page[u].flow IN
     \E t \in page[u].at .. now :
       \/ Approve(u, f, t)
       \/ Deny(u, f, t)
       \/ ~MayDecide(u, f, t) /\ UNCHANGED <<flow, grant, approver>>
  /\ page' = [page EXCEPT ![u] = NoPage]
  /\ UNCHANGED <<now, people, req, faults, issued, named, onTime, crowded, raced, fencedIssue>>

-----------------------------------------------------------------------------
(* The token endpoint.                                                     *)

\* The clock is read, and a connection awaited.
Begin(p, f) ==
  /\ req[p].pc = "idle" /\ flow[f].status # NONE /\ flow[f].interval <= MaxInterval
  /\ req' = [req EXCEPT ![p] = [NoRequest EXCEPT !.pc = "poll", !.flow = f, !.at = now]]
  /\ UNCHANGED <<now, people, flow, grant, page, faults, history>>

TooSoon(f, t) == flow[f].last # NEVER /\ t - flow[f].last < flow[f].interval

\* The row after a poll with reading t.
Polled(f, t, soon) == [flow EXCEPT ![f].last = t, ![f].interval = IF soon THEN @ + Increment ELSE @]

\* A poll that was not told to slow down.
OnTime(f, t) ==
  /\ onTime' = [onTime EXCEPT ![f] = t]
  /\ crowded' = IF onTime[f] # NEVER /\ t - onTime[f] < Base THEN crowded \cup {f} ELSE crowded

\* Mutant: a device poll without FOR UPDATE, so that its pace is judged on what
\* the request saw when it began.
PollDeviceUnlocked(p) ==
  LET f == req[p].flow  t == req[p].at IN
  /\ req[p].pc = "poll" /\ Device(f) /\ Live(f, t)
  /\ flow' = Polled(f, t, FALSE) /\ OnTime(f, t)
  /\ IF flow[f].status = "approved" THEN Proceed(p, "sid") ELSE Answer(p)
  /\ UNCHANGED <<now, people, grant, page, faults,
                 issued, named, approver, raced, fencedIssue>>

\* DeviceCodeRepo::poll: one transaction under the row's lock.
PollDevice(p) ==
  LET f == req[p].flow  t == req[p].at IN
  /\ req[p].pc = "poll" /\ Device(f)
  /\ \/ /\ ~Live(f, t)
        /\ flow' = IF flow[f].status = "redeemed" THEN flow
                   ELSE [flow EXCEPT ![f].status = "expired"]
        /\ Answer(p)
        /\ UNCHANGED <<onTime, crowded>>
     \/ /\ Live(f, t) /\ TooSoon(f, t)
        /\ flow' = Polled(f, t, TRUE)
        /\ Answer(p)
        /\ UNCHANGED <<onTime, crowded>>
     \/ /\ Live(f, t) /\ ~TooSoon(f, t)
        /\ flow' = Polled(f, t, FALSE) /\ OnTime(f, t)
        /\ IF flow[f].status = "approved" THEN Proceed(p, "sid") ELSE Answer(p)
  /\ UNCHANGED <<now, people, grant, page, faults,
                 issued, named, approver, raced, fencedIssue>>

\* resolve_device_sid: the session that approved must still be live.
EnsureSid(p) ==
  LET f == req[p].flow IN
  /\ req[p].pc = "sid"
  /\ IF flow[f].session = session[flow[f].subject] THEN Proceed(p, "redeem") ELSE Answer(p)
  /\ UNCHANGED <<now, people, flow, grant, page, faults, history>>

\* BackchannelAuthRepo::poll is WITH prior AS (SELECT ..) UPDATE .. FROM prior: the
\* SELECT sees the statement's snapshot and takes no lock, the UPDATE waits for
\* the row's lock and then goes by what prior saw.
SnapshotCiba(p) ==
  LET f == req[p].flow IN
  /\ req[p].pc = "poll" /\ ~Device(f)
  /\ req' = [req EXCEPT ![p].pc = "update", ![p].soon = TooSoon(f, req[p].at),
                        ![p].status = flow[f].status]
  /\ UNCHANGED <<now, people, flow, grant, page, faults, history>>

UpdateCiba(p) ==
  LET f == req[p].flow  t == req[p].at IN
  /\ req[p].pc = "update"
  /\ flow' = Polled(f, t, req[p].soon)
  /\ IF req[p].soon THEN UNCHANGED <<onTime, crowded>> ELSE OnTime(f, t)
  /\ IF ~req[p].soon /\ Live(f, t) /\ req[p].status = "approved"
     THEN Proceed(p, "details") ELSE Answer(p)
  /\ UNCHANGED <<now, people, grant, page, faults,
                 issued, named, approver, raced, fencedIssue>>

\* approved_details, with a reading that the redemption will use again.
Details(p) ==
  LET f == req[p].flow IN
  /\ req[p].pc = "details"
  /\ IF flow[f].status = "approved" /\ Live(f, now)
     THEN req' = [req EXCEPT ![p].pc = "subject", ![p].at = now] ELSE Answer(p)
  /\ UNCHANGED <<now, people, flow, grant, page, faults, history>>

\* Mutant: CIBA without a user-lifecycle check of its own.
CheckSubjectNot(p) ==
  /\ req[p].pc = "subject"
  /\ Proceed(p, "redeem")
  /\ UNCHANGED <<now, people, flow, grant, page, faults, history>>

\* ensure_subject_can_authenticate: no session stands between a CIBA approval and
\* its tokens, so the user is asked about directly.
CheckSubject(p) ==
  /\ req[p].pc = "subject"
  /\ IF user[flow[req[p].flow].subject] = "active" THEN Proceed(p, "redeem") ELSE Answer(p)
  /\ UNCHANGED <<now, people, flow, grant, page, faults, history>>

\* Mutant: the redemption trusts the poll's answer.
MayRedeemPolled(p) == TRUE

\* The WHERE clause of the flip.  CIBA compares the expiry and requires a live
\* grant (a revoked one rolls the flip back); the device grant does neither.
MayRedeem(p) ==
  LET f == req[p].flow IN
  /\ flow[f].status = "approved"
  /\ Device(f) \/ (Live(f, req[p].at) /\ grant[f] = "open")

\* redeem_approved: the tokens were signed before; a request that loses drops them.
Redeem(p) ==
  LET f == req[p].flow IN
  /\ req[p].pc = "redeem"
  /\ \/ /\ MayRedeem(p)
        /\ flow' = [flow EXCEPT ![f].status = "redeemed"]
        /\ issued' = [issued EXCEPT ![f] = @ + 1]
        /\ fencedIssue' = IF user[flow[f].subject] = "fenced" /\ p \notin raced
                          THEN fencedIssue \cup {f} ELSE fencedIssue
     \/ /\ ~MayRedeem(p)
        /\ UNCHANGED <<flow, issued, fencedIssue>>
  /\ Answer(p)
  /\ raced' = raced \ {p}
  /\ UNCHANGED <<now, people, grant, page, faults, named, approver, onTime, crowded>>

\* The request dies, its signing fails, a policy refuses the mint, or (device) the
\* code was presented by another client: nothing is written.
Abandon(p) ==
  /\ req[p].pc # "idle"
  /\ Answer(p)
  /\ raced' = raced \ {p}
  /\ UNCHANGED <<now, people, flow, grant, page, faults,
                 issued, named, approver, onTime, crowded, fencedIssue>>

-----------------------------------------------------------------------------
Person(u) == SignIn(u) \/ Logout(u) \/ Fence(u) \/ Reinstate(u) \/ Decide(u)
               \/ \E f \in Flows : Submit(u, f) \/ WrongCode(u, f)

Request(p) == PollDevice(p) \/ EnsureSid(p) \/ SnapshotCiba(p) \/ UpdateCiba(p) \/ Details(p)
                \/ CheckSubject(p) \/ Redeem(p) \/ Abandon(p)
                \/ \E f \in Flows : Begin(p, f)

Next == \/ \E u \in Users : Person(u)
        \/ \E p \in Requests : Request(p)
        \/ \E f \in Flows : RevokeGrant(f)
             \/ \E k \in Kinds, u \in Users \cup {NONE} : Issue(f, k, u)
        \/ Tick

Spec == Init /\ [][Next]_vars

-----------------------------------------------------------------------------
(* Properties.                                                             *)

Statuses == {NONE, "pending", "approved", "denied", "expired", "redeemed"}

FlowType == [status : Statuses, kind : Kinds, subject : Users \cup {NONE}, session : Nat,
             expires : Nat, interval : Nat, last : Nat \cup {NEVER}, failed : Nat]
RequestType == [pc : {"idle", "poll", "sid", "update", "details", "subject", "redeem"},
                flow : Flows \cup {NONE}, at : Nat, soon : BOOLEAN, status : Statuses]
PageType == [pc : {"idle", "decide"}, flow : Flows \cup {NONE}, session : Nat, at : Nat]

\* The type of the state.
TypeOK ==
  /\ now \in Nat
  /\ user \in [Users -> {"active", "fenced"}]
  /\ session \in [Users -> Nat] /\ signIns \in [Users -> Nat]
  /\ flow \in [Flows -> FlowType]
  /\ grant \in [Flows -> {NONE, "open", "revoked"}]
  /\ req \in [Requests -> RequestType]
  /\ page \in [Users -> PageType]
  /\ faults \in Nat
  /\ issued \in [Flows -> Nat]
  /\ named \in [Flows -> Users \cup {NONE}]
  /\ approver \in [Flows -> Users \cup {NONE}]
  /\ onTime \in [Flows -> Nat \cup {NEVER}]
  /\ crowded \subseteq Flows /\ raced \subseteq Requests /\ fencedIssue \subseteq Flows

\* One approval, one issue: however many polls saw the flow approved, tokens are
\* issued at most once, for the person who approved and, in CIBA, the person the
\* request named, with a grant behind them (redeem_approved, decide_with_event).
OneApprovalOneIssue ==
  \A f \in Flows :
    /\ issued[f] <= 1
    /\ issued[f] = 1 => /\ flow[f].status = "redeemed"
                        /\ grant[f] # NONE
                        /\ approver[f] = flow[f].subject
                        /\ Device(f) \/ approver[f] = named[f]

\* RequestStatus::can_transition_to.
CanTransitionTo(from, to) ==
  \/ from = "pending" /\ to \in {"approved", "denied", "expired"}
  \/ from = "approved" /\ to \in {"redeemed", "expired"}

\* A decision stands: every change of a CIBA request's status is one the source's
\* transition table allows, and a device code differs only in that a denied one
\* may be marked expired, whatever stale lookups, late clicks and racing polls do.
DecisionStands ==
  [][\A f \in Flows :
       LET from == flow[f].status  to == flow'[f].status IN
       from # to /\ from # NONE =>
         CanTransitionTo(from, to) \/ (Device(f) /\ from = "denied" /\ to = "expired")]_vars

\* A fenced user gets nothing: tokens issued to a subject that is fenced come from
\* a request that had made its check before the fence, in both grants, although
\* one relies on the session cascade and the other asks for the user.
FencedGetsNothing == fencedIssue = {}

\* slow_down is enforced for a device: two polls of one code that are not told to
\* slow down are at least the interval apart, however they race and however stale
\* the readings they carry.
DevicePolledApart == \A f \in crowded : ~Device(f)

-----------------------------------------------------------------------------
(* What a comment of the source states and the code does not give.         *)

\* No second CIBA poll slips through between the decision that a poll is too soon
\* and the bookkeeping that follows from it.
CibaPolledApart == \A f \in crowded : Device(f)

-----------------------------------------------------------------------------
(* The inductive strengthening the proofs of PolledGrantsProofs rest on.   *)

\* A fenced user has no session, and a submitted decision comes from one.
PeopleShape ==
  \A u \in Users :
    /\ user[u] = "fenced" => session[u] = 0
    /\ page[u].pc = "decide" =>
         page[u].flow \in Flows /\ page[u].session # 0 /\ flow[page[u].flow].status # NONE

\* Tokens were issued for the redeemed flows, once; whoever approved a flow is its
\* subject and has a grant; a CIBA request keeps the subject it was made for.
FlowShape ==
  \A f \in Flows :
    /\ issued[f] = IF flow[f].status = "redeemed" THEN 1 ELSE 0
    /\ flow[f].status \in {"approved", "redeemed"} =>
         /\ grant[f] # NONE
         /\ approver[f] = flow[f].subject /\ flow[f].subject \in Users
         /\ Device(f) => flow[f].session # 0
    /\ ~Device(f) => flow[f].subject = named[f] /\ flow[f].subject \in Users
    /\ flow[f].status = NONE => Device(f) /\ onTime[f] = NEVER

\* A request carries a fresh reading, and one that a poll has let through is about
\* a flow that was approved and can at most have been redeemed or expired since.
RequestShape ==
  \A p \in Requests :
    /\ req[p].pc # "idle" => /\ req[p].flow \in Flows /\ flow[req[p].flow].status # NONE
                             /\ req[p].at <= now /\ now - req[p].at <= MaxStall
    /\ req[p].pc = "sid" => Device(req[p].flow)
    /\ req[p].pc \in {"update", "details", "subject"} => ~Device(req[p].flow)
    /\ \/ req[p].pc \in {"sid", "details", "subject", "redeem"}
       \/ req[p].pc = "update" /\ req[p].status = "approved"
       => flow[req[p].flow].status \in {"approved", "redeemed", "expired"}

\* A request past its check is about an active subject, or has been overtaken.
Overtaken ==
  \A p \in Requests :
    /\ p \in raced => req[p].pc = "redeem"
    /\ req[p].pc = "redeem" /\ flow[req[p].flow].status = "approved"
         /\ user[flow[req[p].flow].subject] = "fenced" => p \in raced

\* However far a stale reading has set the last poll of a device back, the interval
\* has grown by as much.
Paced ==
  \A f \in Flows :
    Device(f) => /\ f \notin crowded
                 /\ flow[f].status # NONE => flow[f].interval >= Base
                 /\ \/ onTime[f] = NEVER
                    \/ /\ flow[f].last # NEVER /\ onTime[f] <= now
                       /\ flow[f].last + flow[f].interval >= onTime[f] + Base

IInv == /\ TypeOK /\ PeopleShape /\ FlowShape /\ RequestShape /\ Overtaken /\ Paced
        /\ FencedGetsNothing
=============================================================================
