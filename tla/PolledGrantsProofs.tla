------------------------- MODULE PolledGrantsProofs -------------------------
(* Proofs about PolledGrants, for every value of its constants.            *)
EXTENDS PolledGrants, TLAPS

USE DEF NONE, NEVER

-----------------------------------------------------------------------------
(* The rows that statements write are rows.                                *)

LEMMA NoRecords == NoFlow \in FlowType /\ NoRequest \in RequestType /\ NoPage \in PageType
BY DEF NoFlow, FlowType, NoRequest, RequestType, NoPage, PageType, Statuses, Kinds

LEMMA FlowUpdates ==
  ASSUME NEW r \in FlowType
  PROVE  /\ \A st \in Statuses : [r EXCEPT !.status = st] \in FlowType
         /\ \A st \in Statuses, n \in Nat : [r EXCEPT !.failed = n, !.status = st] \in FlowType
         /\ \A st \in Statuses, u \in Users, n \in Nat :
              [r EXCEPT !.status = st, !.subject = u, !.session = n] \in FlowType
         /\ \A t, n \in Nat : [r EXCEPT !.last = t, !.interval = n] \in FlowType
BY DEF FlowType

LEMMA RequestUpdates ==
  ASSUME NEW r \in RequestType,
         NEW pc \in {"idle", "poll", "sid", "update", "details", "subject", "redeem"}
  PROVE  /\ [r EXCEPT !.pc = pc] \in RequestType
         /\ \A t \in Nat : [r EXCEPT !.pc = pc, !.at = t] \in RequestType
         /\ \A b \in BOOLEAN, st \in Statuses :
              [r EXCEPT !.pc = pc, !.soon = b, !.status = st] \in RequestType
BY DEF RequestType

LEMMA FieldTypes ==
  /\ \A r \in FlowType : /\ r.status \in Statuses /\ r.kind \in Kinds /\ r.subject \in Users \cup {NONE}
                         /\ r.session \in Nat /\ r.expires \in Nat /\ r.interval \in Nat
                         /\ r.last \in Nat \cup {NEVER} /\ r.failed \in Nat
  /\ \A r \in RequestType : /\ r.flow \in Flows \cup {NONE} /\ r.at \in Nat /\ r.soon \in BOOLEAN
                            /\ r.status \in Statuses
  /\ \A r \in PageType : r.flow \in Flows \cup {NONE} /\ r.session \in Nat /\ r.at \in Nat
BY DEF FlowType, RequestType, PageType

LEMMA IssuedType ==
  ASSUME NEW k \in Kinds, NEW u \in Users \cup {NONE}, NEW e \in Nat, NEW n \in Nat
  PROVE  [NoFlow EXCEPT !.status = "pending", !.kind = k, !.subject = u, !.expires = e,
                        !.interval = n] \in FlowType
BY NoRecords DEF FlowType, Statuses

LEMMA PolledType ==
  ASSUME flow \in [Flows -> FlowType], NEW f \in Flows, NEW t \in Nat, NEW soon \in BOOLEAN
  PROVE  Polled(f, t, soon) \in [Flows -> FlowType]
<1> DEFINE n == IF soon THEN flow[f].interval + Increment ELSE flow[f].interval
<1>1. n \in Nat
  BY FieldTypes, TimesAssumption
<1>2. Polled(f, t, soon) = [flow EXCEPT ![f].last = t, ![f].interval = n]
  BY DEF Polled
<1> HIDE DEF n
<1>3. [flow[f] EXCEPT !.last = t, !.interval = n] \in FlowType
  BY <1>1, FlowUpdates
<1> QED BY <1>2, <1>3

-----------------------------------------------------------------------------
(* Type correctness.                                                       *)

\* The state keeps its types in every step from a state of the invariant.
LEMMA TypeStep == IInv /\ [Next]_vars => TypeOK'
<1> SUFFICES ASSUME IInv, [Next]_vars PROVE TypeOK'
  OBVIOUS
<1> TypeOK /\ PeopleShape /\ RequestShape
  BY DEF IInv
<1> USE TimesAssumption, NamesAssumption DEF TypeOK, people, history
<1>1. ASSUME NEW u \in Users, SignIn(u) \/ Logout(u) PROVE TypeOK'
  <2>1. session' \in [Users -> Nat] /\ signIns' \in [Users -> Nat]
    BY <1>1 DEF SignIn, Logout
  <2> QED BY <1>1, <2>1 DEF SignIn, Logout
<1>2. ASSUME NEW u \in Users, Fence(u) \/ Reinstate(u) PROVE TypeOK'
  <2>1. session' \in [Users -> Nat] /\ faults' \in Nat /\ raced' \subseteq Requests
    BY <1>2 DEF Fence, Reinstate, Committed
  <2> QED BY <1>2, <2>1 DEF Fence, Reinstate
<1>3. ASSUME NEW u \in Users, NEW f \in Flows, Submit(u, f) PROVE TypeOK'
  <2>1. page' \in [Users -> PageType]
    BY <1>3 DEF Submit, PageType
  <2> QED BY <1>3, <2>1 DEF Submit
<1>4. ASSUME NEW u \in Users, NEW f \in Flows, WrongCode(u, f) PROVE TypeOK'
  <2> DEFINE st == IF flow[f].failed + 1 >= MaxAttempts THEN "denied" ELSE flow[f].status
  <2>1. flow[f].failed + 1 \in Nat /\ st \in Statuses
    BY FieldTypes DEF Statuses
  <2>2. flow' = [flow EXCEPT ![f].failed = flow[f].failed + 1, ![f].status = st]
    BY <1>4 DEF WrongCode
  <2> HIDE DEF st
  <2>3. flow' \in [Flows -> FlowType]
    BY ZenonT(40), <2>1, <2>2, FlowUpdates
  <2> QED BY <1>4, <2>3 DEF WrongCode
<1>5. ASSUME NEW u \in Users, Decide(u) PROVE TypeOK'
  <2> DEFINE f == page[u].flow
  <2>1. f \in Flows /\ page[u].session \in Nat /\ {"approved", "denied"} \subseteq Statuses
    BY <1>5, FieldTypes DEF Decide, PeopleShape, Statuses
  <2>2. /\ flow' \in [Flows -> FlowType]
        /\ grant' \in [Flows -> {NONE, "open", "revoked"}]
        /\ approver' \in [Flows -> Users \cup {NONE}]
    <3>1. PICK t \in page[u].at .. now :
            \/ Approve(u, f, t)
            \/ Deny(u, f, t)
            \/ ~MayDecide(u, f, t) /\ UNCHANGED <<flow, grant, approver>>
      BY <1>5 DEF Decide
    <3>2. CASE Approve(u, f, t)
      <4> DEFINE n == IF Device(f) THEN page[u].session ELSE 0
      <4>1. n \in Nat
        BY <2>1
      <4>2. flow' = [flow EXCEPT ![f].status = "approved", ![f].subject = u, ![f].session = n]
        BY <3>2 DEF Approve
      <4> HIDE DEF n
      <4>3. flow' \in [Flows -> FlowType]
        BY <2>1, <4>1, <4>2, FlowUpdates
      <4> QED BY <2>1, <3>2, <4>3 DEF Approve
    <3>3. CASE Deny(u, f, t)
      BY <2>1, <3>3, FlowUpdates DEF Deny, Kinds
    <3> QED BY <3>1, <3>2, <3>3
  <2>3. page' \in [Users -> PageType]
    BY <1>5, NoRecords DEF Decide
  <2> QED BY <1>5, <2>2, <2>3 DEF Decide
<1>6. ASSUME NEW p \in Requests, NEW f \in Flows, Begin(p, f) PROVE TypeOK'
  <2>1. req' \in [Requests -> RequestType]
    BY <1>6 DEF Begin, NoRequest, RequestType, Statuses
  <2> QED BY <1>6, <2>1 DEF Begin
<1>7. ASSUME NEW f \in Flows, NEW t \in Nat, NEW soon \in BOOLEAN
      PROVE  Polled(f, t, soon) \in [Flows -> FlowType]
  BY PolledType
<1>8. ASSUME NEW f \in Flows, NEW t \in Nat, OnTime(f, t)
      PROVE  onTime' \in [Flows -> Nat \cup {NEVER}] /\ crowded' \subseteq Flows
  BY <1>8 DEF OnTime
<1>9. ASSUME NEW p \in Requests, Answer(p) PROVE req' \in [Requests -> RequestType]
  BY <1>9, NoRecords DEF Answer
<1>10. ASSUME NEW p \in Requests, req[p].flow \in Flows,
              NEW pc \in {"idle", "poll", "sid", "update", "details", "subject", "redeem"},
              Proceed(p, pc)
       PROVE  req' \in [Requests -> RequestType]
  BY <1>10, RequestUpdates DEF Proceed, Statuses
<1>11. ASSUME NEW p \in Requests, req[p].pc # "idle"
       PROVE  req[p].flow \in Flows /\ req[p].at \in Nat /\ req[p].soon \in BOOLEAN
  BY <1>11, FieldTypes DEF RequestShape
<1>12. ASSUME NEW p \in Requests, PollDevice(p) PROVE TypeOK'
  <2> DEFINE f == req[p].flow
             t == req[p].at
  <2>1. f \in Flows /\ t \in Nat
    BY <1>11, <1>12 DEF PollDevice
  <2>2. flow' \in [Flows -> FlowType]
    <3>1. \/ flow' = flow \/ flow' = [flow EXCEPT ![f].status = "expired"]
          \/ flow' = Polled(f, t, TRUE) \/ flow' = Polled(f, t, FALSE)
      BY <1>12 DEF PollDevice
    <3>2. [flow EXCEPT ![f].status = "expired"] \in [Flows -> FlowType]
      BY <2>1, FlowUpdates DEF Statuses, Kinds
    <3>3. Polled(f, t, TRUE) \in [Flows -> FlowType] /\ Polled(f, t, FALSE) \in [Flows -> FlowType]
      BY <1>7, <2>1
    <3> QED BY <3>1, <3>2, <3>3
  <2>3. onTime' \in [Flows -> Nat \cup {NEVER}] /\ crowded' \subseteq Flows
    BY <1>8, <1>12, <2>1 DEF PollDevice
  <2>4. req' \in [Requests -> RequestType]
    BY <1>9, <1>10, <1>12, <2>1 DEF PollDevice
  <2> QED BY <1>12, <2>2, <2>3, <2>4 DEF PollDevice
<1>13. ASSUME NEW p \in Requests, EnsureSid(p) \/ CheckSubject(p) PROVE TypeOK'
  <2>1. req' \in [Requests -> RequestType]
    BY <1>9, <1>10, <1>11, <1>13 DEF EnsureSid, CheckSubject
  <2> QED BY <1>13, <2>1 DEF EnsureSid, CheckSubject
<1>14. ASSUME NEW p \in Requests, SnapshotCiba(p) PROVE TypeOK'
  <2>1. req[p].flow \in Flows /\ TooSoon(req[p].flow, req[p].at) \in BOOLEAN
    BY <1>11, <1>14 DEF SnapshotCiba, TooSoon
  <2>2. flow[req[p].flow].status \in Statuses
    BY <2>1, FieldTypes
  <2> DEFINE b == TooSoon(req[p].flow, req[p].at)
             st == flow[req[p].flow].status
  <2>4. req' = [req EXCEPT ![p].pc = "update", ![p].soon = b, ![p].status = st]
    BY <1>14 DEF SnapshotCiba
  <2> HIDE DEF b, st
  <2>5. [req[p] EXCEPT !.pc = "update", !.soon = b, !.status = st] \in RequestType
    BY ZenonT(40), <2>1, <2>2, RequestUpdates DEF b, st
  <2>3. req' \in [Requests -> RequestType]
    BY <2>4, <2>5
  <2> QED BY <1>14, <2>3 DEF SnapshotCiba
<1>15. ASSUME NEW p \in Requests, UpdateCiba(p) PROVE TypeOK'
  <2>1. req[p].flow \in Flows /\ req[p].at \in Nat /\ req[p].soon \in BOOLEAN
    BY <1>11, <1>15 DEF UpdateCiba
  <2>2. flow' \in [Flows -> FlowType]
    BY <1>7, <1>15, <2>1 DEF UpdateCiba
  <2>3. onTime' \in [Flows -> Nat \cup {NEVER}] /\ crowded' \subseteq Flows
    BY <1>8, <1>15, <2>1 DEF UpdateCiba
  <2>4. req' \in [Requests -> RequestType]
    BY <1>9, <1>10, <1>15, <2>1 DEF UpdateCiba
  <2> QED BY <1>15, <2>2, <2>3, <2>4 DEF UpdateCiba
<1>16. ASSUME NEW p \in Requests, Details(p) PROVE TypeOK'
  <2>1. req[p].flow \in Flows
    BY <1>11, <1>16 DEF Details
  <2>2. req' \in [Requests -> RequestType]
    <3>1. [req[p] EXCEPT !.pc = "subject", !.at = now] \in RequestType
      BY RequestUpdates
    <3> QED BY <1>9, <1>16, <3>1 DEF Details
  <2> QED BY <1>16, <2>2 DEF Details
<1>17. ASSUME NEW p \in Requests, Redeem(p) PROVE TypeOK'
  <2>1. req[p].flow \in Flows
    BY <1>11, <1>17 DEF Redeem
  <2>2. flow' \in [Flows -> FlowType]
    <3>1. [flow[req[p].flow] EXCEPT !.status = "redeemed"] \in FlowType
      BY <2>1, FlowUpdates DEF Statuses
    <3> QED BY <1>17, <2>1, <3>1 DEF Redeem
  <2>3. /\ issued' \in [Flows -> Nat] /\ fencedIssue' \subseteq Flows
        /\ req' \in [Requests -> RequestType] /\ raced' \subseteq Requests
    BY <1>9, <1>17, <2>1 DEF Redeem
  <2> QED BY <1>17, <2>2, <2>3 DEF Redeem
<1>18. ASSUME NEW p \in Requests, Abandon(p) PROVE TypeOK'
  <2>1. req' \in [Requests -> RequestType] /\ raced' \subseteq Requests
    BY <1>9, <1>18 DEF Abandon
  <2> QED BY <1>18, <2>1 DEF Abandon
<1>19. ASSUME NEW f \in Flows, RevokeGrant(f) PROVE TypeOK'
  BY <1>19 DEF RevokeGrant
<1>20. ASSUME NEW f \in Flows, NEW k \in Kinds, NEW u \in Users \cup {NONE}, Issue(f, k, u)
       PROVE  TypeOK'
  <2>1. flow' \in [Flows -> FlowType]
    <3> DEFINE e == now + Lifetime
               r == [NoFlow EXCEPT !.status = "pending", !.kind = k, !.subject = u,
                                   !.expires = e, !.interval = Base]
    <3>1. e \in Nat /\ Base \in Nat
      OBVIOUS
    <3>2. flow' = [flow EXCEPT ![f] = r]
      BY <1>20 DEF Issue
    <3> HIDE DEF e
    <3>3. r \in FlowType
      BY ONLY <3>1, IssuedType, k \in Kinds, u \in Users \cup {NONE}
    <3> HIDE DEF r
    <3> QED BY <3>2, <3>3
  <2> QED BY <1>20, <2>1 DEF Issue
<1>21. CASE Tick
  BY <1>21 DEF Tick
<1>22. CASE UNCHANGED vars
  BY <1>22 DEF vars
<1> QED
  BY <1>1, <1>2, <1>3, <1>4, <1>5, <1>6, <1>12, <1>13, <1>14, <1>15, <1>16, <1>17, <1>18, <1>19,
     <1>20, <1>21, <1>22 DEF Next, Person, Request

-----------------------------------------------------------------------------
(* What the statements leave alone, field by field.                        *)

SameFlow(g) == flow'[g] = flow[g]
SameTerms(g) == /\ flow'[g].kind = flow[g].kind /\ flow'[g].expires = flow[g].expires
SamePace(g) == flow'[g].interval = flow[g].interval /\ flow'[g].last = flow[g].last
SameOwner(g) == flow'[g].subject = flow[g].subject /\ flow'[g].session = flow[g].session

LEMMA StatusEffect ==
  ASSUME flow \in [Flows -> FlowType], NEW f \in Flows, NEW st \in Statuses, NEW n \in Nat,
         \/ flow' = [flow EXCEPT ![f].status = st]
         \/ flow' = [flow EXCEPT ![f].failed = n, ![f].status = st]
  PROVE  /\ \A g \in Flows : g # f => SameFlow(g)
         /\ flow'[f].status = st /\ SameTerms(f) /\ SamePace(f) /\ SameOwner(f)
BY DEF FlowType, SameFlow, SameTerms, SamePace, SameOwner

LEMMA ApproveEffect ==
  ASSUME flow \in [Flows -> FlowType], NEW f \in Flows, NEW u \in Users, NEW n \in Nat,
         flow' = [flow EXCEPT ![f].status = "approved", ![f].subject = u, ![f].session = n]
  PROVE  /\ \A g \in Flows : g # f => SameFlow(g)
         /\ flow'[f].status = "approved" /\ flow'[f].subject = u /\ flow'[f].session = n
         /\ SameTerms(f) /\ SamePace(f)
BY DEF FlowType, SameFlow, SameTerms, SamePace

LEMMA PollEffect ==
  ASSUME flow \in [Flows -> FlowType], NEW f \in Flows, NEW t \in Nat, NEW soon \in BOOLEAN,
         flow' = Polled(f, t, soon)
  PROVE  /\ \A g \in Flows : g # f => SameFlow(g)
         /\ flow'[f].status = flow[f].status /\ SameTerms(f) /\ SameOwner(f)
         /\ flow'[f].last = t
         /\ flow'[f].interval = IF soon THEN flow[f].interval + Increment ELSE flow[f].interval
<1> DEFINE n == IF soon THEN flow[f].interval + Increment ELSE flow[f].interval
<1>1. flow' = [flow EXCEPT ![f].last = t, ![f].interval = n]
  BY DEF Polled
<1> HIDE DEF n
<1>2. /\ \A g \in Flows : g # f => SameFlow(g)
      /\ flow'[f].status = flow[f].status /\ SameTerms(f) /\ SameOwner(f)
      /\ flow'[f].last = t /\ flow'[f].interval = n
  BY <1>1 DEF FlowType, SameFlow, SameTerms, SameOwner
<1> QED BY <1>2 DEF n

LEMMA ProceedEffect ==
  ASSUME req \in [Requests -> RequestType], NEW p \in Requests, NEW pc, Proceed(p, pc)
  PROVE  /\ \A q \in Requests : q # p => req'[q] = req[q]
         /\ req'[p].pc = pc /\ req'[p].flow = req[p].flow /\ req'[p].at = req[p].at
BY DEF RequestType, Proceed

LEMMA AnswerEffect ==
  ASSUME req \in [Requests -> RequestType], NEW p \in Requests, Answer(p)
  PROVE  (\A q \in Requests : q # p => req'[q] = req[q]) /\ req'[p].pc = "idle"
BY DEF NoRequest, Answer

-----------------------------------------------------------------------------
(* The inductive invariant, one lemma per action.                             *)

\* Sessions begin only for active users.
LEMMA SignInStep ==
  ASSUME IInv, TypeOK', NEW u \in Users, SignIn(u) \/ Logout(u)
  PROVE  IInv'
<1> TypeOK /\ PeopleShape /\ FlowShape /\ RequestShape /\ Overtaken /\ Paced
    /\ FencedGetsNothing
  BY DEF IInv
<1>11. PeopleShape'
  BY DEF SignIn, Logout, people, history, TypeOK, PeopleShape, Device, Live
<1>12. FlowShape'
  BY DEF SignIn, Logout, people, history, TypeOK, FlowShape, Device, Live
<1>13. RequestShape'
  BY DEF SignIn, Logout, people, history, TypeOK, RequestShape, Device, Live
<1>14. Overtaken'
  BY DEF SignIn, Logout, people, history, TypeOK, Overtaken, RequestShape, Device, Live
<1>15. Paced'
  BY DEF SignIn, Logout, people, history, TypeOK, Paced, Device, Live
<1>16. FencedGetsNothing'
  BY DEF SignIn, Logout, people, history, TypeOK, FencedGetsNothing
<1> QED BY <1>11, <1>12, <1>13, <1>14, <1>15, <1>16 DEF IInv

\* A fence ends the session and marks the requests past their check.
LEMMA FenceStep ==
  ASSUME IInv, TypeOK', NEW u \in Users, Fence(u)
  PROVE  IInv'
<1> TypeOK /\ PeopleShape /\ FlowShape /\ RequestShape /\ Overtaken /\ Paced
    /\ FencedGetsNothing
  BY DEF IInv
<1>11. PeopleShape'
  BY DEF Fence, Committed, TypeOK, PeopleShape, Device, Live
<1>12. FlowShape'
  BY DEF Fence, Committed, TypeOK, FlowShape, Device, Live
<1>13. RequestShape'
  BY DEF Fence, Committed, TypeOK, RequestShape, Device, Live
<1>14. Overtaken'
  BY DEF Fence, Committed, TypeOK, Overtaken, RequestShape, Device, Live
<1>15. Paced'
  BY DEF Fence, Committed, TypeOK, Paced, Device, Live
<1>16. FencedGetsNothing'
  BY DEF Fence, Committed, TypeOK, FencedGetsNothing
<1> QED BY <1>11, <1>12, <1>13, <1>14, <1>15, <1>16 DEF IInv

\* Reinstating opens nothing.
LEMMA ReinstateStep ==
  ASSUME IInv, TypeOK', NEW u \in Users, Reinstate(u)
  PROVE  IInv'
<1> TypeOK /\ PeopleShape /\ FlowShape /\ RequestShape /\ Overtaken /\ Paced
    /\ FencedGetsNothing
  BY DEF IInv
<1>11. PeopleShape'
  BY DEF Reinstate, people, history, TypeOK, PeopleShape, Device, Live
<1>12. FlowShape'
  BY DEF Reinstate, people, history, TypeOK, FlowShape, Device, Live
<1>13. RequestShape'
  BY DEF Reinstate, people, history, TypeOK, RequestShape, Device, Live
<1>14. Overtaken'
  BY DEF Reinstate, people, history, TypeOK, Overtaken, RequestShape, Device, Live
<1>15. Paced'
  BY DEF Reinstate, people, history, TypeOK, Paced, Device, Live
<1>16. FencedGetsNothing'
  BY DEF Reinstate, people, history, TypeOK, FencedGetsNothing
<1> QED BY <1>11, <1>12, <1>13, <1>14, <1>15, <1>16 DEF IInv

\* A revoked grant is still a grant that was opened.
LEMMA RevokeGrantStep ==
  ASSUME IInv, TypeOK', NEW f \in Flows, RevokeGrant(f)
  PROVE  IInv'
<1> TypeOK /\ PeopleShape /\ FlowShape /\ RequestShape /\ Overtaken /\ Paced
    /\ FencedGetsNothing
  BY DEF IInv
<1>11. PeopleShape'
  BY DEF RevokeGrant, people, history, TypeOK, PeopleShape, Device, Live
<1>12. FlowShape'
  BY DEF RevokeGrant, people, history, TypeOK, FlowShape, Device, Live
<1>13. RequestShape'
  BY DEF RevokeGrant, people, history, TypeOK, RequestShape, Device, Live
<1>14. Overtaken'
  BY DEF RevokeGrant, people, history, TypeOK, Overtaken, RequestShape, Device, Live
<1>15. Paced'
  BY DEF RevokeGrant, people, history, TypeOK, Paced, Device, Live
<1>16. FencedGetsNothing'
  BY DEF RevokeGrant, people, history, TypeOK, FencedGetsNothing
<1> QED BY <1>11, <1>12, <1>13, <1>14, <1>15, <1>16 DEF IInv

\* A decision is submitted from a live session.
LEMMA SubmitStep ==
  ASSUME IInv, TypeOK', NEW u \in Users, NEW f \in Flows, Submit(u, f)
  PROVE  IInv'
<1> TypeOK /\ PeopleShape /\ FlowShape /\ RequestShape /\ Overtaken /\ Paced
    /\ FencedGetsNothing
  BY DEF IInv
<1>11. PeopleShape'
  BY DEF Submit, people, history, TypeOK, PeopleShape, Device, Live
<1>12. FlowShape'
  BY DEF Submit, people, history, TypeOK, FlowShape, Device, Live
<1>13. RequestShape'
  BY DEF Submit, people, history, TypeOK, RequestShape, Device, Live
<1>14. Overtaken'
  BY DEF Submit, people, history, TypeOK, Overtaken, RequestShape, Device, Live
<1>15. Paced'
  BY DEF Submit, people, history, TypeOK, Paced, Device, Live
<1>16. FencedGetsNothing'
  BY DEF Submit, people, history, TypeOK, FencedGetsNothing
<1> QED BY <1>11, <1>12, <1>13, <1>14, <1>15, <1>16 DEF IInv

\* Time passes for readings and expiries.
LEMMA TickStep ==
  ASSUME IInv, TypeOK', Tick
  PROVE  IInv'
<1> TypeOK /\ PeopleShape /\ FlowShape /\ RequestShape /\ Overtaken /\ Paced
    /\ FencedGetsNothing
  BY DEF IInv
<1>1. /\ \A f \in Flows : flow[f].expires \in Nat /\ onTime[f] \in Nat \cup {NEVER}
      /\ \A p \in Requests : req[p].at \in Nat
      /\ now \in Nat /\ MaxStall \in Nat
  BY FieldTypes, TimesAssumption DEF TypeOK
<1>2. /\ now' = now + 1
      /\ \A p \in Requests : req[p].pc # "idle" => now - req[p].at < MaxStall
      /\ UNCHANGED <<people, flow, grant, req, page, faults, history>>
  BY DEF Tick
<1>11. PeopleShape'
  BY <1>1, <1>2 DEF people, history, PeopleShape, Device, Live
<1>12. FlowShape'
  BY <1>1, <1>2 DEF people, history, FlowShape, Device, Live
<1>13. RequestShape'
  BY <1>1, <1>2 DEF people, history, RequestShape, Device, Live
<1>14. Overtaken'
  BY <1>1, <1>2 DEF people, history, Overtaken, RequestShape, Device, Live
<1>15. Paced'
  BY <1>1, <1>2 DEF people, history, Paced, Device, Live
<1>16. FencedGetsNothing'
  BY <1>1, <1>2 DEF people, history, FencedGetsNothing
<1> QED BY <1>11, <1>12, <1>13, <1>14, <1>15, <1>16 DEF IInv

\* A request begins with a fresh reading.
LEMMA BeginStep ==
  ASSUME IInv, TypeOK', NEW p \in Requests, NEW f \in Flows, Begin(p, f)
  PROVE  IInv'
<1> TypeOK /\ PeopleShape /\ FlowShape /\ RequestShape /\ Overtaken /\ Paced
    /\ FencedGetsNothing
  BY DEF IInv
<1>1. /\ \A q \in Requests : q # p => req'[q] = req[q]
      /\ req'[p].pc = "poll" /\ req'[p].flow = f /\ req'[p].at = now /\ req[p].pc = "idle"
  BY DEF Begin, NoRequest, TypeOK
<1>2. flow[f].status # NONE /\ UNCHANGED <<now, people, flow, grant, page, faults, history>>
  BY DEF Begin
<1>11. PeopleShape'
  BY <1>1, <1>2, TimesAssumption DEF people, history, TypeOK, PeopleShape, Device, Live
<1>12. FlowShape'
  BY <1>1, <1>2, TimesAssumption DEF people, history, TypeOK, FlowShape, Device, Live
<1>13. RequestShape'
  BY <1>1, <1>2, TimesAssumption DEF people, history, TypeOK, RequestShape, Device, Live
<1>14. Overtaken'
  BY <1>1, <1>2, TimesAssumption DEF people, history, TypeOK, Overtaken, RequestShape, Device, Live
<1>15. Paced'
  BY <1>1, <1>2, TimesAssumption DEF people, history, TypeOK, Paced, Device, Live
<1>16. FencedGetsNothing'
  BY <1>1, <1>2, TimesAssumption DEF people, history, TypeOK, FencedGetsNothing
<1> QED BY <1>11, <1>12, <1>13, <1>14, <1>15, <1>16 DEF IInv

\* A request that ends takes nothing along.
LEMMA AbandonStep ==
  ASSUME IInv, TypeOK', NEW p \in Requests, Abandon(p)
  PROVE  IInv'
<1> TypeOK /\ PeopleShape /\ FlowShape /\ RequestShape /\ Overtaken /\ Paced
    /\ FencedGetsNothing
  BY DEF IInv
<1>1. (\A q \in Requests : q # p => req'[q] = req[q]) /\ req'[p].pc = "idle"
  BY AnswerEffect DEF Abandon, TypeOK
<1>11. PeopleShape'
  BY <1>1 DEF Abandon, people, history, TypeOK, PeopleShape, Device, Live
<1>12. FlowShape'
  BY <1>1 DEF Abandon, people, history, TypeOK, FlowShape, Device, Live
<1>13. RequestShape'
  BY <1>1 DEF Abandon, people, history, TypeOK, RequestShape, Device, Live
<1>14. Overtaken'
  BY <1>1 DEF Abandon, people, history, TypeOK, Overtaken, RequestShape, Device, Live
<1>15. Paced'
  BY <1>1 DEF Abandon, people, history, TypeOK, Paced, Device, Live
<1>16. FencedGetsNothing'
  BY <1>1 DEF Abandon, people, history, TypeOK, FencedGetsNothing
<1> QED BY <1>11, <1>12, <1>13, <1>14, <1>15, <1>16 DEF IInv

\* The approving session is live, so its user is not fenced.
LEMMA EnsureSidStep ==
  ASSUME IInv, TypeOK', NEW p \in Requests, EnsureSid(p)
  PROVE  IInv'
<1> TypeOK /\ PeopleShape /\ FlowShape /\ RequestShape /\ Overtaken /\ Paced
    /\ FencedGetsNothing
  BY DEF IInv
<1> DEFINE f == req[p].flow
<1>1. /\ req[p].pc = "sid" /\ f \in Flows /\ Device(f) /\ flow[f].status \in {"approved", "redeemed", "expired"}
      /\ req[p].at <= now /\ now - req[p].at <= MaxStall
  BY DEF EnsureSid, RequestShape
<1>2. /\ \A q \in Requests : q # p => req'[q] = req[q]
      /\ \/ req'[p].pc = "idle"
         \/ /\ req'[p].pc = "redeem" /\ req'[p].flow = f /\ req'[p].at = req[p].at
            /\ flow[f].session = session[flow[f].subject]
  BY AnswerEffect, ProceedEffect DEF EnsureSid, TypeOK
<1>3. UNCHANGED <<now, people, flow, grant, page, faults, history>>
  BY DEF EnsureSid
<1>4. flow[f].status = "approved" => flow[f].session # 0 /\ flow[f].subject \in Users
  BY <1>1 DEF FlowShape
<1>11. PeopleShape'
  BY <1>1, <1>2, <1>3, <1>4 DEF people, history, TypeOK, PeopleShape, Device, Live
<1>12. FlowShape'
  BY <1>1, <1>2, <1>3, <1>4 DEF people, history, TypeOK, FlowShape, Device, Live
<1>13. RequestShape'
  BY <1>1, <1>2, <1>3, <1>4 DEF people, history, TypeOK, RequestShape, Device, Live
<1>14. Overtaken'
  BY <1>1, <1>2, <1>3, <1>4, PeopleShape DEF people, history, TypeOK, PeopleShape, Overtaken, RequestShape, Device, Live
<1>15. Paced'
  BY <1>1, <1>2, <1>3, <1>4 DEF people, history, TypeOK, Paced, Device, Live
<1>16. FencedGetsNothing'
  BY <1>1, <1>2, <1>3, <1>4 DEF people, history, TypeOK, FencedGetsNothing
<1> QED BY <1>11, <1>12, <1>13, <1>14, <1>15, <1>16 DEF IInv

\* The subject was asked about, so it is not fenced.
LEMMA CheckSubjectStep ==
  ASSUME IInv, TypeOK', NEW p \in Requests, CheckSubject(p)
  PROVE  IInv'
<1> TypeOK /\ PeopleShape /\ FlowShape /\ RequestShape /\ Overtaken /\ Paced
    /\ FencedGetsNothing
  BY DEF IInv
<1> DEFINE f == req[p].flow
<1>1. /\ req[p].pc = "subject" /\ f \in Flows /\ flow[f].status \in {"approved", "redeemed", "expired"}
      /\ req[p].at <= now /\ now - req[p].at <= MaxStall /\ flow[f].status # NONE
  BY DEF CheckSubject, RequestShape
<1>2. /\ \A q \in Requests : q # p => req'[q] = req[q]
      /\ \/ req'[p].pc = "idle"
         \/ /\ req'[p].pc = "redeem" /\ req'[p].flow = f /\ req'[p].at = req[p].at
            /\ user[flow[f].subject] = "active"
  BY AnswerEffect, ProceedEffect DEF CheckSubject, TypeOK
<1>3. UNCHANGED <<now, people, flow, grant, page, faults, history>>
  BY DEF CheckSubject
<1>11. PeopleShape'
  BY <1>1, <1>2, <1>3 DEF people, history, TypeOK, PeopleShape, Device, Live
<1>12. FlowShape'
  BY <1>1, <1>2, <1>3 DEF people, history, TypeOK, FlowShape, Device, Live
<1>13. RequestShape'
  BY <1>1, <1>2, <1>3 DEF people, history, TypeOK, RequestShape, Device, Live
<1>14. Overtaken'
  BY <1>1, <1>2, <1>3 DEF people, history, TypeOK, Overtaken, RequestShape, Device, Live
<1>15. Paced'
  BY <1>1, <1>2, <1>3 DEF people, history, TypeOK, Paced, Device, Live
<1>16. FencedGetsNothing'
  BY <1>1, <1>2, <1>3 DEF people, history, TypeOK, FencedGetsNothing
<1> QED BY <1>11, <1>12, <1>13, <1>14, <1>15, <1>16 DEF IInv

\* The details are read with a reading of their own.
LEMMA DetailsStep ==
  ASSUME IInv, TypeOK', NEW p \in Requests, Details(p)
  PROVE  IInv'
<1> TypeOK /\ PeopleShape /\ FlowShape /\ RequestShape /\ Overtaken /\ Paced
    /\ FencedGetsNothing
  BY DEF IInv
<1> DEFINE f == req[p].flow
<1>1. req[p].pc = "details" /\ f \in Flows /\ ~Device(f) /\ flow[f].status # NONE
  BY DEF Details, RequestShape
<1>2. /\ \A q \in Requests : q # p => req'[q] = req[q]
      /\ \/ req'[p].pc = "idle"
         \/ /\ req'[p].pc = "subject" /\ req'[p].flow = f /\ req'[p].at = now
            /\ flow[f].status = "approved"
  <2>1. CASE flow[f].status = "approved" /\ Live(f, now)
    BY <2>1 DEF Details, TypeOK, RequestType
  <2>2. CASE ~(flow[f].status = "approved" /\ Live(f, now))
    BY <2>2, AnswerEffect DEF Details, TypeOK
  <2> QED BY <2>1, <2>2
<1>3. UNCHANGED <<now, people, flow, grant, page, faults, history>>
  BY DEF Details
<1>11. PeopleShape'
  BY <1>1, <1>2, <1>3, TimesAssumption DEF people, history, TypeOK, PeopleShape, Device, Live
<1>12. FlowShape'
  BY <1>1, <1>2, <1>3, TimesAssumption DEF people, history, TypeOK, FlowShape, Device, Live
<1>13. RequestShape'
  BY <1>1, <1>2, <1>3, TimesAssumption DEF people, history, TypeOK, RequestShape, Device, Live
<1>14. Overtaken'
  BY <1>1, <1>2, <1>3, TimesAssumption DEF people, history, TypeOK, Overtaken, RequestShape, Device, Live
<1>15. Paced'
  BY <1>1, <1>2, <1>3, TimesAssumption DEF people, history, TypeOK, Paced, Device, Live
<1>16. FencedGetsNothing'
  BY <1>1, <1>2, <1>3, TimesAssumption DEF people, history, TypeOK, FencedGetsNothing
<1> QED BY <1>11, <1>12, <1>13, <1>14, <1>15, <1>16 DEF IInv

\* What the poll saw approved was approved.
LEMMA SnapshotCibaStep ==
  ASSUME IInv, TypeOK', NEW p \in Requests, SnapshotCiba(p)
  PROVE  IInv'
<1> TypeOK /\ PeopleShape /\ FlowShape /\ RequestShape /\ Overtaken /\ Paced
    /\ FencedGetsNothing
  BY DEF IInv
<1> DEFINE f == req[p].flow
<1>1. /\ req[p].pc = "poll" /\ f \in Flows /\ ~Device(f) /\ flow[f].status # NONE
      /\ req[p].at <= now /\ now - req[p].at <= MaxStall
  BY DEF SnapshotCiba, RequestShape
<1>2. /\ \A q \in Requests : q # p => req'[q] = req[q]
      /\ req'[p].pc = "update" /\ req'[p].flow = f /\ req'[p].at = req[p].at
      /\ req'[p].status = flow[f].status
  BY DEF SnapshotCiba, TypeOK, RequestType
<1>3. UNCHANGED <<now, people, flow, grant, page, faults, history>>
  BY DEF SnapshotCiba
<1>11. PeopleShape'
  BY <1>1, <1>2, <1>3 DEF people, history, TypeOK, PeopleShape, Device, Live
<1>12. FlowShape'
  BY <1>1, <1>2, <1>3 DEF people, history, TypeOK, FlowShape, Device, Live
<1>13. RequestShape'
  BY <1>1, <1>2, <1>3 DEF people, history, TypeOK, RequestShape, Device, Live
<1>14. Overtaken'
  BY <1>1, <1>2, <1>3 DEF people, history, TypeOK, Overtaken, RequestShape, Device, Live
<1>15. Paced'
  BY <1>1, <1>2, <1>3 DEF people, history, TypeOK, Paced, Device, Live
<1>16. FencedGetsNothing'
  BY <1>1, <1>2, <1>3 DEF people, history, TypeOK, FencedGetsNothing
<1> QED BY <1>11, <1>12, <1>13, <1>14, <1>15, <1>16 DEF IInv

\* A wrong code leaves a pending flow pending, or denies it.
LEMMA WrongCodeStep ==
  ASSUME IInv, TypeOK', NEW u \in Users, NEW f \in Flows, WrongCode(u, f)
  PROVE  IInv'
<1> TypeOK /\ PeopleShape /\ FlowShape /\ RequestShape /\ Overtaken /\ Paced
    /\ FencedGetsNothing
  BY DEF IInv
<1>1. Device(f) /\ flow[f].status = "pending"
  BY DEF WrongCode
<1>2. /\ \A g \in Flows : g # f => SameFlow(g)
      /\ flow'[f].status \in {"pending", "denied"} /\ SameTerms(f) /\ SamePace(f) /\ SameOwner(f)
  <2> DEFINE st == IF flow[f].failed + 1 >= MaxAttempts THEN "denied" ELSE flow[f].status
             n  == flow[f].failed + 1
  <2>1. n \in Nat /\ st \in {"pending", "denied"} /\ flow \in [Flows -> FlowType]
    BY <1>1, FieldTypes DEF TypeOK
  <2>2. flow' = [flow EXCEPT ![f].failed = n, ![f].status = st]
    BY DEF WrongCode
  <2> HIDE DEF st, n
  <2> QED BY <2>1, <2>2, StatusEffect DEF Statuses
<1>3. UNCHANGED <<now, people, grant, req, page, faults, history>>
  BY DEF WrongCode
<1>11. PeopleShape'
  BY SMTT(30), <1>1, <1>2, <1>3 DEF SameFlow, SameTerms, SamePace, SameOwner, people, history, TypeOK, PeopleShape, Device, Live
<1>12. FlowShape'
  BY <1>1, <1>2, <1>3 DEF SameFlow, SameTerms, SamePace, SameOwner, people, history, TypeOK, FlowShape, Device, Live
<1>13. RequestShape'
  BY <1>1, <1>2, <1>3 DEF SameFlow, SameTerms, SamePace, SameOwner, people, history, TypeOK, RequestShape, Device, Live
<1>14. Overtaken'
  BY <1>1, <1>2, <1>3 DEF SameFlow, SameTerms, SamePace, SameOwner, people, history, TypeOK, Overtaken, RequestShape, Device, Live
<1>15. Paced'
  BY <1>1, <1>2, <1>3 DEF SameFlow, SameTerms, SamePace, SameOwner, people, history, TypeOK, Paced, Device, Live
<1>16. FencedGetsNothing'
  BY <1>1, <1>2, <1>3 DEF SameFlow, SameTerms, SamePace, SameOwner, people, history, TypeOK, FencedGetsNothing
<1> QED BY <1>11, <1>12, <1>13, <1>14, <1>15, <1>16 DEF IInv

\* The poll of a CIBA request touches its pace only.
LEMMA UpdateCibaStep ==
  ASSUME IInv, TypeOK', NEW p \in Requests, UpdateCiba(p)
  PROVE  IInv'
<1> TypeOK /\ PeopleShape /\ FlowShape /\ RequestShape /\ Overtaken /\ Paced
    /\ FencedGetsNothing
  BY DEF IInv
<1> DEFINE f == req[p].flow
<1>1. /\ req[p].pc = "update" /\ f \in Flows /\ ~Device(f) /\ flow[f].status # NONE
      /\ req[p].at <= now /\ now - req[p].at <= MaxStall /\ req[p].at \in Nat
      /\ req[p].soon \in BOOLEAN /\ flow \in [Flows -> FlowType]
  BY FieldTypes DEF UpdateCiba, RequestShape, TypeOK
<1>2. /\ \A g \in Flows : g # f => SameFlow(g)
      /\ flow'[f].status = flow[f].status /\ SameTerms(f) /\ SameOwner(f)
  BY <1>1, PollEffect DEF UpdateCiba
<1>3. /\ \A q \in Requests : q # p => req'[q] = req[q]
      /\ \/ req'[p].pc = "idle"
         \/ /\ req'[p].pc = "details" /\ req'[p].flow = f /\ req'[p].at = req[p].at
            /\ req[p].status = "approved"
  BY AnswerEffect, ProceedEffect DEF UpdateCiba, TypeOK
<1>4. /\ \A g \in Flows : g # f => onTime'[g] = onTime[g] /\ (g \in crowded' <=> g \in crowded)
      /\ UNCHANGED <<now, people, grant, page, faults, issued, named, approver,
                     raced, fencedIssue>>
  BY <1>1 DEF UpdateCiba, OnTime, TypeOK
<1>11. PeopleShape'
  BY <1>1, <1>2, <1>3, <1>4 DEF SameFlow, SameTerms, SamePace, SameOwner, people, TypeOK, PeopleShape, Device, Live
<1>12. FlowShape'
  BY <1>1, <1>2, <1>3, <1>4 DEF SameFlow, SameTerms, SamePace, SameOwner, people, TypeOK, FlowShape, Device, Live
<1>13. RequestShape'
  BY <1>1, <1>2, <1>3, <1>4 DEF SameFlow, SameTerms, SamePace, SameOwner, people, TypeOK, RequestShape, Device, Live
<1>14. Overtaken'
  BY SMTT(30), <1>1, <1>2, <1>3, <1>4 DEF SameFlow, SameTerms, SamePace, SameOwner, people, TypeOK, Overtaken, RequestShape, Device, Live
<1>15. Paced'
  BY <1>1, <1>2, <1>3, <1>4 DEF SameFlow, SameTerms, SamePace, SameOwner, people, TypeOK, Paced, Device, Live
<1>16. FencedGetsNothing'
  BY <1>1, <1>2, <1>3, <1>4 DEF SameFlow, SameTerms, SamePace, SameOwner, people, TypeOK, FencedGetsNothing
<1> QED BY <1>11, <1>12, <1>13, <1>14, <1>15, <1>16 DEF IInv

\* A new flow is pending.
LEMMA IssueStep ==
  ASSUME IInv, TypeOK', NEW f \in Flows, NEW k \in Kinds, NEW u \in Users \cup {NONE}, Issue(f, k, u)
  PROVE  IInv'
<1> TypeOK /\ PeopleShape /\ FlowShape /\ RequestShape /\ Overtaken /\ Paced
    /\ FencedGetsNothing
  BY DEF IInv
<1>1. /\ flow[f].status = NONE /\ (k = "device" <=> u = NONE) /\ Device(f) /\ onTime[f] = NEVER
      /\ f \notin crowded
  BY DEF Issue, FlowShape, Paced
<1>2. /\ \A g \in Flows : g # f => SameFlow(g) /\ named'[g] = named[g]
      /\ flow'[f].status = "pending" /\ flow'[f].kind = k /\ flow'[f].subject = u
      /\ flow'[f].interval = Base /\ named'[f] = u
  BY DEF Issue, NoFlow, SameFlow, TypeOK
<1>3. UNCHANGED <<now, people, grant, req, page, faults, issued, approver,
                  onTime, crowded, raced, fencedIssue>>
  BY DEF Issue
<1>11. PeopleShape'
  BY <1>1, <1>2, <1>3, TimesAssumption DEF SameFlow, SameTerms, SamePace, SameOwner, people, TypeOK, PeopleShape, Device, Live
<1>12. FlowShape'
  BY <1>1, <1>2, <1>3, TimesAssumption DEF SameFlow, SameTerms, SamePace, SameOwner, people, TypeOK, FlowShape, Device, Live
<1>13. RequestShape'
  BY <1>1, <1>2, <1>3, TimesAssumption DEF SameFlow, SameTerms, SamePace, SameOwner, people, TypeOK, RequestShape, Device, Live
<1>14. Overtaken'
  BY <1>1, <1>2, <1>3, TimesAssumption DEF SameFlow, SameTerms, SamePace, SameOwner, people, TypeOK, Overtaken, RequestShape, Device, Live
<1>15. Paced'
  BY <1>1, <1>2, <1>3, TimesAssumption DEF SameFlow, SameTerms, SamePace, SameOwner, people, TypeOK, Paced, Device, Live
<1>16. FencedGetsNothing'
  BY <1>1, <1>2, <1>3, TimesAssumption DEF SameFlow, SameTerms, SamePace, SameOwner, people, TypeOK, FencedGetsNothing
<1> QED BY <1>11, <1>12, <1>13, <1>14, <1>15, <1>16 DEF IInv

\* Of the requests that saw a flow approved, one redeems it.
LEMMA RedeemStep ==
  ASSUME IInv, TypeOK', NEW p \in Requests, Redeem(p)
  PROVE  IInv'
<1> TypeOK /\ PeopleShape /\ FlowShape /\ RequestShape /\ Overtaken /\ Paced
    /\ FencedGetsNothing
  BY DEF IInv
<1> DEFINE f == req[p].flow
<1>1. /\ req[p].pc = "redeem" /\ f \in Flows /\ flow[f].status # NONE /\ flow \in [Flows -> FlowType]
  BY DEF Redeem, RequestShape, TypeOK
<1>2. (\A q \in Requests : q # p => req'[q] = req[q]) /\ req'[p].pc = "idle"
  BY AnswerEffect DEF Redeem, TypeOK
<1>3. /\ raced' = raced \ {p}
      /\ UNCHANGED <<now, people, grant, page, faults, named, approver, onTime, crowded>>
  BY DEF Redeem
<1>4. CASE /\ MayRedeem(p)
           /\ flow' = [flow EXCEPT ![f].status = "redeemed"]
           /\ issued' = [issued EXCEPT ![f] = @ + 1]
           /\ fencedIssue' = IF user[flow[f].subject] = "fenced" /\ p \notin raced
                             THEN fencedIssue \cup {f} ELSE fencedIssue
  <2>1. /\ \A g \in Flows : g # f => SameFlow(g)
        /\ flow'[f].status = "redeemed" /\ SameTerms(f) /\ SamePace(f) /\ SameOwner(f)
    BY <1>1, <1>4, StatusEffect DEF Statuses
  <2>2. flow[f].status = "approved" /\ fencedIssue' = fencedIssue
    BY <1>1, <1>4 DEF MayRedeem, Overtaken
  <2>3. issued'[f] = issued[f] + 1 /\ \A g \in Flows : g # f => issued'[g] = issued[g]
    BY <1>1, <1>4 DEF TypeOK
  <2>4. PeopleShape'
    BY <1>1, <1>2, <1>3, <2>1, <2>2, <2>3 DEF SameFlow, SameTerms, SamePace, SameOwner, people, TypeOK, PeopleShape, Device, Live
  <2>5. FlowShape'
    BY <1>1, <1>2, <1>3, <2>1, <2>2, <2>3 DEF SameFlow, SameTerms, SamePace, SameOwner, people, TypeOK, FlowShape, Device, Live
  <2>6. RequestShape'
    BY <1>1, <1>2, <1>3, <2>1, <2>2, <2>3 DEF SameFlow, SameTerms, SamePace, SameOwner, people, TypeOK, RequestShape, Device, Live
  <2>7. Overtaken'
    BY <1>1, <1>2, <1>3, <2>1, <2>2, <2>3 DEF SameFlow, SameTerms, SamePace, SameOwner, people, TypeOK, Overtaken, RequestShape, Device, Live
  <2>8. Paced'
    BY <1>1, <1>2, <1>3, <2>1, <2>2, <2>3 DEF SameFlow, SameTerms, SamePace, SameOwner, people, TypeOK, Paced, Device, Live
  <2>9. FencedGetsNothing'
    BY <1>1, <1>2, <1>3, <2>1, <2>2, <2>3 DEF SameFlow, SameTerms, SamePace, SameOwner, people, TypeOK, FencedGetsNothing, Device, Live
  <2> QED BY <2>4, <2>5, <2>6, <2>7, <2>8, <2>9 DEF IInv
<1>5. CASE UNCHANGED <<flow, issued, fencedIssue>>
  <2>4. PeopleShape'
    BY <1>1, <1>2, <1>3, <1>5 DEF people, TypeOK, PeopleShape, Device, Live
  <2>5. FlowShape'
    BY <1>1, <1>2, <1>3, <1>5 DEF people, TypeOK, FlowShape, Device, Live
  <2>6. RequestShape'
    BY <1>1, <1>2, <1>3, <1>5 DEF people, TypeOK, RequestShape, Device, Live
  <2>7. Overtaken'
    BY <1>1, <1>2, <1>3, <1>5 DEF people, TypeOK, Overtaken, Device, Live
  <2>8. Paced'
    BY <1>1, <1>2, <1>3, <1>5 DEF people, TypeOK, Paced, Device, Live
  <2>9. FencedGetsNothing'
    BY <1>1, <1>2, <1>3, <1>5 DEF people, TypeOK, FencedGetsNothing, Device, Live
  <2> QED BY <2>4, <2>5, <2>6, <2>7, <2>8, <2>9 DEF IInv
<1> QED BY <1>4, <1>5 DEF Redeem

\* A device poll expires the flow, or sets its pace and goes by its status.
LEMMA PollDeviceStep ==
  ASSUME IInv, TypeOK', NEW p \in Requests, PollDevice(p)
  PROVE  IInv'
<1> TypeOK /\ PeopleShape /\ FlowShape /\ RequestShape /\ Overtaken /\ Paced
    /\ FencedGetsNothing
  BY DEF IInv
<1> DEFINE f == req[p].flow
           t == req[p].at
<1>1. /\ req[p].pc = "poll" /\ f \in Flows /\ Device(f) /\ flow[f].status # NONE
      /\ t <= now /\ now - t <= MaxStall /\ t \in Nat /\ flow \in [Flows -> FlowType]
  BY FieldTypes DEF PollDevice, RequestShape, TypeOK
<1>2. /\ \A q \in Requests : q # p => req'[q] = req[q]
      /\ \/ req'[p].pc = "idle"
         \/ /\ req'[p].pc = "sid" /\ req'[p].flow = f /\ req'[p].at = t
            /\ flow[f].status = "approved" /\ flow'[f].status = "approved"
  <2>1. CASE Answer(p)
    BY <2>1, AnswerEffect DEF TypeOK
  <2>2. CASE Live(f, t) /\ flow' = Polled(f, t, FALSE) /\ Proceed(p, "sid") /\ flow[f].status = "approved"
    <3>1. flow'[f].status = flow[f].status
      BY <1>1, <2>2, PollEffect
    <3>2. /\ \A q \in Requests : q # p => req'[q] = req[q]
          /\ req'[p].pc = "sid" /\ req'[p].flow = f /\ req'[p].at = t
      <4>1. Proceed(p, "sid") /\ req \in [Requests -> RequestType]
        BY <2>2 DEF TypeOK
      <4> QED BY ONLY <4>1, ProceedEffect, p \in Requests
    <3> QED BY <2>2, <3>1, <3>2
  <2> QED BY <2>1, <2>2 DEF PollDevice
<1>3. UNCHANGED <<now, people, grant, page, faults, issued, named, approver, raced, fencedIssue>>
  BY DEF PollDevice
<1>4. /\ \A g \in Flows : g # f => SameFlow(g)
      /\ \/ flow'[f].status = flow[f].status
         \/ flow[f].status # "redeemed" /\ flow'[f].status = "expired"
      /\ SameTerms(f) /\ SameOwner(f)
  <2>1. CASE flow' = IF flow[f].status = "redeemed" THEN flow
                     ELSE [flow EXCEPT ![f].status = "expired"]
    BY <1>1, <2>1, StatusEffect DEF SameFlow, SameTerms, SameOwner, Statuses
  <2>2. CASE flow' = Polled(f, t, TRUE) \/ flow' = Polled(f, t, FALSE)
    BY <1>1, <2>2, PollEffect
  <2> QED BY <2>1, <2>2 DEF PollDevice
<1>5. /\ \A g \in Flows : g # f => onTime'[g] = onTime[g] /\ (g \in crowded' <=> g \in crowded)
      /\ onTime'[f] = NEVER => onTime[f] = NEVER
  <2>1. CASE UNCHANGED <<onTime, crowded>>
    BY <2>1
  <2>2. CASE OnTime(f, t)
    BY <1>1, <2>2 DEF OnTime, TypeOK
  <2> QED BY <2>1, <2>2 DEF PollDevice
<1>6. flow[f].interval \in Nat /\ flow[f].interval >= Base /\ flow[f].last \in Nat \cup {NEVER}
      /\ f \notin crowded /\ onTime[f] \in Nat \cup {NEVER} /\ now \in Nat
      /\ \/ onTime[f] = NEVER
         \/ /\ flow[f].last # NEVER /\ onTime[f] <= now
            /\ flow[f].last + flow[f].interval >= onTime[f] + Base
  BY <1>1, FieldTypes DEF Paced, TypeOK
<1>7. /\ f \notin crowded' /\ flow'[f].interval >= Base
      /\ \/ onTime'[f] = NEVER
         \/ /\ flow'[f].last # NEVER /\ onTime'[f] <= now
            /\ flow'[f].last + flow'[f].interval >= onTime'[f] + Base
  <2>1. CASE /\ flow' = IF flow[f].status = "redeemed" THEN flow
                        ELSE [flow EXCEPT ![f].status = "expired"]
             /\ UNCHANGED <<onTime, crowded>>
    <3>1. SamePace(f)
      BY <1>1, <2>1, StatusEffect DEF SamePace, Statuses
    <3> QED BY <1>6, <2>1, <3>1 DEF SamePace
  <2>2. CASE flow' = Polled(f, t, TRUE) /\ UNCHANGED <<onTime, crowded>>
    <3>1. flow'[f].last = t /\ flow'[f].interval = flow[f].interval + Increment
      BY <1>1, <2>2, PollEffect
    <3>2. onTime'[f] = onTime[f] /\ crowded' = crowded
      BY <2>2
    <3>3. onTime[f] # NEVER => t + (flow[f].interval + Increment) >= onTime[f] + Base
      BY <1>1, <1>6, TimesAssumption
    <3> QED BY <1>1, <1>6, <3>1, <3>2, <3>3, TimesAssumption
  <2>3. CASE ~TooSoon(f, t) /\ flow' = Polled(f, t, FALSE) /\ OnTime(f, t)
    <3>1. flow'[f].last = t /\ flow'[f].interval = flow[f].interval
      BY <1>1, <2>3, PollEffect
    <3>2. onTime'[f] = t /\ (onTime[f] = NEVER \/ t - onTime[f] >= Base)
      BY <1>1, <1>6, <2>3, TimesAssumption DEF OnTime, TooSoon, TypeOK
    <3>3. f \notin crowded'
      BY <1>1, <1>6, <2>3, <3>2, TimesAssumption DEF OnTime
    <3> QED BY <1>1, <1>6, <3>1, <3>2, <3>3, TimesAssumption
  <2> QED BY <2>1, <2>2, <2>3 DEF PollDevice
<1>11. PeopleShape'
  BY <1>1, <1>2, <1>3, <1>4, <1>5 DEF SameFlow, SameTerms, SamePace, SameOwner, people, TypeOK, PeopleShape, Device, Live
<1>12. FlowShape'
  BY <1>1, <1>2, <1>3, <1>4, <1>5 DEF SameFlow, SameTerms, SamePace, SameOwner, people, TypeOK, FlowShape, Device, Live
<1>13. RequestShape'
  BY <1>1, <1>2, <1>3, <1>4, <1>5 DEF SameFlow, SameTerms, SamePace, SameOwner, people, TypeOK, RequestShape, Device, Live
<1>14. Overtaken'
  BY <1>1, <1>2, <1>3, <1>4, <1>5 DEF SameFlow, SameTerms, SamePace, SameOwner, people, TypeOK, Overtaken, RequestShape, Device, Live
<1>15. Paced'
  BY <1>1, <1>3, <1>4, <1>5, <1>7 DEF SameFlow, SameTerms, SamePace, SameOwner, people, TypeOK, Paced, Device, Live
<1>16. FencedGetsNothing'
  BY <1>1, <1>2, <1>3, <1>4, <1>5 DEF SameFlow, SameTerms, SamePace, SameOwner, people, TypeOK, FencedGetsNothing
<1> QED BY <1>11, <1>12, <1>13, <1>14, <1>15, <1>16 DEF IInv

\* A decision changes a pending flow only, and an approval opens its grant.
LEMMA DecideStep ==
  ASSUME IInv, TypeOK', NEW u \in Users, Decide(u)
  PROVE  IInv'
<1> TypeOK /\ PeopleShape /\ FlowShape /\ RequestShape /\ Overtaken /\ Paced
    /\ FencedGetsNothing
  BY DEF IInv
<1> DEFINE f == page[u].flow
<1>1. f \in Flows /\ flow[f].status # NONE /\ page[u].session # 0 /\ page[u].session \in Nat
      /\ flow \in [Flows -> FlowType]
  BY FieldTypes DEF Decide, PeopleShape, TypeOK
<1>2. /\ (\A v \in Users : v # u => page'[v] = page[v]) /\ page'[u].pc = "idle"
      /\ UNCHANGED <<now, people, req, faults, issued, named, onTime, crowded, raced, fencedIssue>>
  BY DEF Decide, NoPage, TypeOK
<1>3. PICK t \in page[u].at .. now :
        \/ Approve(u, f, t)
        \/ Deny(u, f, t)
        \/ ~MayDecide(u, f, t) /\ UNCHANGED <<flow, grant, approver>>
  BY DEF Decide
<1>4. CASE Approve(u, f, t)
  <2> DEFINE n == IF Device(f) THEN page[u].session ELSE 0
  <2>1. flow[f].status = "pending" /\ (Device(f) \/ flow[f].subject = u)
    BY <1>4 DEF Approve, MayDecide
  <2>2. /\ \A g \in Flows : g # f => SameFlow(g)
        /\ flow'[f].status = "approved" /\ flow'[f].subject = u /\ flow'[f].session = n
        /\ SameTerms(f) /\ SamePace(f)
    <3>1. n \in Nat
      BY <1>1
    <3>2. flow' = [flow EXCEPT ![f].status = "approved", ![f].subject = u, ![f].session = n]
      BY <1>4 DEF Approve
    <3> HIDE DEF n
    <3> QED BY <1>1, <3>1, <3>2, ApproveEffect
  <2>3. /\ \A g \in Flows : g # f => grant'[g] = grant[g] /\ approver'[g] = approver[g]
        /\ grant'[f] = "open" /\ approver'[f] = u
    BY <1>1, <1>4 DEF Approve, TypeOK
  <2>4. PeopleShape'
    BY <1>1, <1>2, <2>1, <2>2, <2>3 DEF SameFlow, SameTerms, SamePace, SameOwner, people, TypeOK, PeopleShape, Device, Live
  <2>5. FlowShape'
    BY <1>1, <1>2, <2>1, <2>2, <2>3 DEF SameFlow, SameTerms, SamePace, SameOwner, people, TypeOK, FlowShape, Device, Live
  <2>6. RequestShape'
    BY <1>1, <1>2, <2>1, <2>2, <2>3 DEF SameFlow, SameTerms, SamePace, SameOwner, people, TypeOK, RequestShape, Device, Live
  <2>7. Overtaken'
    BY <1>1, <1>2, <2>1, <2>2, <2>3 DEF SameFlow, SameTerms, SamePace, SameOwner, people, TypeOK, Overtaken, RequestShape, Device, Live
  <2>8. Paced'
    BY <1>1, <1>2, <2>1, <2>2, <2>3 DEF SameFlow, SameTerms, SamePace, SameOwner, people, TypeOK, Paced, Device, Live
  <2>9. FencedGetsNothing'
    BY <1>1, <1>2, <2>1, <2>2, <2>3 DEF SameFlow, SameTerms, SamePace, SameOwner, people, TypeOK, FencedGetsNothing, Device, Live
  <2> QED BY <2>4, <2>5, <2>6, <2>7, <2>8, <2>9 DEF IInv
<1>5. CASE Deny(u, f, t)
  <2>1. flow[f].status = "pending" /\ UNCHANGED <<grant, approver>>
    BY <1>5 DEF Deny, MayDecide
  <2>2. /\ \A g \in Flows : g # f => SameFlow(g)
        /\ flow'[f].status = "denied" /\ SameTerms(f) /\ SamePace(f) /\ SameOwner(f)
    BY <1>1, <1>5, StatusEffect DEF Deny, Statuses
  <2>4. PeopleShape'
    BY <1>1, <1>2, <2>1, <2>2 DEF SameFlow, SameTerms, SamePace, SameOwner, people, TypeOK, PeopleShape, Device, Live
  <2>5. FlowShape'
    BY <1>1, <1>2, <2>1, <2>2 DEF SameFlow, SameTerms, SamePace, SameOwner, people, TypeOK, FlowShape, Device, Live
  <2>6. RequestShape'
    BY <1>1, <1>2, <2>1, <2>2 DEF SameFlow, SameTerms, SamePace, SameOwner, people, TypeOK, RequestShape, Device, Live
  <2>7. Overtaken'
    BY <1>1, <1>2, <2>1, <2>2 DEF SameFlow, SameTerms, SamePace, SameOwner, people, TypeOK, Overtaken, RequestShape, Device, Live
  <2>8. Paced'
    BY <1>1, <1>2, <2>1, <2>2 DEF SameFlow, SameTerms, SamePace, SameOwner, people, TypeOK, Paced, Device, Live
  <2>9. FencedGetsNothing'
    BY <1>1, <1>2, <2>1, <2>2 DEF SameFlow, SameTerms, SamePace, SameOwner, people, TypeOK, FencedGetsNothing, Device, Live
  <2> QED BY <2>4, <2>5, <2>6, <2>7, <2>8, <2>9 DEF IInv
<1>6. CASE UNCHANGED <<flow, grant, approver>>
  <2>4. PeopleShape'
    BY <1>2, <1>6 DEF people, TypeOK, PeopleShape, Device, Live
  <2>5. FlowShape'
    BY <1>2, <1>6 DEF people, TypeOK, FlowShape, Device, Live
  <2>6. RequestShape'
    BY <1>2, <1>6 DEF people, TypeOK, RequestShape, Device, Live
  <2>7. Overtaken'
    BY <1>2, <1>6 DEF people, TypeOK, Overtaken, RequestShape, Device, Live
  <2>8. Paced'
    BY <1>2, <1>6 DEF people, TypeOK, Paced, Device, Live
  <2>9. FencedGetsNothing'
    BY <1>2, <1>6 DEF people, TypeOK, FencedGetsNothing, Device, Live
  <2> QED BY <2>4, <2>5, <2>6, <2>7, <2>8, <2>9 DEF IInv
<1> QED BY <1>3, <1>4, <1>5, <1>6

\* Every step keeps the invariant.
LEMMA InvStep == IInv /\ [Next]_vars => IInv'
<1> SUFFICES ASSUME IInv, [Next]_vars PROVE IInv'
  OBVIOUS
<1>1. TypeOK'
  BY TypeStep
<1>2. ASSUME NEW u \in Users, Person(u) PROVE IInv'
  BY <1>1, <1>2, SignInStep, FenceStep, ReinstateStep, SubmitStep, WrongCodeStep, DecideStep DEF Person
<1>3. ASSUME NEW p \in Requests, Request(p) PROVE IInv'
  BY <1>1, <1>3, BeginStep, PollDeviceStep, EnsureSidStep, SnapshotCibaStep, UpdateCibaStep,
     DetailsStep, CheckSubjectStep, RedeemStep, AbandonStep DEF Request
<1>4. ASSUME NEW f \in Flows,
             \/ RevokeGrant(f)
             \/ \E k \in Kinds, u \in Users \cup {NONE} : Issue(f, k, u)
      PROVE  IInv'
  BY <1>1, <1>4, RevokeGrantStep, IssueStep
<1>5. CASE Tick
  BY <1>1, <1>5, TickStep
<1>6. CASE UNCHANGED vars
  BY <1>1, <1>6 DEF vars, people, history, IInv, PeopleShape, FlowShape, RequestShape, Overtaken, Paced,
     FencedGetsNothing, Device, Live
<1> QED BY <1>2, <1>3, <1>4, <1>5, <1>6 DEF Next

\* The initial state satisfies it.
LEMMA InvInit == Init => IInv
<1> SUFFICES ASSUME Init PROVE IInv
  OBVIOUS
<1>1. TypeOK
  BY NoRecords DEF Init, TypeOK
<1>2. PeopleShape /\ FlowShape /\ RequestShape /\ Overtaken /\ Paced /\ FencedGetsNothing
  BY DEF Init, NoFlow, NoRequest, NoPage, PeopleShape, FlowShape, RequestShape, Overtaken, Paced,
     FencedGetsNothing, Device
<1> QED BY <1>1, <1>2 DEF IInv

LEMMA Invariant == Spec => []IInv
BY InvInit, InvStep, PTL DEF Spec

-----------------------------------------------------------------------------
(* The results.                                                            *)

\* The state of the two polled grants always has the declared types.
THEOREM TypeCorrect == Spec => []TypeOK
BY Invariant, PTL DEF IInv

\* redeem_approved and decide_with_event: one approval leads to one issue, to the
\* person who approved, whatever number of polls, pages and replicas there are.
THEOREM SingleIssue == Spec => []OneApprovalOneIssue
<1>1. IInv => OneApprovalOneIssue
  BY DEF IInv, FlowShape, OneApprovalOneIssue
<1> QED BY <1>1, Invariant, PTL

\* No stale lookup, late click or racing poll takes a decision back: every change of
\* a status is one of the transition table of the source.
THEOREM DecisionKept == Spec => DecisionStands
<1>1. ASSUME IInv, [Next]_vars, NEW f \in Flows, flow[f].status # NONE,
             flow'[f].status # flow[f].status
      PROVE  \/ CanTransitionTo(flow[f].status, flow'[f].status)
             \/ Device(f) /\ flow[f].status = "denied" /\ flow'[f].status = "expired"
  <2> TypeOK /\ PeopleShape /\ RequestShape /\ flow \in [Flows -> FlowType]
    BY <1>1 DEF IInv, TypeOK
  <2>1. ASSUME NEW u \in Users, NEW g \in Flows, WrongCode(u, g)
        PROVE  flow[f].status = "pending" /\ flow'[f].status = "denied"
    <3> DEFINE st == IF flow[g].failed + 1 >= MaxAttempts THEN "denied" ELSE flow[g].status
               n  == flow[g].failed + 1
    <3>1. flow[g].status = "pending" /\ n \in Nat /\ st \in {"pending", "denied"}
      BY <2>1, FieldTypes DEF WrongCode
    <3>2. flow' = [flow EXCEPT ![g].failed = n, ![g].status = st]
      BY <2>1 DEF WrongCode
    <3> HIDE DEF st, n
    <3>3. (\A h \in Flows : h # g => SameFlow(h)) /\ flow'[g].status = st
      BY <3>1, <3>2, StatusEffect DEF Statuses
    <3> QED BY <1>1, <3>1, <3>3 DEF SameFlow
  <2>2. ASSUME NEW u \in Users, Decide(u)
        PROVE  flow[f].status = "pending" /\ flow'[f].status \in {"approved", "denied"}
    <3> DEFINE g == page[u].flow
    <3>1. g \in Flows
      BY <2>2 DEF Decide, PeopleShape
    <3>2. PICK t \in page[u].at .. now :
            Approve(u, g, t) \/ Deny(u, g, t) \/ UNCHANGED <<flow, grant, approver>>
      BY <2>2 DEF Decide
    <3>3. CASE Approve(u, g, t)
      <4>1. flow[g].status = "pending" /\ flow'[g].status = "approved"
            /\ \A h \in Flows : h # g => SameFlow(h)
        BY <3>1, <3>3 DEF Approve, MayDecide, FlowType, SameFlow
      <4> QED BY <1>1, <4>1 DEF SameFlow
    <3>4. CASE Deny(u, g, t)
      <4>1. flow[g].status = "pending" /\ flow'[g].status = "denied"
            /\ \A h \in Flows : h # g => SameFlow(h)
        BY <3>1, <3>4 DEF Deny, MayDecide, FlowType, SameFlow
      <4> QED BY <1>1, <4>1 DEF SameFlow
    <3> QED BY <1>1, <3>2, <3>3, <3>4
  <2>3. ASSUME NEW p \in Requests, PollDevice(p)
        PROVE  Device(f) /\ flow[f].status # "redeemed" /\ flow'[f].status = "expired"
    <3> DEFINE g == req[p].flow
    <3>1. g \in Flows /\ req[p].at \in Nat /\ Device(g)
      BY <2>3, FieldTypes DEF PollDevice, RequestShape, TypeOK
    <3>2. CASE flow' = IF flow[g].status = "redeemed" THEN flow
                       ELSE [flow EXCEPT ![g].status = "expired"]
      BY <1>1, <3>1, <3>2, StatusEffect, ZenonT(60) DEF SameFlow, Statuses
    <3>3. CASE flow' = Polled(g, req[p].at, TRUE) \/ flow' = Polled(g, req[p].at, FALSE)
      <4>1. flow'[g].status = flow[g].status /\ \A h \in Flows : h # g => SameFlow(h)
        BY <3>1, <3>3, PollEffect
      <4> QED BY <1>1, <4>1 DEF SameFlow
    <3> QED BY <2>3, <3>2, <3>3 DEF PollDevice
  <2>4. ASSUME NEW p \in Requests, UpdateCiba(p) PROVE FALSE
    <3>1. req[p].flow \in Flows /\ req[p].at \in Nat /\ req[p].soon \in BOOLEAN
      BY <2>4, FieldTypes DEF UpdateCiba, RequestShape, TypeOK
    <3>2. /\ flow'[req[p].flow].status = flow[req[p].flow].status
          /\ \A h \in Flows : h # req[p].flow => SameFlow(h)
      BY <2>4, <3>1, PollEffect DEF UpdateCiba
    <3> QED BY <1>1, <3>2 DEF SameFlow
  <2>5. ASSUME NEW p \in Requests, Redeem(p)
        PROVE  flow[f].status = "approved" /\ flow'[f].status = "redeemed"
    <3>1. req[p].flow \in Flows
      BY <2>5 DEF Redeem, RequestShape
    <3>2. CASE MayRedeem(p) /\ flow' = [flow EXCEPT ![req[p].flow].status = "redeemed"]
      <4>1. flow'[req[p].flow].status = "redeemed" /\ \A h \in Flows : h # req[p].flow => SameFlow(h)
        BY <3>1, <3>2, StatusEffect DEF Statuses
      <4> QED BY <1>1, <3>2, <4>1 DEF MayRedeem, SameFlow
    <3> QED BY <1>1, <2>5, <3>2 DEF Redeem
  <2>6. ASSUME NEW g \in Flows, NEW k \in Kinds, NEW u \in Users \cup {NONE}, Issue(g, k, u)
        PROVE  FALSE
    <3>1. flow[g].status = NONE /\ \A h \in Flows : h # g => SameFlow(h)
      BY <2>6 DEF Issue, SameFlow
    <3> QED BY <1>1, <3>1 DEF SameFlow
  <2>7. ASSUME UNCHANGED flow PROVE FALSE
    BY <1>1, <2>7
  <2>8. ASSUME NEW u \in Users, NEW g \in Flows,
               SignIn(u) \/ Logout(u) \/ Fence(u) \/ Reinstate(u) \/ Submit(u, g)
        PROVE  UNCHANGED flow
    BY <2>8 DEF SignIn, Logout, Fence, Reinstate, Submit
  <2>9. ASSUME NEW p \in Requests, NEW g \in Flows,
               \/ EnsureSid(p) \/ SnapshotCiba(p) \/ Details(p) \/ CheckSubject(p) \/ Abandon(p)
               \/ Begin(p, g)
        PROVE  UNCHANGED flow
    BY <2>9 DEF EnsureSid, SnapshotCiba, Details, CheckSubject, Abandon, Begin
  <2>10. ASSUME NEW g \in Flows, RevokeGrant(g) PROVE UNCHANGED flow
    BY <2>10 DEF RevokeGrant
  <2>11. Tick \/ UNCHANGED vars => UNCHANGED flow
    BY DEF Tick, vars
  <2>12. flow[f].status \in Statuses
    BY FieldTypes
  <2> USE DEF CanTransitionTo
  <2>13. ASSUME NEW u \in Users, Person(u)
         PROVE  CanTransitionTo(flow[f].status, flow'[f].status)
    BY <2>1, <2>2, <2>7, <2>8, <2>13 DEF Person
  <2>14. ASSUME NEW p \in Requests, Request(p)
         PROVE  \/ CanTransitionTo(flow[f].status, flow'[f].status)
                \/ Device(f) /\ flow[f].status = "denied" /\ flow'[f].status = "expired"
    BY <1>1, <2>3, <2>4, <2>5, <2>7, <2>9, <2>12, <2>14 DEF Request, Statuses
  <2> QED BY <1>1, <2>6, <2>7, <2>10, <2>11, <2>13, <2>14 DEF Next
<1>2. IInv /\ [Next]_vars =>
        [\A f \in Flows :
           LET from == flow[f].status  to == flow'[f].status IN
           from # to /\ from # NONE =>
             CanTransitionTo(from, to) \/ (Device(f) /\ from = "denied" /\ to = "expired")]_vars
  BY <1>1
<1> QED BY <1>2, Invariant, PTL DEF Spec, DecisionStands

\* The session cascade (device) and the lifecycle check (CIBA) both keep tokens
\* from a fenced subject, unless the check came first.
THEOREM FenceHolds == Spec => []FencedGetsNothing
BY Invariant, PTL DEF IInv

\* DeviceCodeRepo::poll keeps polls that are not slowed down an interval apart, as
\* long as a reading is no older than the slow_down increment when it is used.
THEOREM DevicePace == Spec => []DevicePolledApart
<1>1. IInv => DevicePolledApart
  BY DEF IInv, Paced, DevicePolledApart, TypeOK
<1> QED BY <1>1, Invariant, PTL
=============================================================================
