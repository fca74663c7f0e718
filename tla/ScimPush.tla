------------------------------ MODULE ScimPush ------------------------------
(***************************************************************************)
(* Outbound SCIM provisioning of one connection: the scheduler's tick, the *)
(* backfill pass, the tail pass and the connection row they share.  Every  *)
(* replica runs a scheduler and nothing elects one, so passes of several   *)
(* workers interleave statement by statement.                              *)
(*                                                                         *)
(* An event commits in the order of its sequence here (EventFeed is about  *)
(* the orders), and retention may delete it at any time.  A subject's own  *)
(* attributes are a version number; the downstream holds, for each subject, *)
(* the version it was last sent, 0 when it has no active record, and for a *)
(* group the members its last body named.  Who belongs to a group is fixed, *)
(* who of them is named is not.  A pause is a flag: its deadline is a clock *)
(* reading that passes.                                                    *)
(***************************************************************************)
EXTENDS Integers, Sequences, FiniteSets

CONSTANTS
  Workers,     \* schedulers, one per replica
  Users,       \* user ids, and group ids: both strings, in one ordering
  Groups,
  Members,     \* Members[g]: the users of group g
  Limit,       \* DEFAULT_PAGE
  MaxEvents,   \* bound: events appended to the feed
  MaxFaults,   \* bound: crashes, downstream failures and deleted events
  MaxFailures  \* bound: consecutive_failures

Subjects == Users \cup Groups

ASSUME SubjectsAssumption == Subjects \subseteq Nat \ {0} /\ Users \cap Groups = {}
ASSUME MembersAssumption == Members \in [Groups -> SUBSET Users]
ASSUME LimitAssumption ==
  /\ Limit \in Nat \ {0} /\ MaxEvents \in Nat /\ MaxFaults \in Nat /\ MaxFailures \in Nat

NULL == -1                     \* SQL NULL in a sequence column

VARIABLES
  dir,       \* the directory: dir[s] is the version of s, 0 if not in the organization
  feed,      \* the event feed: the subject of each event and whether it departs
  pruned,    \* the events retention has deleted
  ds,        \* the downstream: the version it holds as active, 0 if none
  refs,      \* the downstream: the users a group's body names
  link,      \* scim_push_links: "none", "live", or "withdrawn" (deprovisioned_at set)
  conn,      \* the row of scim_push_connections
  wk,        \* what each worker has read and where it is
  faults,    \* faults spent so far
  settled,   \* history: events some pass has dealt with
  covered,   \* history: subjects some backfill pass has dealt with
  refused,   \* history: subjects the downstream refused for good
  orphaned,  \* history: subjects pushed and their link not recorded since
  contested, \* history: subjects decided on while another pass was under way
  skipped,   \* history: subjects below a position the other collection's pass wrote
  missed     \* history: events deleted before the cursor had passed them

source == <<dir, feed, pruned>>
downstream == <<ds, refs>>
history == <<settled, covered, refused, orphaned, contested, skipped, missed>>
vars == <<source, downstream, link, conn, wk, faults, history>>

Idle == [pc |-> "idle", kind |-> "tail", coll |-> "users", todo |-> {}, base |-> 0,
         failures |-> 0, act |-> "skip", version |-> 0, named |-> {}, refused |-> FALSE,
         pause |-> FALSE]

Least(S) == CHOOSE i \in S : \A j \in S : i <= j
Lowest(S, n) == {i \in S : Cardinality({j \in S : j < i}) < n}

Collection(coll) == IF coll = "users" THEN Users ELSE Groups

\* What the worker is dealing with: an event of its page, or a subject of it.
Item(w)    == Least(wk[w].todo)
Subject(w) == IF wk[w].kind = "tail" THEN feed[Item(w)].subject ELSE Item(w)

Goto(w, pc) == wk' = [wk EXCEPT ![w].pc = pc]
Return(w)   == wk' = [wk EXCEPT ![w] = Idle]
Fail(w, p)  == wk' = [wk EXCEPT ![w] = [Idle EXCEPT !.pc = "fail", !.pause = p]]

-----------------------------------------------------------------------------
Init ==
  /\ dir \in [Subjects -> {0, 1}]
  /\ feed = <<>> /\ pruned = {}
  /\ ds = [s \in Subjects |-> 0] /\ refs = [s \in Subjects |-> {}]
  /\ link = [s \in Subjects |-> "none"]
  /\ conn = [backfill |-> "pending", from |-> NULL, after |-> 0, cursor |-> NULL,
             failures |-> 0, paused |-> FALSE]
  /\ wk = [w \in Workers |-> Idle]
  /\ faults = 0
  /\ settled = {} /\ covered = {} /\ refused = {} /\ orphaned = {}
  /\ contested = {} /\ skipped = {} /\ missed = {}

-----------------------------------------------------------------------------
(* The directory, and the deadline of a pause.                             *)

\* A change of a subject (or its joining the organization) and its event, in
\* one transaction.
Change(s) ==
  /\ Len(feed) < MaxEvents
  /\ dir' = [dir EXCEPT ![s] = Len(feed) + 2]
  /\ feed' = Append(feed, [subject |-> s, departing |-> FALSE])
  /\ UNCHANGED <<pruned, downstream, link, conn, wk, faults, history>>

\* A departure: user.deleted and its kin are departing events, leaving the
\* organization (member_removed) is not.
Depart(s, departing) ==
  /\ Len(feed) < MaxEvents
  /\ dir[s] # 0
  /\ dir' = [dir EXCEPT ![s] = 0]
  /\ feed' = Append(feed, [subject |-> s, departing |-> departing])
  /\ UNCHANGED <<pruned, downstream, link, conn, wk, faults, history>>

\* Retention deletes an event's row by its age, whoever has not read it yet.
Prune(i) ==
  /\ i \notin pruned
  /\ faults < MaxFaults /\ faults' = faults + 1
  /\ pruned' = pruned \cup {i}
  /\ missed' = IF conn.backfill = "done" /\ i <= conn.cursor THEN missed ELSE missed \cup {i}
  /\ UNCHANGED <<dir, feed, downstream, link, conn, wk, settled, covered, refused, orphaned,
                 contested, skipped>>

\* paused_until passes.
PauseLapses ==
  /\ conn.paused
  /\ conn' = [conn EXCEPT !.paused = FALSE]
  /\ UNCHANGED <<source, downstream, link, wk, faults, history>>

-----------------------------------------------------------------------------
(* The tick.                                                               *)

\* due_for_sync, and for a connection that was never started the feed's head.
Tick(w) ==
  /\ wk[w].pc = "idle" /\ ~conn.paused
  /\ IF conn.backfill = "pending"
     THEN wk' = [wk EXCEPT ![w].pc = "starting", ![w].base = Len(feed)]
     ELSE Goto(w, "due")
  /\ UNCHANGED <<source, downstream, link, conn, faults, history>>

\* begin_backfill: only a pending row is stamped, with the head read before.
BeginBackfill(w) ==
  /\ wk[w].pc = "starting"
  /\ conn' = IF conn.backfill = "pending"
             THEN [conn EXCEPT !.backfill = "users", !.from = wk[w].base] ELSE conn
  /\ Goto(w, "due")
  /\ UNCHANGED <<source, downstream, link, faults, history>>

\* run_due_connections lists again and picks the pass from what it lists.
Due(w) ==
  /\ wk[w].pc = "due"
  /\ IF conn.paused
     THEN Return(w)
     ELSE wk' = [wk EXCEPT ![w].pc = "get",
                           ![w].kind = IF conn.backfill = "done" THEN "tail" ELSE "backfill"]
  /\ UNCHANGED <<source, downstream, link, conn, faults, history>>

\* The pass reads the row once more: the values its checkpoints compare.
Get(w) ==
  /\ wk[w].pc = "get"
  /\ \/ /\ conn.paused
        /\ Return(w)
     \/ /\ ~conn.paused /\ wk[w].kind = "tail"
        /\ wk' = [wk EXCEPT ![w].pc = "page", ![w].base = conn.cursor,
                            ![w].failures = conn.failures]
     \/ /\ ~conn.paused /\ wk[w].kind = "backfill" /\ conn.backfill \in {"users", "groups"}
        /\ wk' = [wk EXCEPT ![w].pc = "page", ![w].base = conn.after,
                            ![w].coll = conn.backfill,
                            ![w].failures = conn.failures]
     \/ /\ ~conn.paused /\ wk[w].kind = "backfill" /\ conn.backfill = "done"
        /\ Fail(w, FALSE)
  /\ UNCHANGED <<source, downstream, link, conn, faults, history>>

\* events_after, or the next page of the enumeration.
Page(w) ==
  IF wk[w].kind = "tail"
  THEN Lowest({i \in 1 .. Len(feed) : i > wk[w].base /\ i \notin pruned}, Limit)
  ELSE Lowest({s \in Collection(wk[w].coll) : dir[s] # 0 /\ s > wk[w].base}, Limit)

\* EventPage::Gone: the row the pass read last and all before it are deleted, and
\* the oldest row left is not the next sequence.  Which one that is depends on
\* rows of other scopes and consumers, so a pass that has missed nothing may
\* meet it and one that has may not; at the beginning of the feed none does.
MayBeGone(w) == wk[w].kind = "tail" /\ wk[w].base > 0 /\ 1 .. wk[w].base \subseteq pruned

\* events_page_after.  Gone is a Permanent failure of the connection, without a
\* pause, and the cursor stays; an empty tail page is a poll and nothing else; an
\* empty enumeration ends the collection.
ReadPage(w) ==
  /\ wk[w].pc = "page"
  /\ \/ /\ MayBeGone(w)
        /\ Fail(w, FALSE)
     \/ /\ Page(w) = {} /\ wk[w].kind = "tail"
        /\ Return(w)
     \/ /\ Page(w) = {} /\ wk[w].kind = "backfill"
        /\ Goto(w, "handover")
     \/ /\ Page(w) # {}
        /\ wk' = [wk EXCEPT ![w].pc = "decide", ![w].todo = Page(w)]
  /\ UNCHANGED <<source, downstream, link, conn, faults, history>>

\* Mutants of Handover: the collection is ended in whatever state the row is, and
\* no statement ever writes 'groups'.
HandoverUnguarded(w) ==
  /\ wk[w].pc = "handover"
  /\ conn' = IF conn.backfill = "users"
             THEN [conn EXCEPT !.backfill = "groups", !.after = 0]
             ELSE [conn EXCEPT !.backfill = "done", !.after = 0, !.cursor = conn.from]
  /\ Return(w)
  /\ UNCHANGED <<source, downstream, link, faults, history>>
HandoverToNobody(w) ==
  /\ wk[w].pc = "handover"
  /\ Return(w)
  /\ conn' = [conn EXCEPT !.after = 0]
  /\ UNCHANGED <<source, downstream, link, faults, history>>

\* begin_group_backfill and complete_backfill; an update that finds another
\* state answers NotFound, which this pass reports as a store failure.
Handover(w) ==
  /\ wk[w].pc = "handover"
  /\ \/ /\ conn.backfill = wk[w].coll
        /\ conn' = IF wk[w].coll = "users"
                   THEN [conn EXCEPT !.backfill = "groups", !.after = 0]
                   ELSE [conn EXCEPT !.backfill = "done", !.after = 0, !.cursor = conn.from]
        /\ Return(w)
     \/ /\ conn.backfill # wk[w].coll
        /\ Fail(w, TRUE)
        /\ UNCHANGED conn
  /\ UNCHANGED <<source, downstream, link, faults, history>>

-----------------------------------------------------------------------------
(* One subject: apply_one for an event, push_one for an enumerated subject. *)

\* The pass is done with its item.  The tail goes on to the next event or to
\* its checkpoint; the backfill records its progress first.
Finish(w, isRefused) ==
  IF wk[w].kind = "tail"
  THEN /\ wk' = [wk EXCEPT ![w].todo = @ \ {Item(w)},
                           ![w].pc = IF wk[w].todo = {Item(w)} THEN "checkpoint" ELSE "decide",
                           ![w].act = "skip", ![w].version = Item(w), ![w].named = {}]
       /\ settled' = settled \cup {Item(w)}
       /\ UNCHANGED covered
  ELSE /\ wk' = [wk EXCEPT ![w].pc = "progress", ![w].refused = isRefused,
                           ![w].act = "skip", ![w].version = 0, ![w].named = {}]
       /\ covered' = covered \cup {Item(w)}
       /\ UNCHANGED settled

\* Mutant: a subject that left the scope is withdrawn only by a departing event.
DecisionOnDepartureOnly(w) ==
  LET s == Subject(w)
      inScope == dir[s] # 0
  IN  IF ~inScope /\ (wk[w].kind = "backfill" \/ link[s] # "live") THEN "skip"
      ELSE IF wk[w].kind = "tail" /\ feed[Item(w)].departing THEN "withdraw"
      ELSE IF inScope THEN "converge" ELSE "skip"

\* What to do about a subject: a link that is live stands for "provisioned".  A
\* departing event withdraws even a subject in scope; outside the scope a
\* subject without a live link is skipped, departing or not.
Decision(w) ==
  LET s == Subject(w)
      inScope == dir[s] # 0
  IN  IF ~inScope /\ (wk[w].kind = "backfill" \/ link[s] # "live") THEN "skip"
      ELSE IF wk[w].kind = "tail" /\ (feed[Item(w)].departing \/ ~inScope) THEN "withdraw"
      ELSE "converge"

\* build_group: a group's body names the members with a live link that the
\* scope admits, as they are when the body is built.
Named(s) == IF s \in Groups THEN {u \in Members[s] : link[u] = "live" /\ dir[u] # 0} ELSE {}

Handling == {"decide", "push", "link"}

\* Another pass is in the middle of its page, or has moved the cursor since
\* this one read it.
Contended(w) ==
  \/ \E v \in Workers \ {w} : wk[v].pc \in Handling \cup {"checkpoint", "progress", "refusal"}
  \/ wk[w].kind = "tail" /\ wk[w].base # conn.cursor

\* The link, the scope and the body are read, and the decision is made.
Decide(w) ==
  /\ wk[w].pc = "decide"
  /\ contested' = IF Contended(w) THEN contested \cup {Subject(w)} ELSE contested
  /\ \/ /\ Decision(w) = "skip"
        /\ Finish(w, FALSE)
     \/ /\ Decision(w) # "skip"
        /\ wk' = [wk EXCEPT ![w].pc = "push", ![w].act = Decision(w),
                            ![w].version = dir[Subject(w)], ![w].named = Named(Subject(w))]
        /\ UNCHANGED <<settled, covered>>
  /\ UNCHANGED <<source, downstream, link, conn, faults, refused, orphaned, skipped, missed>>

\* The downstream carries the write out: converge sends the body, deprovision
\* deletes or deactivates.
Applied(w) ==
  LET converges == wk[w].act = "converge"
  IN  /\ ds' = [ds EXCEPT ![Subject(w)] = IF converges THEN wk[w].version ELSE 0]
      /\ refs' = [refs EXCEPT ![Subject(w)] = IF converges THEN wk[w].named ELSE {}]

\* A converged subject whose link is not going to be recorded.
Orphans(w) == IF wk[w].act = "converge" /\ link[Subject(w)] # "live" THEN {Subject(w)} ELSE {}

\* ScimPushClient::converge and deprovision, and the outcomes of a request.
Push(w) ==
  /\ wk[w].pc = "push"
  /\ \/ /\ Applied(w)                                           \* accepted
        /\ Goto(w, "link")
        /\ UNCHANGED <<faults, settled, covered, refused, orphaned>>
     \/ /\ faults < MaxFaults /\ faults' = faults + 1           \* Retryable, the answer lost
        /\ Applied(w)
        /\ orphaned' = orphaned \cup Orphans(w)
        /\ Fail(w, TRUE)
        /\ UNCHANGED <<settled, covered, refused>>
     \/ /\ faults < MaxFaults /\ faults' = faults + 1           \* Retryable, Configuration
        /\ \E p \in BOOLEAN : Fail(w, p)
        /\ UNCHANGED <<downstream, settled, covered, refused, orphaned>>
     \/ /\ faults < MaxFaults /\ faults' = faults + 1           \* Permanent: stepped over
        /\ refused' = refused \cup {Subject(w)}
        /\ Finish(w, TRUE)
        /\ UNCHANGED <<downstream, orphaned>>
  /\ UNCHANGED <<source, link, conn, contested, skipped, missed>>

\* The link's upsert (which clears deprovisioned_at), or record_deprovision,
\* which does nothing to a subject without a link.
RecordLink(w) ==
  /\ wk[w].pc = "link"
  /\ link' = [link EXCEPT ![Subject(w)] =
                IF wk[w].act = "converge" THEN "live"
                ELSE IF @ = "none" THEN "none" ELSE "withdrawn"]
  /\ orphaned' = orphaned \ {Subject(w)}
  /\ Finish(w, FALSE)
  /\ UNCHANGED <<source, downstream, conn, faults, refused, contested, skipped, missed>>

-----------------------------------------------------------------------------
(* Checkpoints and failures.                                               *)

\* Mutant: a checkpoint that compares the failures only.
MayAdvanceAnyCursor(w) ==
  /\ conn.backfill = "done"
  /\ conn.failures = wk[w].failures

\* The WHERE clause of advance.
MayAdvance(w) ==
  /\ conn.backfill = "done"
  /\ conn.cursor = wk[w].base
  /\ conn.failures = wk[w].failures

\* Mutant: a checkpoint at the feed's head instead of the page's last event.
CheckpointAtHead(w) ==
  /\ wk[w].pc = "checkpoint"
  /\ conn' = IF MayAdvance(w)
             THEN [conn EXCEPT !.cursor = Len(feed), !.failures = 0, !.paused = FALSE]
             ELSE conn
  /\ Return(w)
  /\ UNCHANGED <<source, downstream, link, faults, history>>

\* advance, once for the page; a pass that loses does nothing (Contended).
Checkpoint(w) ==
  /\ wk[w].pc = "checkpoint"
  /\ conn' = IF MayAdvance(w)
             THEN [conn EXCEPT !.cursor = wk[w].version, !.failures = 0, !.paused = FALSE]
             ELSE conn
  /\ Return(w)
  /\ UNCHANGED <<source, downstream, link, faults, history>>

\* Go on with the page, or end the pass.
NextSubject(w, failures) ==
  IF wk[w].todo = {Item(w)}
  THEN Return(w)
  ELSE wk' = [wk EXCEPT ![w].todo = @ \ {Item(w)}, ![w].pc = "decide",
                        ![w].failures = failures, ![w].refused = FALSE]

\* record_backfill_progress after each subject: it compares the failure count,
\* and neither the collection nor the position.
RecordProgress(w) ==
  /\ wk[w].pc = "progress"
  /\ \/ /\ conn.backfill \in {"users", "groups"} /\ conn.failures = wk[w].failures
        /\ conn' = [conn EXCEPT !.after = Item(w), !.failures = 0, !.paused = FALSE]
        /\ skipped' = IF conn.backfill = wk[w].coll THEN skipped
                      ELSE skipped \cup {s \in Collection(conn.backfill) : s <= Item(w)}
        /\ IF wk[w].refused THEN Goto(w, "refusal") ELSE NextSubject(w, 0)
     \/ /\ ~(conn.backfill \in {"users", "groups"} /\ conn.failures = wk[w].failures)
        /\ Fail(w, TRUE)
        /\ UNCHANGED <<conn, skipped>>
  /\ UNCHANGED <<source, downstream, link, faults, settled, covered, refused, orphaned,
                 contested, missed>>

\* record_failure, without a pause or with one.
Failed(pause) == [conn EXCEPT !.failures = @ + 1, !.paused = @ \/ pause]

\* A refused subject puts the connection's error back, without a pause.
RecordRefusal(w) ==
  /\ wk[w].pc = "refusal"
  /\ conn.failures < MaxFailures
  /\ conn' = Failed(FALSE)
  /\ NextSubject(w, wk[w].failures + 1)
  /\ UNCHANGED <<source, downstream, link, faults, history>>

\* record_connection_failure, and the end of the pass.
RecordFailure(w) ==
  /\ wk[w].pc = "fail"
  /\ conn.failures < MaxFailures
  /\ conn' = Failed(wk[w].pause)
  /\ Return(w)
  /\ UNCHANGED <<source, downstream, link, faults, history>>

\* The process dies; what it held in memory is gone.
Crash(w) ==
  /\ wk[w].pc # "idle"
  /\ faults < MaxFaults /\ faults' = faults + 1
  /\ orphaned' = IF wk[w].pc = "link" THEN orphaned \cup Orphans(w) ELSE orphaned
  /\ Return(w)
  /\ UNCHANGED <<source, downstream, link, conn, settled, covered, refused, contested, skipped,
                 missed>>

-----------------------------------------------------------------------------
Step(w) ==
  \/ Tick(w) \/ BeginBackfill(w) \/ Due(w) \/ Get(w) \/ ReadPage(w) \/ Handover(w)
  \/ Decide(w) \/ Push(w) \/ RecordLink(w)
  \/ Checkpoint(w) \/ RecordProgress(w) \/ RecordRefusal(w) \/ RecordFailure(w)

Next ==
  \/ \E s \in Subjects : Change(s) \/ \E d \in BOOLEAN : Depart(s, d)
  \/ \E i \in 1 .. Len(feed) : Prune(i)
  \/ PauseLapses
  \/ \E w \in Workers : Step(w) \/ Crash(w)

\* A scheduler keeps ticking, a pass runs to its end, and clocks advance.
Fairness ==
  /\ WF_vars(PauseLapses)
  /\ \A w \in Workers : WF_vars(Step(w))

Spec == Init /\ [][Next]_vars /\ Fairness

-----------------------------------------------------------------------------
(* Properties.                                                             *)

ConnRow == [backfill : {"pending", "users", "groups", "done"},
            from : Nat \cup {NULL}, after : Subjects \cup {0},
            cursor : Nat \cup {NULL}, failures : Nat, paused : BOOLEAN]

WorkerState ==
  [pc : {"idle", "starting", "due", "get", "page", "handover", "decide", "push", "link",
         "checkpoint", "progress", "refusal", "fail"},
   kind : {"tail", "backfill"}, coll : {"users", "groups"}, todo : SUBSET Nat,
   base : Nat \cup {NULL}, failures : Nat, act : {"skip", "converge", "withdraw"},
   version : Nat, named : SUBSET Users, refused : BOOLEAN, pause : BOOLEAN]

\* The type of the state.
TypeOK ==
  /\ dir \in [Subjects -> 0 .. MaxEvents + 1]
  /\ feed \in Seq([subject : Subjects, departing : BOOLEAN])
  /\ pruned \subseteq Nat
  /\ ds \in [Subjects -> 0 .. MaxEvents + 1] /\ refs \in [Subjects -> SUBSET Users]
  /\ link \in [Subjects -> {"none", "live", "withdrawn"}]
  /\ conn \in ConnRow
  /\ wk \in [Workers -> WorkerState]
  /\ faults \in 0 .. MaxFaults
  /\ settled \subseteq Nat /\ missed \subseteq Nat
  /\ covered \subseteq Subjects /\ refused \subseteq Subjects /\ orphaned \subseteq Subjects
  /\ contested \subseteq Subjects /\ skipped \subseteq Subjects

\* The tail has nothing left to read.
CaughtUp ==
  conn.backfill = "done" /\ \A i \in 1 .. Len(feed) : i > conn.cursor => i \in pruned

\* No event is lost: all of the events between the backfill's position and the
\* cursor were dealt with by some pass, however passes interleave, fail and
\* crash (advance's compare-and-set, and the checkpoint after the page), but for
\* those retention deleted before the cursor had come to them.
NoEventLost ==
  conn.backfill = "done" =>
    \A i \in 1 .. conn.cursor : i <= conn.from \/ i \in settled \cup missed

\* The cursor never goes back: a slow pass that checkpoints after a faster one
\* does not undo its checkpoint (advance compares the cursor it was read at).
CursorNeverBack ==
  [][conn.backfill = "done" =>
       conn'.backfill = "done" /\ conn'.cursor >= conn.cursor]_vars

\* The backfill skips nobody, however many schedulers run it: when it is over,
\* every subject that was in the directory all along was enumerated, but for the
\* ones below a position that a pass of the other collection wrote over the
\* row's (record_backfill_progress does not compare the collection).
BackfillSkipsNobody ==
  conn.backfill = "done" => \A s \in Subjects \ skipped : dir[s] = 1 => s \in covered

\* The subjects the connection may be wrong about: refused for good, handled by
\* two passes at once, skipped by the backfill, or with an event that retention
\* deleted too early.
Excused ==
  refused \cup contested \cup skipped \cup
  {feed[i].subject : i \in {j \in missed : j > conn.from}}

\* u has an event after the backfill's position and g none after that one.
LateMember(u, g) ==
  \E j \in 1 .. Len(feed) :
    /\ j > conn.from /\ feed[j].subject = u
    /\ \A k \in 1 .. Len(feed) : k > j => feed[k].subject # g

\* A caught-up connection is in sync, however many schedulers serve it, but for
\* the subjects excused above: the downstream holds the version of the directory,
\* or a subject that left while its link was lost; and a group names the members
\* the directory has, but for one whose last event came after the group's.
CaughtUpIsSynced ==
  CaughtUp =>
    /\ \A s \in Subjects \ Excused : ds[s] = dir[s] \/ (dir[s] = 0 /\ s \in orphaned)
    /\ \A g \in Groups \ Excused : \A u \in Members[g] \ Excused :
         dir[g] # 0 => (u \in refs[g] <=> dir[u] # 0) \/ LateMember(u, g)

\* A cursor whose own row is gone, and all before it: every poll may meet Gone,
\* and nothing in the code restarts the backfill.
Stranded == conn.backfill = "done" /\ conn.cursor > 0 /\ 1 .. conn.cursor \subseteq pruned

\* With one scheduler the tail catches up in the end, through every failure, pause
\* and crash, unless retention has overtaken it.
EventuallyCaughtUp == <>[](CaughtUp \/ Stranded)

(* Three claims of comments the code does not keep (README, Further           *)
(* disagreements); no run checks them.                                        *)

\* "SKIPPING is not" survivable (scim_push_worker.rs): refuted with two schedulers.
SkipsNobodyAtAll ==
  conn.backfill = "done" => \A s \in Subjects : dir[s] = 1 => s \in covered

\* "the reference appears once the person does" (scim_push_directory.rs): refuted
\* by a member that joins the scope after the group was sent.
ReferenceAppears ==
  CaughtUp => \A g \in Groups \ Excused : \A u \in Members[g] \ Excused :
                dir[g] # 0 => (u \in refs[g] <=> dir[u] # 0)

\* Nobody who left stays active downstream: refuted by a crash between the push
\* and the record of its link.
DepartedIsWithdrawn ==
  CaughtUp => \A s \in Subjects \ Excused : dir[s] = 0 => ds[s] = 0

-----------------------------------------------------------------------------
(* The inductive strengthening the proofs of ScimPushProofs rest on, for any *)
(* number of schedulers.                                                     *)

\* The columns of the row are filled in the order of its states.
ConnShape ==
  /\ Len(feed) <= MaxEvents
  /\ conn.backfill # "pending" => conn.from \in 0 .. Len(feed)
  /\ conn.backfill = "done" => conn.cursor \in 0 .. Len(feed)

\* What is deleted was missed, or the cursor had passed it.
PruneShape ==
  /\ pruned \subseteq 1 .. Len(feed) /\ missed \subseteq pruned
  /\ \A i \in pruned \ missed : conn.backfill = "done" /\ i <= conn.cursor

\* A pass has items in the places that look at one, each of its own kind.
PassShape(w) ==
  /\ wk[w].pc = "starting" => wk[w].base \in 0 .. Len(feed)
  /\ wk[w].pc \notin {"idle", "starting"} => conn.backfill # "pending"
  /\ wk[w].pc \in Handling \cup {"progress", "refusal"} =>
       wk[w].todo # {} /\ wk[w].todo \subseteq IF wk[w].kind = "tail" THEN 1 .. Len(feed) ELSE Subjects
  /\ wk[w].pc \in {"handover", "progress", "refusal"} => wk[w].kind = "backfill"
  /\ wk[w].pc = "checkpoint" => wk[w].kind = "tail"
  /\ wk[w].pc \in {"push", "link"} => wk[w].version <= MaxEvents + 1 /\ wk[w].act # "skip"

\* A tail pass deals with the events after its base in order, without a gap.
TailShape(w) ==
  wk[w].kind = "tail" /\ wk[w].pc \in Handling \cup {"get", "page", "checkpoint"} =>
    /\ conn.backfill = "done"
    /\ wk[w].pc # "get" => wk[w].base \in 0 .. Len(feed)
    /\ wk[w].pc \in Handling =>
         /\ \A j \in wk[w].todo : wk[w].base < j
         /\ \A i \in 1 .. Len(feed), j \in wk[w].todo :
              wk[w].base < i /\ i <= j /\ conn.from < i => i \in wk[w].todo \cup settled \cup missed
    /\ wk[w].pc = "checkpoint" =>
         /\ wk[w].version \in wk[w].base .. Len(feed)
         /\ \A i \in 1 .. wk[w].version :
              i <= wk[w].base \/ i <= conn.from \/ i \in settled \cup missed

IInv == /\ TypeOK /\ ConnShape /\ PruneShape /\ NoEventLost
        /\ \A w \in Workers : PassShape(w) /\ TailShape(w)

\* A version 1 is the directory's first, so a subject that has one was there when
\* every enumeration looked.
Enumerated(s) == dir[s] = 1 => s \in covered \cup skipped

\* The row's position: the collections before it, and its own up to after, are
\* enumerated.
RowShape ==
  /\ conn.backfill = "pending" => conn.after = 0
  /\ conn.backfill = "users" => \A s \in Users : s <= conn.after => Enumerated(s)
  /\ conn.backfill = "groups" =>
       \A s \in Subjects : s \in Users \/ s <= conn.after => Enumerated(s)
  /\ conn.backfill = "done" => \A s \in Subjects : Enumerated(s)

\* A backfill pass goes through its collection without leaving a subject out.
BackfillShape(w) ==
  LET own == Collection(wk[w].coll)
  IN  /\ wk[w].kind = "backfill" /\ wk[w].pc = "page" =>
           \A s \in own : s <= wk[w].base => Enumerated(s)
      /\ wk[w].pc = "handover" => \A s \in own : Enumerated(s)
      /\ wk[w].kind = "backfill" /\ wk[w].pc \in Handling \cup {"progress", "refusal"} =>
           /\ wk[w].todo \subseteq own
           /\ \A j \in wk[w].todo : \A s \in own : s < j => s \in wk[w].todo \/ Enumerated(s)
      /\ wk[w].pc \in {"progress", "refusal"} => Item(w) \in covered

BackfillInv == IInv /\ RowShape /\ \A w \in Workers : BackfillShape(w)
=============================================================================
