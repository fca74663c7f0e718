--------------------------- MODULE SessionFanout ---------------------------
(***************************************************************************)
(* What follows the end of a session: the session_ended message written    *)
(* with it, its explosion into one back-channel logout per relying party   *)
(* and one trigger of the Shared Signals fan-out, the deliveries, and the  *)
(* security event tokens of the streams.                                   *)
(*                                                                         *)
(* The messages of all four consumers travel through DeliveryQueue, the    *)
(* queue that Outbox implements: a message may be handled again whenever   *)
(* its worker dies or is too slow, and a handler that was too slow runs on *)
(* and has its effects all the same.  Every transaction of a handler is a  *)
(* step of its own.                                                        *)
(***************************************************************************)
EXTENDS Integers, FiniteSets, Functions

CONSTANTS
  Sessions,    \* 1 .. n: the sessions one browser has in turn
  Clients,     \* relying parties with a backchannel_logout_uri
  Streams,     \* Shared Signals streams that agreed to the event
  Workers,
  Serves,      \* Serves[w]: the consumer worker w drains
  Ceiling,     \* ssf.max_owed_sets_per_stream
  Last,        \* bound: messages ever enqueued
  MaxEdits,    \* bound: changes of a stream's status
  MaxFaults    \* bound: crashes, overruns, errors, lost answers, replays and sweeps

Consumers == {"ended", "logout", "trigger", "push"}

ASSUME FanoutAssumption ==
  /\ Sessions = 1 .. Cardinality(Sessions) /\ Sessions # {} /\ IsFiniteSet(Sessions)
  /\ IsFiniteSet(Clients)
  /\ Serves \in [Workers -> Consumers]
  /\ Ceiling \in Nat /\ Last \in Nat /\ MaxEdits \in Nat /\ MaxFaults \in Nat

VARIABLES
  status, group, hand, answer, late,   \* the queue, see DeliveryQueue
  body,      \* body[m]: the payload of message m
  task,      \* task[w]: the handler w is running
  session,   \* "unused", "live", "superseded" or "ended"
  member,    \* the table client_sessions: <<session, client>>
  joining,   \* joining[c]: the session an ensure_sid in flight saw live, 0 if none
  delivery,  \* delivery[t]: "poll" or "push"
  stream,    \* stream[t]: "enabled", "paused" or "disabled"
  sets,      \* the table ssf_stream_sets: sets[t] is what stream t owes
  edits, faults,
  told,      \* history: logout tokens relying parties received, <<session, client, jti>>
  heard,     \* history: event tokens receivers took, <<session, stream, jti>>
  tardy,     \* history: client sessions committed after the end of their session
  settled,   \* history: streams that were never disabled, and never over their ceiling
  reaped     \* history: keys of messages retention removed

queue   == <<status, group, hand, answer, late>>
people  == <<session, member, joining, tardy>>
signals == <<delivery, stream, sets, edits, settled, heard>>
vars    == <<queue, body, task, people, signals, faults, told, reaped>>

\* Payloads.  The jti is minted with the row, once: it is the number of the message,
\* and for a push that of the trigger it derives from.
Bodies == [to : Consumers \cup {"none"}, session : Sessions \cup {0},
           target : Clients \cup Streams \cup {"none"}, jti : 0 .. Last]
Nothing == [to |-> "none", session |-> 0, target |-> "none", jti |-> 0]
EndedOf(s)        == [to |-> "ended", session |-> s, target |-> "none", jti |-> 0]
LogoutOf(s, c)    == [to |-> "logout", session |-> s, target |-> c, jti |-> 0]
TriggerOf(s)      == [to |-> "trigger", session |-> s, target |-> "none", jti |-> 0]
PushOf(s, t, jti) == [to |-> "push", session |-> s, target |-> t, jti |-> jti]

\* The idempotency key, unique among the rows of the table: a payload, without the
\* jti except where the key carries it.  A singleton ordering group per message,
\* but one per stream for the pushes.
Key(b)   == IF b.to = "push" THEN b ELSE [b EXCEPT !.jti = 0]
Order(b) == IF b.to = "push" THEN [Nothing EXCEPT !.to = "push", !.target = b.target] ELSE Key(b)

Q == INSTANCE DeliveryQueue WITH Groups <- Bodies

\* Mutant: an INSERT that does not meet the unique index on the key.
TakenNever(k) == FALSE

InTable(m) == status[m] \in {"pending", "done", "dead"}
Taken(k)   == \E m \in Q!Messages : InTable(m) /\ Key(body[m]) = k
Used       == Cardinality({m \in Q!Messages : status[m] # "unborn"})

\* The payload as row m stores it.
Stamped(b, m) == IF b.to = "push" THEN b ELSE [b EXCEPT !.jti = m]

NoTask == [pc |-> "idle", msg |-> 0, found |-> {}, room |-> FALSE]
Msg(w)  == body[task[w].msg]
Goto(w, pc) == task' = [task EXCEPT ![w].pc = pc]

Fault == faults < MaxFaults /\ faults' = faults + 1

-----------------------------------------------------------------------------
Init ==
  /\ Q!Init
  /\ body = [m \in Q!Messages |-> Nothing]
  /\ task = [w \in Workers |-> NoTask]
  /\ session = [s \in Sessions |-> IF s = 1 THEN "live" ELSE "unused"]
  /\ member = {}
  /\ joining = [c \in Clients |-> 0]
  /\ delivery \in [Streams -> {"poll", "push"}]
  /\ stream = [t \in Streams |-> "enabled"]
  /\ sets = [t \in Streams |-> {}]
  /\ edits = 0 /\ faults = 0
  /\ told = {} /\ heard = {} /\ tardy = {} /\ reaped = {}
  /\ settled = Streams

-----------------------------------------------------------------------------
(* Producing: the rows whose key is free, numbered in the order of INSERT. *)

Produce(B) ==
  LET fresh == {b \in B : ~Taken(Key(b))}
      rows == Used + 1 .. Used + Cardinality(fresh)
      new == CHOOSE f \in Bijection(rows, fresh) : TRUE
  IN /\ Used + Cardinality(fresh) <= Last
     /\ Q!PublishAll([m \in rows |-> Order(new[m])])
     /\ body' = [m \in Q!Messages |-> IF m \in rows THEN Stamped(new[m], m) ELSE body[m]]

-----------------------------------------------------------------------------
(* Sessions.                                                               *)

\* ensure_sid reads the session and inserts in one statement, without a lock: what
\* it saw may be over when the row commits.
JoinRead(c, s) ==
  /\ joining[c] = 0 /\ session[s] = "live" /\ <<s, c>> \notin member
  /\ joining' = [joining EXCEPT ![c] = s]
  /\ UNCHANGED <<queue, body, task, session, member, tardy, signals, faults, told, reaped>>

JoinCommit(c) ==
  LET s == joining[c] IN
  /\ s # 0
  /\ joining' = [joining EXCEPT ![c] = 0]
  /\ member' = member \cup {<<s, c>>}
  /\ tardy' = IF session[s] = "live" THEN tardy ELSE tardy \cup {<<s, c>>}
  /\ UNCHANGED <<queue, body, task, session, signals, faults, told, reaped>>

\* reconcile_prior_session_at_rotation moves them to the successor.
Carried(s) == {IF p[1] = s THEN <<s + 1, p[2]>> ELSE p : p \in member}

\* The same user signs in again: the prior session is superseded, without an event.
Rotate(s) ==
  /\ session[s] = "live" /\ s + 1 \in Sessions
  /\ session' = [session EXCEPT ![s] = "superseded", ![s + 1] = "live"]
  /\ member' = Carried(s)
  /\ UNCHANGED <<queue, body, task, joining, tardy, signals, faults, told, reaped>>

\* revoke_session_in_tx and its kin: the flip and the message commit together.
End(s) ==
  /\ session[s] = "live"
  /\ session' = [session EXCEPT ![s] = "ended"]
  /\ Produce({EndedOf(s)})
  /\ UNCHANGED <<task, member, joining, tardy, signals, faults, told, reaped>>

-----------------------------------------------------------------------------
(* A worker and its handler.                                               *)

Take(w, m) ==
  /\ task[w].pc = "idle" /\ body[m].to = Serves[w]
  /\ Q!Take(w, m)
  /\ task' = [task EXCEPT ![w] = [NoTask EXCEPT !.pc = "start", !.msg = m]]
  /\ UNCHANGED <<body, people, signals, faults, told, reaped>>

\* The handler returns; a worker that no longer has the message drops its answer.
Report(w) ==
  /\ task[w].pc \in {"ok", "retry", "permanent"}
  /\ IF hand[w] = task[w].msg THEN Q!Answer(w, task[w].pc) ELSE UNCHANGED queue
  /\ task' = [task EXCEPT ![w] = NoTask]
  /\ UNCHANGED <<body, people, signals, faults, told, reaped>>

\* Mutant: the fan-out under the shared attempts cap.
MayEndAs(m, st) == st \in {"pending", "done", "dead"}

\* session_ended runs under FANOUT_MAX_ATTEMPTS: a failure is never its last.
MayBecome(m, st) == body[m].to = "ended" => st # "dead"

Settle(w) ==
  /\ Q!Settle(w)
  /\ MayBecome(hand[w], status'[hand[w]])
  /\ UNCHANGED <<body, task, people, signals, faults, told, reaped>>

\* The lease passes to others while the handler, or the writing of its outcome, goes on ..
Overrun(w) ==
  /\ Fault /\ hand[w] # 0
  /\ Q!Lose({w})
  /\ UNCHANGED <<body, task, people, signals, told, reaped>>

\* .. or the process dies, or its store fails between two messages.
Crash(w) ==
  /\ Fault /\ (hand[w] # 0 \/ task[w].pc # "idle")
  /\ Q!Lose({w})
  /\ task' = [task EXCEPT ![w] = NoTask]
  /\ UNCHANGED <<body, people, signals, told, reaped>>

\* A read or a write of the handler fails: STORE_ERROR_LABEL, MINT_LABEL.
StoreError(w) ==
  /\ Fault /\ task[w].pc \in {"start", "streams", "enqueue", "each", "insert"}
  /\ Serves[w] \in {"ended", "trigger"}
  /\ Goto(w, "retry")
  /\ UNCHANGED <<queue, body, people, signals, told, reaped>>

-----------------------------------------------------------------------------
(* SessionEndedExplodeConsumer.                                            *)

\* backchannel_participants: no liveness filter on the client sessions.
ReadParticipants(w) ==
  /\ task[w].pc = "start" /\ Serves[w] = "ended"
  /\ LET s == Msg(w).session IN
     task' = [task EXCEPT ![w].pc = "streams",
                ![w].found = {LogoutOf(s, c) : c \in {d \in Clients : <<s, d>> \in member}}]
  /\ UNCHANGED <<queue, body, people, signals, faults, told, reaped>>

Retaining == {t \in Streams : stream[t] \in {"enabled", "paused"}}

\* ssf_trigger_payload: a trigger only where a stream retains.
CheckStreams(w) ==
  /\ task[w].pc = "streams"
  /\ task' = [task EXCEPT ![w].pc = "enqueue",
                ![w].found = IF Retaining = {} THEN @ ELSE @ \cup {TriggerOf(Msg(w).session)}]
  /\ UNCHANGED <<queue, body, people, signals, faults, told, reaped>>

\* Mutant: the deliveries enqueued one by one, and a failed INSERT only logged.
EnqueuedSome(w) ==
  \E B \in SUBSET task[w].found : Produce(B)

\* enqueue_all: one transaction, and the rows already there are skipped.
Enqueued(w) == Produce(task[w].found)

EnqueueAll(w) ==
  /\ task[w].pc = "enqueue"
  /\ Enqueued(w)
  /\ \/ Goto(w, "ok") /\ UNCHANGED faults
     \/ Goto(w, "retry") /\ Fault          \* committed, and the answer lost
  /\ UNCHANGED <<people, signals, told, reaped>>

-----------------------------------------------------------------------------
(* BackChannelLogoutConsumer.                                              *)

\* The token is minted with the payload's jti and POSTed; every failure is a retry.
Post(w) ==
  /\ task[w].pc = "start" /\ Serves[w] = "logout"
  /\ \/ /\ told' = told \cup {<<Msg(w).session, Msg(w).target, Msg(w).jti>>}
        /\ \/ Goto(w, "ok") /\ UNCHANGED faults
           \/ Goto(w, "retry") /\ Fault          \* received, and the answer lost
     \/ Goto(w, "retry") /\ Fault /\ UNCHANGED told
  /\ UNCHANGED <<queue, body, people, signals, reaped>>

-----------------------------------------------------------------------------
(* SsfSessionFanOutConsumer.                                               *)

ReadStreams(w) ==
  /\ task[w].pc = "start" /\ Serves[w] = "trigger"
  /\ task' = [task EXCEPT ![w].pc = "each", ![w].found = Retaining]
  /\ UNCHANGED <<queue, body, people, signals, faults, told, reaped>>

NextStream(w) == CHOOSE t \in task[w].found : TRUE
StreamDone(w) == task' = [task EXCEPT ![w].found = @ \ {NextStream(w)}, ![w].pc = "each"]

AllStreamsDone(w) ==
  /\ task[w].pc = "each" /\ task[w].found = {}
  /\ Goto(w, "ok")
  /\ UNCHANGED <<queue, body, people, signals, faults, told, reaped>>

\* enqueue_push: the outbox row of a stream that is pushed to.
EnqueuePush(w) ==
  /\ task[w].pc = "each" /\ task[w].found # {} /\ delivery[NextStream(w)] = "push"
  /\ Produce({PushOf(Msg(w).session, NextStream(w), Msg(w).jti)})
  /\ StreamDone(w)
  /\ UNCHANGED <<people, signals, faults, told, reaped>>

\* SsfStreamSetRepo::queue counts and inserts in one statement, under READ COMMITTED:
\* the count is its snapshot's, and the status of the stream is not looked at.
CountOwed(w) ==
  /\ task[w].pc = "each" /\ task[w].found # {} /\ delivery[NextStream(w)] = "poll"
  /\ task' = [task EXCEPT ![w].pc = "insert",
                          ![w].room = Cardinality(sets[NextStream(w)]) < Ceiling]
  /\ UNCHANGED <<queue, body, people, signals, faults, told, reaped>>

\* A row already there is a Conflict, a full queue a QuotaExceeded: neither fails
\* the message.
QueueSet(w) ==
  LET t == NextStream(w)  set == <<Msg(w).session, Msg(w).jti>> IN
  /\ task[w].pc = "insert"
  /\ sets' = IF task[w].room THEN [sets EXCEPT ![t] = @ \cup {set}] ELSE sets
  /\ settled' = IF task[w].room THEN settled ELSE settled \ {t}
  /\ StreamDone(w)
  /\ UNCHANGED <<queue, body, people, delivery, stream, edits, heard, faults, told, reaped>>

\* SsfPushConsumer: the stream is read again, and its status decides.
Push(w) ==
  LET t == Msg(w).target  token == <<Msg(w).session, t, Msg(w).jti>> IN
  /\ task[w].pc = "start" /\ Serves[w] = "push"
  /\ \/ /\ stream[t] = "enabled"
        /\ heard' = heard \cup {token}
        /\ \/ Goto(w, "ok") /\ UNCHANGED faults
           \/ Goto(w, "retry") /\ Fault
     \/ /\ stream[t] = "enabled" /\ Fault
        /\ Goto(w, "retry") /\ UNCHANGED heard
     \/ /\ stream[t] = "paused"
        /\ Goto(w, "retry") /\ UNCHANGED <<faults, heard>>
     \/ /\ stream[t] = "disabled"
        /\ Goto(w, "permanent") /\ UNCHANGED <<faults, heard>>
  /\ UNCHANGED <<queue, body, people, delivery, stream, sets, edits, settled, told, reaped>>

-----------------------------------------------------------------------------
(* Receivers, the operator and retention.                                  *)

\* A receiver polls, and acknowledges what it took.
Acknowledge(t, set) ==
  /\ set \in sets[t] /\ stream[t] = "enabled"
  /\ sets' = [sets EXCEPT ![t] = @ \ {set}]
  /\ heard' = heard \cup {<<set[1], t, set[2]>>}
  /\ UNCHANGED <<queue, body, task, people, delivery, stream, edits, settled, faults, told, reaped>>

\* Mutant: pausing drops what the stream owes, as disabling does.
KeepsPausedNot(st) == st = "enabled"

Keeps(st) == st # "disabled"

\* set_status: disabling drops what is owed, in the same transaction.
SetStatus(t, st) ==
  /\ edits < MaxEdits /\ edits' = edits + 1
  /\ stream[t] # st
  /\ stream' = [stream EXCEPT ![t] = st]
  /\ sets' = IF Keeps(st) THEN sets ELSE [sets EXCEPT ![t] = {}]
  /\ settled' = IF st = "disabled" THEN settled \ {t} ELSE settled
  /\ UNCHANGED <<queue, body, task, people, delivery, heard, faults, told, reaped>>

\* revive_dead_lettered
Replay(m) ==
  /\ Fault /\ status[m] = "dead"
  /\ Q!Replay({m})
  /\ UNCHANGED <<body, task, people, signals, told, reaped>>

\* The retention of completed rows frees their keys.  (Dead letters are kept for
\* ever unless configured otherwise.)
Reap(m) ==
  /\ Fault /\ status[m] = "done"
  /\ Q!Remove({m})
  /\ reaped' = reaped \cup {Key(body[m])}
  /\ UNCHANGED <<body, task, people, signals, told>>

-----------------------------------------------------------------------------
Handle(w) ==
  \/ ReadParticipants(w) \/ CheckStreams(w) \/ EnqueueAll(w) \/ Post(w)
  \/ ReadStreams(w) \/ EnqueuePush(w) \/ CountOwed(w) \/ QueueSet(w) \/ AllStreamsDone(w)
  \/ Push(w) \/ Report(w) \/ Settle(w)

Next ==
  \/ \E c \in Clients : JoinCommit(c) \/ \E s \in Sessions : JoinRead(c, s)
  \/ \E s \in Sessions : Rotate(s) \/ End(s)
  \/ \E w \in Workers : Handle(w) \/ Overrun(w) \/ Crash(w) \/ StoreError(w)
       \/ \E m \in Q!Messages : Take(w, m)
  \/ \E t \in Streams : \/ \E set \in sets[t] : Acknowledge(t, set)
                        \/ \E st \in {"enabled", "paused", "disabled"} : SetStatus(t, st)
  \/ \E m \in Q!Messages : Replay(m) \/ Reap(m)

\* A worker with something to do does it: its loop polls for ever, a handler's calls
\* have timeouts, and the outbox makes an untaken message available again.
Fairness ==
  \A w \in Workers : WF_vars(Handle(w) \/ \E m \in 1 .. Last : Take(w, m))

Spec == Init /\ [][Next]_vars /\ Fairness

-----------------------------------------------------------------------------
(* Properties.                                                             *)

TaskType == [pc : {"idle", "start", "streams", "enqueue", "each", "insert",
                   "ok", "retry", "permanent"},
             msg : 0 .. Last, found : SUBSET (Bodies \cup Streams), room : BOOLEAN]

\* The type of the state.
TypeOK ==
  /\ status \in [Q!Messages -> {"unborn", "pending", "done", "dead", "removed"}]
  /\ hand \in [Workers -> 0 .. Last]
  /\ answer \in [Workers -> {"none", "ok", "retry", "permanent"}]
  /\ late \subseteq Q!Messages
  /\ body \in [Q!Messages -> Bodies]
  /\ task \in [Workers -> TaskType]
  /\ session \in [Sessions -> {"unused", "live", "superseded", "ended"}]
  /\ member \subseteq Sessions \X Clients
  /\ joining \in [Clients -> Sessions \cup {0}]
  /\ stream \in [Streams -> {"enabled", "paused", "disabled"}]
  /\ sets \in [Streams -> SUBSET (Sessions \X (1 .. Last))]
  /\ settled \subseteq Streams

\* Message m is still owed to its consumer, or waits for the operator.
Outstanding(b) ==
  \E m \in Q!Messages : status[m] \in {"pending", "dead"} /\ [body[m] EXCEPT !.jti = 0] = b

\* No logout is lost: a rotation leaves no relying party behind, and once a session
\* has ended, each one that had joined it or a session it replaced has been told, or
\* a message that will tell it is in the queue or, for the delivery itself, among the
\* dead letters an operator can replay.  Not the fan-out: that one is never given up.
NoLogoutLost ==
  \A s \in Sessions, c \in Clients :
    <<s, c>> \in member \ tardy =>
      /\ session[s] # "superseded"
      /\ session[s] = "ended" =>
           \/ \E m \in Q!Messages :
                status[m] = "pending" /\ body[m] = [EndedOf(s) EXCEPT !.jti = m]
           \/ Outstanding(LogoutOf(s, c))
           \/ \E m \in Q!Messages : <<s, c, m>> \in told

\* The token of a delivery is one token: whatever is retried, exploded again or
\* handled twice, a relying party sees one jti for one ended session, and a
\* receiver one jti, until retention has removed the row that carried it.
OneToken ==
  /\ \A x, y \in told : x[1] = y[1] /\ x[2] = y[2] =>
       x = y \/ LogoutOf(x[1], x[2]) \in reaped
  /\ \A x, y \in heard : x[1] = y[1] /\ x[2] = y[2] => x = y \/ TriggerOf(x[1]) \in reaped

\* A stream that was never disabled and never over its ceiling gets every event: the
\* token was taken, or is owed, or a message that leads to it is outstanding.
NoSignalLost ==
  \A s \in Sessions, t \in settled :
    session[s] = "ended" =>
      \/ \E m \in Q!Messages : status[m] = "pending" /\ body[m] = [EndedOf(s) EXCEPT !.jti = m]
      \/ Outstanding(TriggerOf(s)) \/ Outstanding(PushOf(s, t, 0))
      \/ \E m \in Q!Messages : <<s, m>> \in sets[t] \/ <<s, t, m>> \in heard

\* Every relying party of an ended session is told in the end, through whatever
\* faults, or its delivery is a dead letter that an operator sees.
EventuallyTold ==
  \A s \in Sessions, c \in Clients :
    (session[s] = "ended" /\ <<s, c>> \in member \ tardy) ~>
      (\E m \in 1 .. Last : <<s, c, m>> \in told \/ (status[m] = "dead" /\ body[m].target = c))

-----------------------------------------------------------------------------
(* The inductive invariant.                                                *)

IsEnded(m, s)     == body[m] = [EndedOf(s) EXCEPT !.jti = m]
IsLogout(m, s, c) == body[m] = [LogoutOf(s, c) EXCEPT !.jti = m]
IsTrigger(m, s)   == body[m] = [TriggerOf(s) EXCEPT !.jti = m]

\* j is the jti of session s's event: the number of its trigger.
Minted(j, s) == j \in Q!Messages /\ status[j] # "unborn" /\ IsTrigger(j, s)

\* Rows are numbered without gaps, and those in the table have different keys.
TableShape ==
  /\ \E n \in 0 .. Last : \A m \in Q!Messages : status[m] # "unborn" <=> m <= n
  /\ \A m, b \in Q!Messages :
       InTable(m) /\ InTable(b) /\ Key(body[m]) = Key(body[b]) => m = b
  /\ \A m \in Q!Messages : status[m] = "removed" => Key(body[m]) \in reaped

\* A message is what one of the producers wrote.
BodyShape(m) ==
  status[m] # "unborn" =>
    \/ \E s \in Sessions : IsEnded(m, s) /\ session[s] = "ended"
    \/ \E s \in Sessions, c \in Clients : IsLogout(m, s, c)
    \/ \E s \in Sessions : IsTrigger(m, s)
    \/ \E s \in Sessions, t \in Streams, j \in Q!Messages :
         body[m] = PushOf(s, t, j) /\ Minted(j, s)

\* The browser has one session at a time; who joined in time is carried along.
SessionShape ==
  /\ \A s \in Sessions : session[s] = "live" => \A r \in Sessions : r > s => session[r] = "unused"
  /\ \A s \in Sessions, c \in Clients : <<s, c>> \in member \ tardy => session[s] # "superseded"
  /\ \A t \in settled : stream[t] # "disabled"

\* The tokens that went out are those of rows.
TokenShape ==
  /\ \A x \in told : \E s \in Sessions, c \in Clients, m \in Q!Messages :
       x = <<s, c, m>> /\ status[m] # "unborn" /\ IsLogout(m, s, c)
  /\ \A x \in heard : \E s \in Sessions, t \in Streams, j \in Q!Messages :
       x = <<s, t, j>> /\ Minted(j, s)
  /\ \A t \in Streams : \A x \in sets[t] : Minted(x[2], x[1])

Told(s, c) == \/ Outstanding(LogoutOf(s, c))
              \/ \E m \in Q!Messages : <<s, c, m>> \in told
Signalled(s, t) == \/ Outstanding(PushOf(s, t, 0))
                   \/ \E m \in Q!Messages : <<s, m>> \in sets[t] \/ <<s, t, m>> \in heard

\* What the explosion of session s's end has to leave behind.
Exploded(s) ==
  /\ \A c \in Clients : <<s, c>> \in member \ tardy => Told(s, c)
  /\ \A t \in settled : Outstanding(TriggerOf(s)) \/ Signalled(s, t)

\* What a message has to have led to before it may be completed.
Finished(m) ==
  LET b == body[m] IN
  /\ b.to = "ended"   => Exploded(b.session)
  /\ b.to = "logout"  => <<b.session, b.target, b.jti>> \in told
  /\ b.to = "trigger" => \A t \in settled : Signalled(b.session, t)
  /\ b.to = "push"    => <<b.session, b.target, b.jti>> \in heard

\* A worker's hands: its own consumer's pending message, in no other hands.
HandShape(w) ==
  /\ hand[w] = 0 => answer[w] = "none"
  /\ hand[w] # 0 =>
       /\ status[hand[w]] = "pending" /\ body[hand[w]].to = Serves[w]
       /\ \A v \in Workers : hand[v] = hand[w] => v = w
       /\ answer[w] = "ok" => Finished(hand[w])

\* A handler, with the message it has or had, and how far it has come.
TaskShape(w) ==
  LET s == Msg(w).session  found == task[w].found IN
  task[w].pc # "idle" =>
    /\ task[w].msg \in Q!Messages /\ status[task[w].msg] # "unborn" /\ Msg(w).to = Serves[w]
    /\ task[w].pc \in {"streams", "enqueue"} =>
         /\ Serves[w] = "ended" /\ IsFiniteSet(found)
         /\ found \subseteq {LogoutOf(s, c) : c \in Clients} \cup {TriggerOf(s)}
         /\ \A c \in Clients : <<s, c>> \in member \ tardy => LogoutOf(s, c) \in found
    /\ task[w].pc = "enqueue" => settled = {} \/ TriggerOf(s) \in found
    /\ task[w].pc \in {"each", "insert"} =>
         /\ Serves[w] = "trigger" /\ found \subseteq Streams
         /\ \A t \in settled \ found : Signalled(s, t)
    /\ task[w].pc = "insert" => found # {}
    /\ task[w].pc = "ok" => Finished(task[w].msg)

\* An ended session is exploded, or its message is pending.
EndShape(s) ==
  session[s] = "ended" =>
    Exploded(s) \/ \E m \in Q!Messages : status[m] = "pending" /\ IsEnded(m, s)

\* The inductive invariant of the fan-out.
IInv ==
  /\ TypeOK /\ TableShape /\ SessionShape /\ TokenShape
  /\ \A m \in Q!Messages : BodyShape(m) /\ (status[m] = "done" => Finished(m))
  /\ \A w \in Workers : HandShape(w) /\ TaskShape(w)
  /\ \A s \in Sessions : EndShape(s)

-----------------------------------------------------------------------------
(* What comments of the source state and the code does not give.           *)

\* A disabled stream owes nothing: "the two can never disagree".
DisabledOwesNothing == \A t \in Streams : stream[t] = "disabled" => sets[t] = {}

\* A stream never owes more than its ceiling.
OwedWithinCeiling == \A t \in Streams : Cardinality(sets[t]) <= Ceiling

\* What it gives instead: the ceiling, and one token more for each further worker
\* that can have counted before the others inserted.
TriggerWorkers == {w \in Workers : Serves[w] = "trigger"}
NearCeiling(n) == n <= Ceiling \/ n < Ceiling + Cardinality(TriggerWorkers)
OwedNearCeiling == \A t \in Streams : NearCeiling(Cardinality(sets[t]))

\* The workers that have counted stream t, found room and not inserted yet.
Inserting(t) == {w \in TriggerWorkers : task[w].pc = "insert" /\ task[w].room /\ NextStream(w) = t}

CeilingShape ==
  \A t \in Streams : NearCeiling(Cardinality(sets[t]) + Cardinality(Inserting(t)))
=============================================================================
