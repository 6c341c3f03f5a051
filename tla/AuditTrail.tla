----------------------------- MODULE AuditTrail -----------------------------
(***************************************************************************)
(* The three audit writers: the gateway's (infra/gateway/middleware/       *)
(* audit.py), the IdP's (infra/idp/audit/writer.py) and the central one of *)
(* the audit API (infra/audit-api/writer.py), to which the first two       *)
(* forward what they write.                                                *)
(*                                                                         *)
(* Each writer is a bounded queue, a loop that takes events from it and    *)
(* writes them to SQLite in batches, and a stop that cancels the loop and  *)
(* drains the queue.  They differ in what they do when the queue is full   *)
(* or the database fails, and in when they pass the batch on.              *)
(***************************************************************************)
EXTENDS Integers, Sequences, FiniteSets

CONSTANTS
  Events,
  Origin,     \* the writer an event is emitted to
  Capacity,   \* maxsize of the queues (10 000)
  Batch,      \* size of a batch (50)
  Recovering  \* the writers whose database may stop failing for good

Writers == {"gateway", "idp", "api"}
Sources == {"gateway", "idp"}

ASSUME AuditAssumption ==
  /\ Origin \in [Events -> Sources]
  /\ Capacity \in Nat \ {0}
  /\ Batch \in Nat \ {0}
  /\ Recovering \subseteq Writers

Causes == {"full", "db", "stop", "disk"}

VARIABLES
  emitted,    \* events handed to emit or write
  queue,      \* _queue
  hand,       \* rows, batch or buf: what the loop has taken from the queue
  phase,      \* where the loop is
  pending,    \* rows of a failed flush, still in the connection's transaction
  stored,     \* committed rows
  db,         \* whether the database may fail
  posts,      \* batches on their way to the audit API
  accepted,   \* events the audit API has taken into its queue
  backup,     \* its JSONL backup
  streamed,   \* events its SSE subscribers have been sent
  lost        \* history: what a writer gave up, and why

vars == <<emitted, queue, hand, phase, pending, stored, db, posts, accepted,
          backup, streamed, lost>>

Elements(s) == {s[i] : i \in DOMAIN s}

Front(s, n) == SubSeq(s, 1, IF n < Len(s) THEN n ELSE Len(s))
Rest(s, n) == SubSeq(s, n + 1, Len(s))

TypeOK ==
  /\ emitted \subseteq Events
  /\ queue \in [Writers -> Seq(Events)] /\ \A w \in Writers : Len(queue[w]) <= Capacity
  /\ hand \in [Writers -> Seq(Events)] /\ \A w \in Writers : Len(hand[w]) <= Batch
  /\ phase \in [Writers -> {"collect", "flush", "backoff", "drain", "stopped"}]
  /\ pending \in [Writers -> SUBSET Events]
  /\ stored \in [Writers -> SUBSET Events]
  /\ db \in [Writers -> {"flaky", "sound"}]
  /\ \A b \in posts : b \in Seq(Events) /\ Len(b) <= Capacity + Batch
  /\ accepted \subseteq Events
  /\ backup \subseteq Events
  /\ streamed \subseteq Events
  /\ lost \subseteq Writers \X Causes \X Events

Init ==
  /\ emitted = {}
  /\ queue = [w \in Writers |-> <<>>]
  /\ hand = [w \in Writers |-> <<>>]
  /\ phase = [w \in Writers |-> "collect"]
  /\ pending = [w \in Writers |-> {}]
  /\ stored = [w \in Writers |-> {}]
  /\ db = [w \in Writers |-> "flaky"]
  /\ posts = {}
  /\ accepted = {}
  /\ backup = {}
  /\ streamed = {}
  /\ lost = {}

Running(w) == phase[w] \in {"collect", "flush", "backoff"}

GiveUp(w, cause, E) == {w} \X {cause} \X E

Goto(w, p) == phase' = [phase EXCEPT ![w] = p]

-----------------------------------------------------------------------------
(***************************************************************************)
(* Emitting.  A full queue drops the event at the two sources, and sends   *)
(* it to the backup file at the audit API.                                 *)
(***************************************************************************)
Emit(e) ==
  LET w == Origin[e] IN
  /\ e \notin emitted /\ Running(w)
  /\ emitted' = emitted \cup {e}
  /\ IF Len(queue[w]) < Capacity
       THEN queue' = [queue EXCEPT ![w] = Append(@, e)] /\ UNCHANGED lost
       ELSE lost' = lost \cup GiveUp(w, "full", {e}) /\ UNCHANGED queue
  /\ UNCHANGED <<hand, phase, pending, stored, db, posts, accepted, backup, streamed>>

\* write_backup, whose file may be unwritable.
BackUp(E) ==
  \/ backup' = backup \cup E /\ UNCHANGED lost
  \/ E # {} /\ lost' = lost \cup GiveUp("api", "disk", E) /\ UNCHANGED backup

\* POST /audit/events: one enqueue per event, no await in between.  Events of a
\* type the API does not know are refused with an error; they are not in Events.
Deliver(b) ==
  LET room == Capacity - Len(queue["api"]) IN
  /\ b \in posts /\ Running("api")
  /\ posts' = posts \ {b}
  /\ queue' = [queue EXCEPT !["api"] = @ \o Front(b, room)]
  /\ accepted' = accepted \cup Elements(Front(b, room))
  /\ BackUp(Elements(Rest(b, room)))
  /\ UNCHANGED <<emitted, hand, phase, pending, stored, db, streamed>>

\* The POST fails or times out; the source logs it and goes on.
LosePost(b) ==
  /\ b \in posts
  /\ posts' = posts \ {b}
  /\ UNCHANGED <<emitted, queue, hand, phase, pending, stored, db, accepted, backup,
                 streamed, lost>>

-----------------------------------------------------------------------------
(***************************************************************************)
(* The loops.  The gateway's sleeps, takes what a batch holds and forwards *)
(* it before writing; the other two collect event by event until the batch *)
(* is full or its time is over.                                            *)
(***************************************************************************)
TakeBatch ==
  LET b == Front(queue["gateway"], Batch) IN
  /\ phase["gateway"] = "collect" /\ b # <<>>
  /\ queue' = [queue EXCEPT !["gateway"] = Rest(@, Batch)]
  /\ hand' = [hand EXCEPT !["gateway"] = b]
  /\ posts' = posts \cup {b}
  /\ Goto("gateway", "flush")
  /\ UNCHANGED <<emitted, pending, stored, db, accepted, backup, streamed, lost>>

Collect(w) ==
  /\ w # "gateway" /\ phase[w] = "collect"
  /\ Len(hand[w]) < Batch /\ queue[w] # <<>>
  /\ hand' = [hand EXCEPT ![w] = Append(@, Head(queue[w]))]
  /\ queue' = [queue EXCEPT ![w] = Tail(@)]
  /\ UNCHANGED <<emitted, phase, pending, stored, db, posts, accepted, backup, streamed, lost>>

\* Faulty variant: the batch is forwarded before it is written.
BeginForwarding(w) ==
  /\ w # "gateway" /\ phase[w] = "collect" /\ hand[w] # <<>>
  /\ Goto(w, "flush")
  /\ posts' = IF w = "idp" THEN posts \cup {hand[w]} ELSE posts
  /\ UNCHANGED <<emitted, queue, hand, pending, stored, db, accepted, backup, streamed, lost>>

Begin(w) ==
  /\ w # "gateway" /\ phase[w] = "collect" /\ hand[w] # <<>>
  /\ Goto(w, "flush")
  /\ UNCHANGED <<emitted, queue, hand, pending, stored, db, posts, accepted, backup,
                 streamed, lost>>

\* Faulty variant: INSERT without OR IGNORE, which fails on a row that is there.
CommitStrict(w) ==
  /\ phase[w] = "flush"
  /\ Elements(hand[w]) \cap (pending[w] \cup stored[w]) = {}
  /\ stored' = [stored EXCEPT ![w] = @ \cup pending[w] \cup Elements(hand[w])]
  /\ pending' = [pending EXCEPT ![w] = {}]
  /\ hand' = [hand EXCEPT ![w] = <<>>]
  /\ posts' = IF w = "idp" THEN posts \cup {hand[w]} ELSE posts
  /\ streamed' = IF w = "api" THEN streamed \cup Elements(hand[w]) ELSE streamed
  /\ Goto(w, "collect")
  /\ UNCHANGED <<emitted, queue, db, accepted, backup, lost>>

\* executemany and commit succeed; the commit takes the rows of an earlier
\* failure with it (INSERT OR IGNORE: a row that is there already is skipped).
\* The IdP forwards the batch, the audit API broadcasts it to its subscribers.
Commit(w) ==
  /\ phase[w] = "flush"
  /\ stored' = [stored EXCEPT ![w] = @ \cup pending[w] \cup Elements(hand[w])]
  /\ pending' = [pending EXCEPT ![w] = {}]
  /\ hand' = [hand EXCEPT ![w] = <<>>]
  /\ posts' = IF w = "idp" THEN posts \cup {hand[w]} ELSE posts
  /\ streamed' = IF w = "api" THEN streamed \cup Elements(hand[w]) ELSE streamed
  /\ Goto(w, "collect")
  /\ UNCHANGED <<emitted, queue, db, accepted, backup, lost>>

\* Faulty variant: a failed batch is forgotten.
RequeueNothing == UNCHANGED <<queue, lost>>

\* The IdP queues a failed batch again, as far as there is room.
Requeue ==
  LET room == Capacity - Len(queue["idp"]) IN
  /\ queue' = [queue EXCEPT !["idp"] = @ \o Front(hand["idp"], room)]
  /\ lost' = lost \cup GiveUp("idp", "full", Elements(Rest(hand["idp"], room)))

\* executemany or commit fails.  Nobody rolls back, so when it is the commit the
\* rows stay behind in the transaction.  The gateway gives the batch up, the IdP
\* queues it again and waits, the audit API backs it up.
FlushError(w) ==
  /\ phase[w] = "flush" /\ db[w] = "flaky"
  /\ pending' \in {pending, [pending EXCEPT ![w] = @ \cup Elements(hand[w])]}
  /\ hand' = [hand EXCEPT ![w] = <<>>]
  /\ Goto(w, IF w = "idp" THEN "backoff" ELSE "collect")
  /\ \/ /\ w = "gateway"
        /\ lost' = lost \cup GiveUp(w, "db", Elements(hand[w]))
        /\ UNCHANGED <<queue, backup>>
     \/ w = "idp" /\ Requeue /\ UNCHANGED backup
     \/ w = "api" /\ BackUp(Elements(hand[w])) /\ UNCHANGED queue
  /\ UNCHANGED <<emitted, stored, db, posts, accepted, streamed>>

Resume ==
  /\ phase["idp"] = "backoff"
  /\ Goto("idp", "collect")
  /\ UNCHANGED <<emitted, queue, hand, pending, stored, db, posts, accepted, backup,
                 streamed, lost>>

-----------------------------------------------------------------------------
(***************************************************************************)
(* Stopping.  The loop is cancelled wherever it waits, and what it had in  *)
(* hand goes with it, unless the database's thread had already been given  *)
(* the commit.                                                             *)
(***************************************************************************)
Cancel(w) ==
  /\ Running(w)
  /\ hand' = [hand EXCEPT ![w] = <<>>]
  /\ Goto(w, "drain")
  /\ \/ /\ phase[w] = "flush"
        /\ stored' = [stored EXCEPT ![w] = @ \cup pending[w] \cup Elements(hand[w])]
        /\ pending' = [pending EXCEPT ![w] = {}]
        /\ UNCHANGED lost
     \/ /\ pending' \in {pending} \cup
             (IF phase[w] = "flush"
                THEN {[pending EXCEPT ![w] = @ \cup Elements(hand[w])]} ELSE {})
        /\ lost' = lost \cup GiveUp(w, "stop", Elements(hand[w]))
        /\ UNCHANGED stored
  /\ UNCHANGED <<emitted, queue, db, posts, accepted, backup, streamed>>

\* _drain: the gateway batch by batch, the others the whole queue.
Drained(w) == IF w = "gateway" THEN Front(queue[w], Batch) ELSE queue[w]

Drain(w) ==
  LET b == Drained(w) IN
  /\ phase[w] = "drain" /\ b # <<>>
  /\ queue' = [queue EXCEPT ![w] = Rest(@, Len(b))]
  /\ \/ /\ stored' = [stored EXCEPT ![w] = @ \cup pending[w] \cup Elements(b)]
        /\ pending' = [pending EXCEPT ![w] = {}]
        /\ streamed' = IF w = "api" THEN streamed \cup Elements(b) ELSE streamed
        /\ UNCHANGED <<backup, lost>>
     \/ /\ db[w] = "flaky"
        /\ IF w = "api"
             THEN BackUp(Elements(b))
             ELSE lost' = lost \cup GiveUp(w, "db", Elements(b)) /\ UNCHANGED backup
        /\ UNCHANGED <<stored, pending, streamed>>
  \* The task that forwards the batch is started, but the event loop may close.
  /\ posts' \in IF w = "gateway" \/ (w = "idp" /\ stored' # stored)
                  THEN {posts, posts \cup {b}} ELSE {posts}
  /\ UNCHANGED <<emitted, hand, phase, db, accepted>>

\* The connection is closed; what was not committed is gone.
Close(w) ==
  /\ phase[w] = "drain" /\ queue[w] = <<>>
  /\ Goto(w, "stopped")
  /\ pending' = [pending EXCEPT ![w] = {}]
  /\ UNCHANGED <<emitted, queue, hand, stored, db, posts, accepted, backup, streamed, lost>>

-----------------------------------------------------------------------------
\* The environment: a database stops failing.
Recover(w) ==
  /\ w \in Recovering /\ db[w] = "flaky"
  /\ db' = [db EXCEPT ![w] = "sound"]
  /\ UNCHANGED <<emitted, queue, hand, phase, pending, stored, posts, accepted, backup,
                 streamed, lost>>

Loop(w) == (w = "gateway" /\ TakeBatch) \/ Collect(w) \/ Begin(w) \/ Commit(w) \/ FlushError(w)

Next ==
  \/ \E e \in Events : Emit(e)
  \/ \E b \in posts : Deliver(b) \/ LosePost(b)
  \/ \E w \in Writers : Loop(w) \/ Cancel(w) \/ Drain(w) \/ Close(w) \/ Recover(w)
  \/ Resume

Spec == Init /\ [][Next]_vars

(***************************************************************************)
(* The event loop runs what is ready, and the waits of the loops are       *)
(* bounded by their intervals.  Nothing obliges the environment, and       *)
(* forwarding is no part of it: a POST may be lost.                        *)
(***************************************************************************)
Fairness ==
  /\ \A w \in Writers : WF_vars(Loop(w)) /\ WF_vars(Begin(w))
  /\ WF_vars(Resume)

FairSpec == Spec /\ Fairness

-----------------------------------------------------------------------------
(***************************************************************************)
(* Properties.                                                             *)
(***************************************************************************)
OfIdp == {e \in emitted : Origin[e] = "idp"}

\* Where an event of writer w may be without being lost.
Kept(w) == Elements(queue[w]) \cup Elements(hand[w]) \cup stored[w]

\* As long as the IdP runs, its database may fail as often as it likes: an event
\* is queued, in hand or stored, unless it met a full queue.
IdpKeepsEvents ==
  \A e \in OfIdp : Running("idp") => e \in Kept("idp") \/ <<"idp", "full", e>> \in lost

\* As long as the audit API runs, an event that it reported as accepted is
\* queued, in hand, stored or backed up, unless the backup file failed too.
AcceptedIsKept ==
  \A e \in accepted : Running("api") =>
    e \in Kept("api") \cup backup \/ <<"api", "disk", e>> \in lost

\* Neither writer loses an event that it took without saying so, through failing
\* databases, full queues (their bound is in TypeOK), requeues and backups
\* (idp/audit/writer.py, audit-api/writer.py).
NothingLost == TypeOK /\ IdpKeepsEvents /\ AcceptedIsKept

\* What the audit API knows of the IdP is in the IdP's own table: forwarding
\* follows the commit, whatever fails and is queued again in between.
CentralFollowsIdp ==
  \A e \in OfIdp : e \in accepted \cup backup => e \in stored["idp"]

\* Subscribers are told only what a query would show them.
StreamedIsStored == streamed \subseteq stored["api"]

\* A copy is never ahead of what it is a copy of: the central store of the IdP's, and
\* the stream of the central store (writer.py _flush of either).
CopiesFollow == CentralFollowsIdp /\ StreamedIsStored

\* Once its database is sound, every event the IdP has queued is stored, unless
\* it had met a full queue before, or the IdP stops.
IdpStoresInTheEnd ==
  \A e \in {x \in Events : Origin[x] = "idp"} :
    (db["idp"] = "sound" /\ e \in emitted) ~>
      (e \in stored["idp"] \/ <<"idp", "full", e>> \in lost \/ ~Running("idp"))

\* infra/idp/audit/writer.py:101: "Graceful shutdown: cancel background loop
\* then drain remaining events".  A stopped IdP has stored every event, but for
\* those that met a full queue or a failing database.
GracefulStop ==
  phase["idp"] = "stopped" =>
    \A e \in OfIdp :
      e \in stored["idp"] \/ \E c \in {"full", "db"} : <<"idp", c, e>> \in lost
=============================================================================
