----------------------------- MODULE AuditReads -----------------------------
(***************************************************************************)
(* What the audit API answers while its table grows: the pages of          *)
(* GET /audit/events (main.py, queries.py), the stream of GET              *)
(* /audit/stream (main.py, sse.py, filters.py), and the tree of GET        *)
(* /audit/traces/{trace_id} (queries.py) from the rows that the gateway's  *)
(* requests leave (middleware/trace.py, routes/invoke.py).                 *)
(*                                                                         *)
(* How events get into the table is AuditTrail's subject; here they come   *)
(* one by one.  The three parts share no state but the table, whose        *)
(* content is what each of them needs of it.                               *)
(***************************************************************************)
EXTENDS Integers, FiniteSets, SequencesExt

CONSTANTS
  Stored,    \* events that a walk's filter lets through
  Limits,    \* the pages' limit, at most 100; nothing keeps it from being 0
  Clients,   \* subscribers of the stream
  Kinds,     \* kinds of events that filters tell apart
  Wants,     \* per client: the kinds that its filter accepts
  SubQueue,  \* maxsize of a subscriber's queue (1000)
  MaxSent,   \* bound on the events that are broadcast
  MaxSpans   \* bound on the requests of a trace

ASSUME ReadsAssumption ==
  /\ Limits \subseteq Nat
  /\ Wants \in [Clients -> SUBSET Kinds]
  /\ SubQueue \in Nat \ {0} /\ MaxSent \in Nat /\ MaxSpans \in Nat

VARIABLES
  listing,  \* the rows that match, ORDER BY timestamp DESC
  walk,     \* a walk along next_offset
  aired,    \* the kinds of the events broadcast so far
  sub,      \* per client: its queue, and what it has been sent
  caller,   \* per request of the trace: its parent span, or 0
  stage,    \* per request: how far it has come
  spanRows  \* the rows of the trace, ORDER BY timestamp ASC

pageVars == <<listing, walk>>
streamVars == <<aired, sub>>
traceVars == <<caller, stage, spanRows>>

-----------------------------------------------------------------------------
(***************************************************************************)
(* Pages.  The rows are counted, then selected, by two statements.         *)
(***************************************************************************)

\* grown: events stored since the walk began; late: since the last count.
NoWalk == [pc |-> "idle", offset |-> 0, limit |-> 0, total |-> 0, seen |-> <<>>,
           old |-> {}, grown |-> 0, late |-> 0]

\* An event comes in with any timestamp: its writer held it back for a while.
Store(e) ==
  /\ e \notin Range(listing)
  /\ \E i \in 1..(Len(listing) + 1) : listing' = InsertAt(listing, i, e)
  /\ walk' = IF walk.pc = "idle" THEN walk
             ELSE [walk EXCEPT !.grown = @ + 1, !.late = @ + 1]

BeginWalk ==
  /\ walk.pc = "idle"
  /\ \E n \in Limits :
        walk' = [NoWalk EXCEPT !.pc = "count", !.limit = n, !.old = Range(listing)]
  /\ UNCHANGED listing

\* SELECT COUNT(*)
Count ==
  /\ walk.pc = "count"
  /\ walk' = [walk EXCEPT !.pc = "page", !.total = Len(listing), !.late = 0]
  /\ UNCHANGED listing

NextOffset == walk.offset + walk.limit

\* Faulty variant: a page that is not full is never the next one.
MorePagesFull == NextOffset + walk.limit <= walk.total

\* next_offset is not None
MorePages == NextOffset < walk.total

\* SELECT ... LIMIT ? OFFSET ?, and the client goes on with next_offset.
Page ==
  /\ walk.pc = "page"
  /\ walk' = [walk EXCEPT
       !.seen = @ \o SubSeq(listing, walk.offset + 1,
                            Min({walk.offset + walk.limit, Len(listing)})),
       !.offset = IF MorePages THEN NextOffset ELSE 0,
       !.pc = IF MorePages THEN "count" ELSE "ended"]
  /\ UNCHANGED listing

PagesNext == (\E e \in Stored : Store(e)) \/ BeginWalk \/ Count \/ Page

-----------------------------------------------------------------------------
(***************************************************************************)
(* The stream.  broadcast takes the lock, which nobody holds across an     *)
(* await, copies the list of subscribers and puts without waiting: it is   *)
(* one step.                                                               *)
(***************************************************************************)

\* told: how many events had been broadcast when "connected" was sent; got: the
\* events sent to the client, by number; full: one was dropped.
NoClient == [pc |-> "off", queue |-> <<>>, got |-> <<>>, told |-> 0, full |-> FALSE,
             gone |-> FALSE]

Registered(c) == sub[c].pc \in {"subscribed", "check", "get"}

\* filter_fn
Accepts(c, kind) == kind \in Wants[c]

\* Faulty variant: a full queue loses its oldest event.
PutOver(s, n) ==
  IF Len(s.queue) < SubQueue THEN [s EXCEPT !.queue = Append(@, n)]
  ELSE [s EXCEPT !.queue = Append(Tail(@), n)]

\* put_nowait, or QueueFull.
Put(s, n) ==
  IF Len(s.queue) < SubQueue THEN [s EXCEPT !.queue = Append(@, n)]
  ELSE [s EXCEPT !.full = TRUE]

Broadcast ==
  /\ Len(aired) < MaxSent
  /\ \E kind \in Kinds :
       /\ aired' = Append(aired, kind)
       /\ sub' = [c \in Clients |->
            IF Registered(c) /\ Accepts(c, kind) THEN Put(sub[c], Len(aired) + 1)
            ELSE sub[c]]

Subscribe(c) ==
  /\ sub[c].pc = "off"
  /\ sub' = [sub EXCEPT ![c].pc = "subscribed"]
  /\ UNCHANGED aired

\* The first yield.
Hello(c) ==
  /\ sub[c].pc = "subscribed"
  /\ sub' = [sub EXCEPT ![c].pc = "check", ![c].told = Len(aired)]
  /\ UNCHANGED aired

\* The client closes its connection.
Disconnect(c) ==
  /\ Registered(c) /\ ~ sub[c].gone
  /\ sub' = [sub EXCEPT ![c].gone = TRUE]
  /\ UNCHANGED aired

\* unsubscribe; what the client had is gone with it.
Unsubscribed == [NoClient EXCEPT !.pc = "closed"]

\* is_disconnected
Check(c) ==
  /\ sub[c].pc = "check"
  /\ sub' = [sub EXCEPT ![c] = IF @.gone THEN Unsubscribed ELSE [@ EXCEPT !.pc = "get"]]
  /\ UNCHANGED aired

\* The framework notices first and cancels the generator.
Cancelled(c) ==
  /\ Registered(c) /\ sub[c].gone
  /\ sub' = [sub EXCEPT ![c] = Unsubscribed]
  /\ UNCHANGED aired

Get(c) ==
  /\ sub[c].pc = "get" /\ sub[c].queue # <<>>
  /\ sub' = [sub EXCEPT ![c].pc = "check", ![c].queue = Tail(@),
                        ![c].got = IF sub[c].gone THEN @ ELSE Append(@, Head(sub[c].queue))]
  /\ UNCHANGED aired

\* Faulty variant: q.get() without a timeout.
HeartbeatNever(c) == FALSE /\ UNCHANGED streamVars

\* asyncio.TimeoutError
Heartbeat(c) ==
  /\ sub[c].pc = "get" /\ sub[c].queue = <<>>
  /\ sub' = [sub EXCEPT ![c].pc = "check"]
  /\ UNCHANGED aired

StreamNext ==
  \/ Broadcast
  \/ \E c \in Clients : \/ Subscribe(c) \/ Hello(c) \/ Disconnect(c) \/ Check(c)
                        \/ Cancelled(c) \/ Get(c) \/ Heartbeat(c)

-----------------------------------------------------------------------------
(***************************************************************************)
(* The tree of a trace                                                     *)
(***************************************************************************)

Spans == 1..MaxSpans
Begun == {s \in Spans : stage[s] # "none"}

\* trace_middleware: a new span; its parent is the span of a request under way, or
\* none that has rows.
OpenSpan(s) ==
  /\ stage[s] = "none" /\ Begun = 1..(s - 1)
  /\ stage' = [stage EXCEPT ![s] = "begun"]
  /\ \E p \in 0..(s - 1) : caller' = [caller EXCEPT ![s] = p]
  /\ UNCHANGED spanRows

Row(s, parent) == [span |-> s, parent |-> parent]

\* token_consumed, which does not name the parent.  Any row may get lost on its way
\* to the audit API.
Consumed(s) ==
  /\ stage[s] = "begun"
  /\ stage' = [stage EXCEPT ![s] = "consumed"]
  /\ spanRows' \in {spanRows, Append(spanRows, Row(s, 0))}
  /\ UNCHANGED caller

\* authz_decision: deny, or allow after the token was consumed.
Decided(s) ==
  /\ stage[s] \in {"begun", "consumed"}
  /\ \/ stage' = [stage EXCEPT ![s] = "decided"] /\ spanRows' = Append(spanRows, Row(s, caller[s]))
     \/ stage' = [stage EXCEPT ![s] = "lost"] /\ UNCHANGED spanRows
  /\ UNCHANGED caller

TraceNext == \E s \in Spans : OpenSpan(s) \/ Consumed(s) \/ Decided(s)

\* Faulty variant: a span is taken from its first row.
ParentOfFirst(s) ==
  spanRows[Min({i \in DOMAIN spanRows : spanRows[i].span = s})].parent

\* span_by_id: a later row replaces an earlier one of its span.
Indexed == {spanRows[i].span : i \in DOMAIN spanRows}
ParentOf(s) ==
  spanRows[Max({i \in DOMAIN spanRows : spanRows[i].span = s})].parent

Roots == {s \in Indexed : ParentOf(s) \notin Indexed}
ChildrenOf(s) == {t \in Indexed : ParentOf(t) = s}

-----------------------------------------------------------------------------
ReadsInit ==
  /\ listing = <<>> /\ walk = NoWalk
  /\ aired = <<>> /\ sub = [c \in Clients |-> NoClient]
  /\ caller = [s \in Spans |-> 0] /\ stage = [s \in Spans |-> "none"]
  /\ spanRows = <<>>

ReadsNext ==
  \/ PagesNext /\ UNCHANGED <<streamVars, traceVars>>
  \/ StreamNext /\ UNCHANGED <<pageVars, traceVars>>
  \/ TraceNext /\ UNCHANGED <<pageVars, streamVars>>

ReadsSpec == ReadsInit /\ [][ReadsNext]_<<pageVars, streamVars, traceVars>>

-----------------------------------------------------------------------------
(***************************************************************************)
(* Properties                                                              *)
(***************************************************************************)

ReadsTypeOK ==
  /\ listing \in Seq(Stored)
  /\ walk.pc \in {"idle", "count", "page", "ended"} /\ walk.limit \in Limits \cup {0}
  /\ walk.offset \in 0..Len(listing) /\ walk.total \in 0..Len(listing)
  /\ walk.seen \in Seq(Stored) /\ walk.old \subseteq Stored
  /\ aired \in Seq(Kinds)
  /\ \A c \in Clients : /\ sub[c].queue \in Seq(1..Len(aired))
                        /\ Len(sub[c].queue) <= SubQueue
                        /\ sub[c].got \in Seq(1..Len(aired))
                        /\ sub[c].told \in 0..Len(aired)
                        /\ sub[c].pc \in {"off", "subscribed", "check", "get", "closed"}
  /\ caller \in [Spans -> 0..MaxSpans]
  /\ stage \in [Spans -> {"none", "begun", "consumed", "decided", "lost"}]

\* A walk along next_offset misses an event that was there before it only if as
\* many came in between the last count and its page, which pushed it off the end:
\* the two statements are no transaction (queries.py:34-45, main.py:177).
MissesOnlyLate ==
  walk.pc = "ended" => Cardinality(walk.old \ Range(walk.seen)) <= walk.late

\* Offsets shift as the table grows: a walk repeats at most as many events as came
\* in since it began.
RepeatsOnlyGrown ==
  Len(walk.seen) - Cardinality(Range(walk.seen)) <= walk.grown

\* What a walk over a growing table misses or repeats is explained by what came in
\* while it went on (queries.py:34-47, main.py:177).
WalkExplained == MissesOnlyLate /\ RepeatsOnlyGrown

\* A walk ends, for the table is finite, unless its limit is 0, which nobody
\* forbids (main.py:170).
WalkEnds == walk.pc = "count" /\ walk.limit > 0 ~> walk.pc = "ended"

\* A client is sent the events of its filter, in order and once, and after its
\* "connected" all of them, unless its queue was full (sse.py:31-41).
StreamFaithful ==
  \A c \in Clients :
     LET flow == sub[c].got \o sub[c].queue
         due == {n \in (sub[c].told + 1)..Len(aired) : Accepts(c, aired[n])}
     IN  /\ \A i \in 1..(Len(flow) - 1) : flow[i] < flow[i + 1]
         /\ \A i \in DOMAIN flow : Accepts(c, aired[flow[i]])
         /\ sub[c].pc \in {"check", "get"} /\ ~ sub[c].gone /\ ~ sub[c].full =>
              due \subseteq Range(flow)

\* A client that has gone is unsubscribed, though no event may ever come for it:
\* the heartbeat ends the wait (main.py:260-274).
GoneAreRemoved ==
  \A c \in Clients : sub[c].pc = "get" /\ sub[c].gone ~> sub[c].pc = "closed"

\* A request whose decision is stored hangs below its caller's span if that has
\* rows, whatever became of other rows, although its token_consumed row calls it a
\* root (queries.py:82-102, invoke.py:62-73); and the tree has every span.
TreeKeepsCallers ==
  \A s \in Indexed :
     /\ stage[s] = "decided" =>
          IF caller[s] \in Indexed THEN s \in ChildrenOf(caller[s]) ELSE s \in Roots
     /\ s \in Roots \/ \E p \in Indexed : p < s /\ s \in ChildrenOf(p)
=============================================================================
