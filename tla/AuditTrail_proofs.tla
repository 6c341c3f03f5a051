-------------------------- MODULE AuditTrail_proofs --------------------------
(***************************************************************************)
(* Proofs about the three audit writers, for every set of events and every *)
(* capacity and size of batch: what a writer takes it keeps or gives up    *)
(* with a reason, and copies stay behind what they are copies of.          *)
(***************************************************************************)
EXTENDS AuditTrail, TLAPS

-----------------------------------------------------------------------------
(***************************************************************************)
(* The inductive invariant                                                 *)
(***************************************************************************)

\* Those of the events that come from the IdP are in the IdP's table.
Backed(E) == \A e \in E : Origin[e] = "idp" => e \in stored["idp"]

\* The gateway has only its own events, and what has left the IdP is stored there.
SourcesFirst ==
  /\ \A e \in Elements(queue["gateway"]) : Origin[e] = "gateway"
  /\ \A b \in posts : Backed(Elements(b))
  /\ Backed(Elements(queue["api"])) /\ Backed(Elements(hand["api"]))
  /\ Backed(accepted) /\ Backed(backup)

AuditIInv == NothingLost /\ SourcesFirst /\ StreamedIsStored

-----------------------------------------------------------------------------
(***************************************************************************)
(* Queues and batches                                                      *)
(***************************************************************************)

\* put_nowait.
LEMMA AppendElements ==
  ASSUME NEW s \in Seq(Events), NEW e \in Events
  PROVE  /\ Append(s, e) \in Seq(Events) /\ Len(Append(s, e)) = Len(s) + 1
         /\ Elements(Append(s, e)) = Elements(s) \cup {e}
<1>1. /\ Append(s, e) \in Seq(Events) /\ Len(Append(s, e)) = Len(s) + 1 /\ Len(s) \in Nat
      /\ \A i \in 1..Len(s) : Append(s, e)[i] = s[i]
      /\ Append(s, e)[Len(s) + 1] = e
  OBVIOUS
<1>2. DOMAIN s = 1..Len(s) /\ DOMAIN Append(s, e) = 1..(Len(s) + 1)
  BY <1>1
<1>3. 1..(Len(s) + 1) = 1..Len(s) \cup {Len(s) + 1}
  BY <1>1
<1> QED  BY <1>1, <1>2, <1>3 DEF Elements

\* get_nowait.
LEMMA HeadAndTail ==
  ASSUME NEW s \in Seq(Events), s # <<>>
  PROVE  /\ Head(s) \in Events /\ Tail(s) \in Seq(Events) /\ Len(Tail(s)) <= Len(s)
         /\ Elements(s) = {Head(s)} \cup Elements(Tail(s))
<1>1. /\ Len(s) \in Nat /\ Len(s) > 0 /\ Head(s) = s[1] /\ Head(s) \in Events
      /\ Tail(s) \in Seq(Events) /\ Len(Tail(s)) = Len(s) - 1
      /\ \A i \in 1..(Len(s) - 1) : Tail(s)[i] = s[i + 1]
  OBVIOUS
<1>2. DOMAIN s = 1..Len(s) /\ DOMAIN Tail(s) = 1..(Len(s) - 1)
  BY <1>1
<1>3. Elements(s) \subseteq {Head(s)} \cup Elements(Tail(s))
  <2> SUFFICES ASSUME NEW i \in 1..Len(s), i # 1
               PROVE  s[i] \in Elements(Tail(s))
    BY <1>1, <1>2 DEF Elements
  <2>1. i - 1 \in 1..(Len(s) - 1) /\ i = (i - 1) + 1
    BY <1>1
  <2> QED  BY <1>1, <1>2, <2>1 DEF Elements
<1>4. {Head(s)} \cup Elements(Tail(s)) \subseteq Elements(s)
  <2>1. \A i \in 1..(Len(s) - 1) : i + 1 \in 1..Len(s)
    BY <1>1
  <2>2. 1 \in 1..Len(s)
    BY <1>1
  <2> QED  BY <1>1, <1>2, <2>1, <2>2 DEF Elements
<1> QED  BY <1>1, <1>3, <1>4

\* extend.
LEMMA ConcatElements ==
  ASSUME NEW s \in Seq(Events), NEW t \in Seq(Events)
  PROVE  /\ s \o t \in Seq(Events) /\ Len(s \o t) = Len(s) + Len(t)
         /\ Elements(s \o t) = Elements(s) \cup Elements(t)
<1>1. /\ s \o t \in Seq(Events) /\ Len(s \o t) = Len(s) + Len(t)
      /\ Len(s) \in Nat /\ Len(t) \in Nat
      /\ \A i \in 1..Len(s) : (s \o t)[i] = s[i]
      /\ \A i \in 1..Len(t) : (s \o t)[Len(s) + i] = t[i]
  OBVIOUS
<1>2. /\ DOMAIN s = 1..Len(s) /\ DOMAIN t = 1..Len(t)
      /\ DOMAIN (s \o t) = 1..(Len(s) + Len(t))
  BY <1>1
<1>3. Elements(s \o t) \subseteq Elements(s) \cup Elements(t)
  <2> SUFFICES ASSUME NEW i \in 1..(Len(s) + Len(t))
               PROVE  (s \o t)[i] \in Elements(s) \cup Elements(t)
    BY <1>2 DEF Elements
  <2>1. CASE i <= Len(s)
    <3>1. i \in 1..Len(s)
      BY <1>1, <2>1
    <3> QED  BY <1>1, <1>2, <3>1 DEF Elements
  <2>2. CASE ~ (i <= Len(s))
    <3>1. i - Len(s) \in 1..Len(t) /\ i = Len(s) + (i - Len(s))
      BY <1>1, <2>2
    <3> QED  BY <1>1, <1>2, <3>1 DEF Elements
  <2> QED  BY <2>1, <2>2
<1>4. Elements(s) \cup Elements(t) \subseteq Elements(s \o t)
  <2>1. /\ \A i \in 1..Len(s) : i \in 1..(Len(s) + Len(t))
        /\ \A i \in 1..Len(t) : Len(s) + i \in 1..(Len(s) + Len(t))
    BY <1>1
  <2> QED  BY <1>1, <1>2, <2>1 DEF Elements
<1> QED  BY <1>1, <1>3, <1>4

\* A slice of the queue, as a list comprehension.
LEMMA Slice ==
  ASSUME NEW s \in Seq(Events), NEW a \in Nat, NEW l \in Nat
  PROVE  SubSeq(s, a, l) = [i \in 1..(l - a + 1) |-> s[i + a - 1]]
  OBVIOUS

\* A batch, and what it leaves in the queue.
LEMMA FrontAndRest ==
  ASSUME NEW s \in Seq(Events), NEW n \in Nat
  PROVE  /\ Front(s, n) \in Seq(Events) /\ Len(Front(s, n)) <= n
         /\ Len(Front(s, n)) <= Len(s) /\ Len(Front(s, n)) \in Nat
         /\ Rest(s, n) \in Seq(Events) /\ Len(Rest(s, n)) <= Len(s)
         /\ Len(Rest(s, n)) \in Nat
         /\ Elements(s) = Elements(Front(s, n)) \cup Elements(Rest(s, n))
<1> DEFINE k == IF n < Len(s) THEN n ELSE Len(s)
           f == SubSeq(s, 1, k)
           r == SubSeq(s, n + 1, Len(s))
<1>1. Len(s) \in Nat /\ DOMAIN s = 1..Len(s) /\ k \in Nat /\ k <= n /\ k <= Len(s)
  OBVIOUS
<1>2. \A i \in 1..Len(s) : s[i] \in Events
  OBVIOUS
<1>3. f = [i \in 1..k |-> s[i]]
  <2>1. f = [i \in 1..(1 + k - 1) |-> s[1 + i - 1]]
    BY <1>1
  <2>2. /\ 1..(1 + k - 1) = 1..k
        /\ \A i \in 1..k : 1 + i - 1 = i
    BY <1>1
  <2> HIDE DEF k
  <2> QED  BY <2>1, <2>2
<1> DEFINE m == IF n < Len(s) THEN Len(s) - n ELSE 0
<1>4. m \in Nat /\ m <= Len(s)
  BY <1>1
<1>5. r = [i \in 1..m |-> s[i + n]]
  <2>1. SubSeq(s, n + 1, Len(s)) = [i \in 1..(Len(s) - (n + 1) + 1) |-> s[i + (n + 1) - 1]]
    <3>1. n + 1 \in Nat
      OBVIOUS
    <3> QED  BY <1>1, <3>1, Slice
  <2>2. 1..(Len(s) - (n + 1) + 1) = 1..m
    <3>1. CASE n < Len(s)
      <4>1. Len(s) - (n + 1) + 1 = m
        BY <1>1, <3>1
      <4> QED  BY <4>1
    <3>2. CASE ~ (n < Len(s))
      <4>1. m = 0 /\ Len(s) - (n + 1) + 1 <= 0
        BY <1>1, <3>2
      <4>2. \A i \in Int : i \notin 1..(Len(s) - (n + 1) + 1) /\ i \notin 1..m
        <5> HIDE DEF m
        <5> QED  BY <1>1, <4>1
      <4> QED  BY <4>2
    <3> QED  BY <3>1, <3>2
  <2>3. \A i \in 1..m : i + (n + 1) - 1 = i + n
    BY <1>4
  <2>4. r = SubSeq(s, n + 1, Len(s))
    BY DEF r
  <2> HIDE DEF m
  <2> HIDE DEF r
  <2> QED  BY <2>1, <2>2, <2>3, <2>4
<1> HIDE DEF f, r
<1>6. f \in Seq(Events) /\ Len(f) = k /\ DOMAIN f = 1..k
  <2>1. \A i \in 1..k : s[i] \in Events
    BY <1>1, <1>2
  <2> HIDE DEF k
  <2> QED  BY <1>1, <1>3, <2>1
<1>7. \A i \in 1..m : i + n \in 1..Len(s) /\ s[i + n] \in Events
  BY <1>1, <1>2
<1>8. r \in Seq(Events) /\ Len(r) = m /\ DOMAIN r = 1..m
  <2> HIDE DEF m
  <2> QED  BY <1>4, <1>5, <1>7
<1>9. Elements(f) \subseteq Elements(s) /\ Elements(r) \subseteq Elements(s)
  <2>1. \A i \in 1..k : i \in 1..Len(s)
    BY <1>1
  <2> HIDE DEF k, m
  <2> QED  BY <1>1, <1>3, <1>5, <1>6, <1>7, <1>8, <2>1 DEF Elements
<1>10. Elements(s) \subseteq Elements(f) \cup Elements(r)
  <2> SUFFICES ASSUME NEW i \in 1..Len(s) PROVE s[i] \in Elements(f) \cup Elements(r)
    BY <1>1 DEF Elements
  <2>1. CASE i <= k
    <3>1. i \in 1..k
      BY <1>1, <2>1
    <3> HIDE DEF k, m
    <3>2. f[i] = s[i]
      BY <1>3, <3>1
    <3> QED  BY <1>6, <3>1, <3>2 DEF Elements
  <2>2. CASE ~ (i <= k)
    <3>1. i - n \in 1..m /\ i = (i - n) + n
      BY <1>1, <2>2
    <3> HIDE DEF k, m
    <3>2. r[i - n] = s[i]
      BY <1>5, <3>1
    <3> QED  BY <1>8, <3>1, <3>2 DEF Elements
  <2> QED  BY <2>1, <2>2
<1>11. Front(s, n) = f /\ Rest(s, n) = r
  BY DEF Front, Rest, f, r
<1> HIDE DEF k, m
<1> QED  BY <1>1, <1>4, <1>6, <1>8, <1>9, <1>10, <1>11

-----------------------------------------------------------------------------
(***************************************************************************)
(* Types                                                                   *)
(***************************************************************************)

\* The numbers and the writers among the constants.
LEMMA AuditNumbers ==
  /\ Capacity \in Nat /\ Capacity > 0 /\ Batch \in Nat /\ Batch > 0
  /\ \A e \in Events : Origin[e] \in {"gateway", "idp"} /\ Origin[e] \in Writers
  BY AuditAssumption DEF Sources, Writers

\* What is in a queue or in hand is an event.
LEMMA ElementsAreEvents ==
  ASSUME NEW q \in Seq(Events)
  PROVE  Elements(q) \subseteq Events /\ Len(q) \in Nat
<1>1. \A i \in DOMAIN q : q[i] \in Events
  OBVIOUS
<1> QED  BY <1>1 DEF Elements

\* An empty list has no events.
LEMMA NothingThere == <<>> \in Seq(Events) /\ Len(<<>>) = 0 /\ Elements(<<>>) = {}
  BY DEF Elements

\* What is given up is given up by a writer for a cause.
LEMMA GiveUpTyped ==
  ASSUME NEW w \in Writers, NEW cause \in Causes, NEW E \in SUBSET Events
  PROVE  /\ GiveUp(w, cause, E) \subseteq Writers \X Causes \X Events
         /\ \A e \in E : <<w, cause, e>> \in GiveUp(w, cause, E)
  BY DEF GiveUp

\* write_backup takes what it is given, or says that it could not.
LEMMA BackUpTakes ==
  ASSUME TypeOK, NEW E \in SUBSET Events, BackUp(E)
  PROVE  /\ backup \subseteq backup' /\ backup' \subseteq backup \cup E
         /\ lost \subseteq lost' /\ lost' \subseteq Writers \X Causes \X Events
         /\ \A e \in E : e \in backup' \/ <<"api", "disk", e>> \in lost'
<1>1. /\ GiveUp("api", "disk", E) \subseteq Writers \X Causes \X Events
      /\ \A e \in E : <<"api", "disk", e>> \in GiveUp("api", "disk", E)
  BY GiveUpTyped DEF Writers, Causes
<1> QED  BY <1>1 DEF BackUp, TypeOK

\* The types of one writer.
LEMMA WriterTyped ==
  ASSUME TypeOK, NEW w \in Writers
  PROVE  /\ queue[w] \in Seq(Events) /\ Len(queue[w]) <= Capacity
         /\ hand[w] \in Seq(Events) /\ Len(hand[w]) <= Batch
         /\ Elements(queue[w]) \subseteq Events /\ Elements(hand[w]) \subseteq Events
         /\ Len(queue[w]) \in Nat /\ Len(hand[w]) \in Nat
         /\ Capacity - Len(queue[w]) \in Nat
         /\ pending[w] \subseteq Events /\ stored[w] \subseteq Events
<1>1. /\ queue[w] \in Seq(Events) /\ Len(queue[w]) <= Capacity
      /\ hand[w] \in Seq(Events) /\ Len(hand[w]) <= Batch
      /\ pending[w] \subseteq Events /\ stored[w] \subseteq Events
  BY DEF TypeOK
<1> QED  BY <1>1, ElementsAreEvents, AuditNumbers

\* Queue and hand of one writer change within their bounds.
LEMMA ListsTyped ==
  ASSUME TypeOK, NEW w \in Writers, NEW q \in Seq(Events), Len(q) <= Capacity,
         NEW h \in Seq(Events), Len(h) <= Batch,
         queue' = [queue EXCEPT ![w] = q], hand' = [hand EXCEPT ![w] = h]
  PROVE  /\ queue' \in [Writers -> Seq(Events)] /\ \A v \in Writers : Len(queue'[v]) <= Capacity
         /\ hand' \in [Writers -> Seq(Events)] /\ \A v \in Writers : Len(hand'[v]) <= Batch
         /\ queue'[w] = q /\ hand'[w] = h
         /\ \A v \in Writers \ {w} : queue'[v] = queue[v] /\ hand'[v] = hand[v]
<1>1. /\ queue'[w] = q /\ hand'[w] = h
      /\ \A v \in Writers \ {w} : queue'[v] = queue[v] /\ hand'[v] = hand[v]
      /\ queue' \in [Writers -> Seq(Events)] /\ hand' \in [Writers -> Seq(Events)]
  BY DEF TypeOK
<1>2. ASSUME NEW v \in Writers PROVE Len(queue'[v]) <= Capacity /\ Len(hand'[v]) <= Batch
  <2>1. CASE v = w
    BY <1>1, <2>1
  <2>2. CASE v # w
    BY <1>1, <2>2 DEF TypeOK
  <2> QED  BY <2>1, <2>2
<1> QED  BY <1>1, <1>2

-----------------------------------------------------------------------------
(***************************************************************************)
(* What a step does to a writer's events                                   *)
(***************************************************************************)

\* Where a running writer may have put an event that it no longer keeps.
Out(w, e) ==
  IF w = "api" THEN e \in backup \/ <<"api", "disk", e>> \in lost
  ELSE <<"idp", "full", e>> \in lost

\* What a writer has it goes on having, as long as it runs.
Stays(w) ==
  \A e \in Elements(queue[w]) \cup Elements(hand[w]) :
     Running(w)' => e \in Kept(w)' \/ Out(w, e)'

\* What is stored, backed up or given up remains so; a stopped writer does not run again.
Grows ==
  /\ \A w \in Writers : stored[w] \subseteq stored'[w] /\ (Running(w)' => Running(w))
  /\ lost \subseteq lost' /\ backup \subseteq backup'

\* What is emitted or accepted is in the queue.
Arrives ==
  /\ \A e \in emitted' \ emitted : Origin[e] = "idp" =>
        e \in Elements(queue'["idp"]) \/ <<"idp", "full", e>> \in lost'
  /\ \A e \in accepted' \ accepted : e \in Elements(queue'["api"])

AuditStep == TypeOK' /\ Grows /\ Arrives /\ Stays("idp") /\ Stays("api")

\* Steps that go from the queue or the hand to a place where events are kept.
LEMMA StepsKeep ==
  ASSUME NothingLost, AuditStep
  PROVE  NothingLost'
<1>1. TypeOK /\ IdpKeepsEvents /\ AcceptedIsKept /\ TypeOK' /\ Grows /\ Arrives
      /\ "idp" \in Writers /\ "api" \in Writers
  BY DEF NothingLost, AuditStep, Writers
<1>2. IdpKeepsEvents'
  <2> SUFFICES ASSUME NEW e \in emitted', Origin[e] = "idp", Running("idp")'
               PROVE  e \in Kept("idp")' \/ <<"idp", "full", e>> \in lost'
    BY DEF IdpKeepsEvents, OfIdp
  <2>1. CASE e \notin emitted
    BY <1>1, <2>1 DEF Arrives, Kept
  <2>2. CASE e \in emitted
    <3>1. e \in Kept("idp") \/ <<"idp", "full", e>> \in lost
      BY <1>1, <2>2 DEF IdpKeepsEvents, OfIdp, Grows
    <3>2. Stays("idp")
      BY DEF AuditStep
    <3> QED  BY <1>1, <3>1, <3>2 DEF Grows, Stays, Kept, Out
  <2> QED  BY <2>1, <2>2
<1>3. AcceptedIsKept'
  <2> SUFFICES ASSUME NEW e \in accepted', Running("api")'
               PROVE  e \in Kept("api")' \cup backup' \/ <<"api", "disk", e>> \in lost'
    BY DEF AcceptedIsKept
  <2>1. CASE e \notin accepted
    BY <1>1, <2>1 DEF Arrives, Kept
  <2>2. CASE e \in accepted
    <3>1. e \in Kept("api") \cup backup \/ <<"api", "disk", e>> \in lost
      BY <1>1, <2>2 DEF AcceptedIsKept, Grows
    <3>2. Stays("api")
      BY DEF AuditStep
    <3> QED  BY <1>1, <3>1, <3>2 DEF Grows, Stays, Kept, Out
  <2> QED  BY <2>1, <2>2
<1> QED  BY <1>1, <1>2, <1>3 DEF NothingLost

\* What comes to the gateway's queue is its own, what is posted comes from there or is
\* stored, what the audit API has was posted, and what it streams it has stored.
Follows ==
  /\ \A e \in Elements(queue'["gateway"]) \ Elements(queue["gateway"]) : Origin[e] = "gateway"
  /\ \A b \in posts' \ posts : \A e \in Elements(b) :
        e \in Elements(queue["gateway"]) \/ e \in stored'["idp"]
  /\ \A e \in Elements(queue'["api"]) \cup Elements(hand'["api"]) \cup accepted' \cup backup' :
        \/ e \in Elements(queue["api"]) \cup Elements(hand["api"]) \cup accepted \cup backup
        \/ \E b \in posts : e \in Elements(b)
  /\ streamed' \ streamed \subseteq stored'["api"]

\* Steps that copy only what is stored keep the copies behind.
LEMMA StepsFollow ==
  ASSUME AuditIInv, Grows, Follows
  PROVE  SourcesFirst' /\ StreamedIsStored'
<1>1. "idp" \in Writers /\ "api" \in Writers
  BY DEF Writers
<1>2. stored["idp"] \subseteq stored'["idp"] /\ stored["api"] \subseteq stored'["api"]
  BY <1>1 DEF Grows
<1>3. \A e \in Elements(queue'["gateway"]) : Origin[e] = "gateway"
  BY DEF AuditIInv, SourcesFirst, Follows
<1>4. ASSUME NEW b \in posts' PROVE Backed(Elements(b))'
  <2> SUFFICES ASSUME NEW e \in Elements(b), Origin[e] = "idp" PROVE e \in stored'["idp"]
    BY DEF Backed
  <2>1. CASE b \in posts
    BY <1>2, <2>1 DEF AuditIInv, SourcesFirst, Backed
  <2>2. CASE b \notin posts
    BY <2>2 DEF AuditIInv, SourcesFirst, Follows
  <2> QED  BY <2>1, <2>2
<1>5. ASSUME NEW e \in Elements(queue'["api"]) \cup Elements(hand'["api"]) \cup accepted' \cup backup',
             Origin[e] = "idp"
      PROVE  e \in stored'["idp"]
  <2>1. CASE \E b \in posts : e \in Elements(b)
    BY <1>2, <1>5, <2>1 DEF AuditIInv, SourcesFirst, Backed
  <2>2. CASE e \in Elements(queue["api"]) \cup Elements(hand["api"]) \cup accepted \cup backup
    BY <1>2, <1>5, <2>2 DEF AuditIInv, SourcesFirst, Backed
  <2> QED  BY <1>5, <2>1, <2>2 DEF Follows
<1>6. SourcesFirst'
  BY <1>3, <1>4, <1>5 DEF SourcesFirst, Backed
<1>7. StreamedIsStored'
  BY <1>2 DEF AuditIInv, StreamedIsStored, Follows
<1> QED  BY <1>6, <1>7

\* A writer that a step leaves alone keeps what it has.
LEMMA StaysAside ==
  ASSUME NEW v, queue'[v] = queue[v], hand'[v] = hand[v]
  PROVE  Stays(v)
  BY DEF Stays, Kept

\* Going to another place of the loop.
LEMMA PhaseTyped ==
  ASSUME TypeOK, NEW w \in Writers,
         NEW p \in {"collect", "flush", "backoff", "drain", "stopped"}, Goto(w, p)
  PROVE  /\ phase' \in [Writers -> {"collect", "flush", "backoff", "drain", "stopped"}]
         /\ phase'[w] = p /\ \A v \in Writers \ {w} : phase'[v] = phase[v]
  BY DEF TypeOK, Goto

\* A running writer that goes to some place was running; the others stay where they are.
LEMMA StillRunning ==
  ASSUME TypeOK, NEW w \in Writers, phase' = phase \/
           ((\A v \in Writers \ {w} : phase'[v] = phase[v])
              /\ (Running(w) \/ phase'[w] \in {"drain", "stopped"}))
  PROVE  \A v \in Writers : Running(v)' => Running(v)
  BY DEF Running

\* More rows of one writer are stored.
LEMMA StoredTyped ==
  ASSUME TypeOK, NEW w \in Writers, NEW E \in SUBSET Events,
         stored' = [stored EXCEPT ![w] = @ \cup pending[w] \cup E]
  PROVE  /\ stored' \in [Writers -> SUBSET Events] /\ E \subseteq stored'[w]
         /\ \A v \in Writers : stored[v] \subseteq stored'[v]
<1>1. pending[w] \subseteq Events /\ stored[w] \subseteq Events
  BY WriterTyped
<1>2. /\ stored' \in [Writers -> SUBSET Events]
      /\ stored'[w] = stored[w] \cup pending[w] \cup E
      /\ \A v \in Writers \ {w} : stored'[v] = stored[v]
  BY <1>1 DEF TypeOK
<1> QED  BY <1>2

\* Rows of one writer are left in its transaction, or there are none any more.
LEMMA PendingTyped ==
  ASSUME TypeOK, NEW w \in Writers, NEW E \in SUBSET Events,
         pending' \in {pending, [pending EXCEPT ![w] = {}], [pending EXCEPT ![w] = @ \cup E]}
  PROVE  pending' \in [Writers -> SUBSET Events]
<1>1. pending[w] \subseteq Events
  BY WriterTyped
<1> QED  BY <1>1 DEF TypeOK

-----------------------------------------------------------------------------
(***************************************************************************)
(* The steps                                                               *)
(***************************************************************************)

\* emit, write.
LEMMA EmitSteps ==
  ASSUME AuditIInv, NEW e \in Events, Emit(e)
  PROVE  AuditStep /\ Follows
<1>1. TypeOK /\ Origin[e] \in {"gateway", "idp"} /\ Origin[e] \in Writers
      /\ Capacity \in Nat /\ Batch \in Nat
  BY AuditNumbers DEF AuditIInv, NothingLost
<1> PICK w \in Writers : w = Origin[e]
  BY <1>1
<1>2. /\ queue[w] \in Seq(Events) /\ Len(queue[w]) \in Nat /\ Len(queue[w]) <= Capacity
      /\ hand[w] \in Seq(Events) /\ Len(hand[w]) <= Batch
  BY <1>1, WriterTyped
<1>3. UNCHANGED <<hand, phase, pending, stored, db, posts, accepted, backup, streamed>>
      /\ emitted' = emitted \cup {e}
  BY DEF Emit
<1>4. \/ /\ Len(queue[w]) < Capacity
         /\ queue' = [queue EXCEPT ![w] = Append(queue[w], e)] /\ lost' = lost
      \/ lost' = lost \cup GiveUp(w, "full", {e}) /\ queue' = queue
  BY DEF Emit
<1>5. /\ GiveUp(w, "full", {e}) \subseteq Writers \X Causes \X Events
      /\ <<w, "full", e>> \in GiveUp(w, "full", {e})
  BY GiveUpTyped DEF Causes
<1>6. CASE queue' = queue /\ lost' = lost \cup GiveUp(w, "full", {e})
  <2>1. TypeOK'
    BY <1>1, <1>3, <1>5, <1>6 DEF TypeOK
  <2>2. Stays("idp") /\ Stays("api")
    BY <1>3, <1>6, StaysAside
  <2>3. Grows /\ Arrives
    BY <1>3, <1>5, <1>6 DEF Grows, Arrives, Running
  <2>4. Follows
    BY <1>3, <1>6 DEF Follows
  <2> QED  BY <2>1, <2>2, <2>3, <2>4 DEF AuditStep
<1>7. CASE Len(queue[w]) < Capacity /\ lost' = lost
           /\ queue' = [queue EXCEPT ![w] = Append(queue[w], e)]
  <2>1. /\ Append(queue[w], e) \in Seq(Events) /\ Len(Append(queue[w], e)) <= Capacity
        /\ Elements(Append(queue[w], e)) = Elements(queue[w]) \cup {e}
    BY <1>1, <1>2, <1>7, AppendElements
  <2>2. hand' = [hand EXCEPT ![w] = hand[w]]
    BY <1>1, <1>3 DEF TypeOK
  <2>3. /\ queue' \in [Writers -> Seq(Events)] /\ \A v \in Writers : Len(queue'[v]) <= Capacity
        /\ hand' \in [Writers -> Seq(Events)] /\ \A v \in Writers : Len(hand'[v]) <= Batch
        /\ queue'[w] = Append(queue[w], e)
        /\ \A v \in Writers \ {w} : queue'[v] = queue[v]
    BY <1>1, <1>2, <1>7, <2>1, <2>2, ListsTyped
  <2>4. TypeOK'
    BY <1>1, <1>3, <1>7, <2>3 DEF TypeOK
  <2>5. Elements(queue'[w]) = Elements(queue[w]) \cup {e}
    BY <2>1, <2>3
  <2>6. Stays("idp")
    BY <1>3, <2>3, <2>5, StaysAside DEF Stays, Kept, Writers
  <2>7. Stays("api")
    BY <1>1, <1>3, <2>3, StaysAside DEF Writers
  <2>8. Grows /\ Arrives
    BY <1>3, <1>7, <2>5 DEF Grows, Arrives, Running
  <2>9. Follows
    BY <1>1, <1>3, <2>3, <2>5 DEF Follows, Writers
  <2> QED  BY <2>4, <2>6, <2>7, <2>8, <2>9 DEF AuditStep
<1> QED  BY <1>4, <1>6, <1>7

\* What fits into the room that is left in a queue fits into the queue.
LEMMA RoomIsEnough ==
  ASSUME NEW n \in Nat, NEW k \in Nat, NEW c \in Nat, k <= c - n
  PROVE  n + k <= c
  OBVIOUS

\* POST /audit/events.
LEMMA DeliverSteps ==
  ASSUME AuditIInv, NEW b \in posts, Deliver(b)
  PROVE  AuditStep /\ Follows
<1>1. TypeOK /\ "api" \in Writers /\ "idp" \in Writers /\ "gateway" \in Writers
      /\ b \in Seq(Events) /\ Capacity \in Nat
  BY AuditNumbers DEF AuditIInv, NothingLost, TypeOK, Writers
<1>2. /\ queue["api"] \in Seq(Events) /\ Len(queue["api"]) \in Nat
      /\ hand["api"] \in Seq(Events) /\ Len(hand["api"]) <= Batch
      /\ Capacity - Len(queue["api"]) \in Nat
  BY <1>1, WriterTyped
<1> PICK room \in Nat : room = Capacity - Len(queue["api"])
  BY <1>2
<1> PICK f, r : f = Front(b, room) /\ r = Rest(b, room)
  OBVIOUS
<1>3. /\ f \in Seq(Events) /\ Len(f) <= room /\ Len(f) \in Nat
      /\ r \in Seq(Events) /\ Elements(b) = Elements(f) \cup Elements(r)
  BY <1>1, FrontAndRest
<1>4. /\ posts' = posts \ {b}
      /\ queue' = [queue EXCEPT !["api"] = queue["api"] \o f]
      /\ accepted' = accepted \cup Elements(f)
      /\ BackUp(Elements(r))
      /\ UNCHANGED <<emitted, hand, phase, pending, stored, db, streamed>>
  BY DEF Deliver
<1>5. Elements(f) \subseteq Events /\ Elements(r) \subseteq Events
  BY <1>3, ElementsAreEvents
<1>6. /\ backup \subseteq backup' /\ backup' \subseteq backup \cup Elements(r)
      /\ lost \subseteq lost' /\ lost' \subseteq Writers \X Causes \X Events
  BY <1>1, <1>4, <1>5, BackUpTakes
<1>7. /\ queue["api"] \o f \in Seq(Events) /\ Len(queue["api"] \o f) <= Capacity
      /\ Elements(queue["api"] \o f) = Elements(queue["api"]) \cup Elements(f)
  <2>1. /\ queue["api"] \o f \in Seq(Events)
        /\ Len(queue["api"] \o f) = Len(queue["api"]) + Len(f)
        /\ Elements(queue["api"] \o f) = Elements(queue["api"]) \cup Elements(f)
    BY <1>2, <1>3, ConcatElements
  <2>2. Len(queue["api"]) + Len(f) <= Capacity
    BY <1>1, <1>2, <1>3, RoomIsEnough
  <2> QED  BY <2>1, <2>2
<1>8. hand' = [hand EXCEPT !["api"] = hand["api"]]
  BY <1>1, <1>4 DEF TypeOK
<1>9. /\ queue' \in [Writers -> Seq(Events)] /\ \A v \in Writers : Len(queue'[v]) <= Capacity
      /\ queue'["api"] = queue["api"] \o f
      /\ \A v \in Writers \ {"api"} : queue'[v] = queue[v]
  BY <1>1, <1>2, <1>4, <1>7, <1>8, ListsTyped
<1>10. TypeOK'
  BY <1>1, <1>4, <1>5, <1>6, <1>9 DEF TypeOK
<1>11. Elements(queue'["api"]) = Elements(queue["api"]) \cup Elements(f)
  BY <1>7, <1>9
<1>12. Stays("api")
  BY <1>4, <1>11 DEF Stays, Kept
<1>13. Stays("idp")
  BY <1>1, <1>4, <1>9, StaysAside
<1>14. Grows /\ Arrives
  BY <1>4, <1>6, <1>11 DEF Grows, Arrives, Running
<1>15. Follows
  BY <1>1, <1>3, <1>4, <1>6, <1>9, <1>11 DEF Follows
<1> QED  BY <1>10, <1>12, <1>13, <1>14, <1>15 DEF AuditStep

\* The POST is lost.
LEMMA LosePostSteps ==
  ASSUME AuditIInv, NEW b \in posts, LosePost(b)
  PROVE  AuditStep /\ Follows
<1>1. TypeOK
  BY DEF AuditIInv, NothingLost
<1>2. posts' = posts \ {b}
      /\ UNCHANGED <<emitted, queue, hand, phase, pending, stored, db, accepted, backup,
                     streamed, lost>>
  BY DEF LosePost
<1>3. TypeOK'
  BY <1>1, <1>2 DEF TypeOK
<1>4. Stays("idp") /\ Stays("api")
  BY <1>2, StaysAside
<1>5. Grows /\ Arrives /\ Follows
  BY <1>2 DEF Grows, Arrives, Running, Follows
<1> QED  BY <1>3, <1>4, <1>5 DEF AuditStep

\* Steps that change only where a loop is, what is in its transaction or its database.
LEMMA QuietSteps ==
  ASSUME AuditIInv, NEW w \in Writers,
         Begin(w) \/ (w = "idp" /\ Resume) \/ Close(w) \/ Recover(w) \/ UNCHANGED vars
  PROVE  AuditStep /\ Follows
<1>1. TypeOK
  BY DEF AuditIInv, NothingLost
<1>2. UNCHANGED <<emitted, queue, hand, stored, posts, accepted, backup, streamed, lost>>
  BY DEF Begin, Resume, Close, Recover, vars
<1>3. /\ phase' \in [Writers -> {"collect", "flush", "backoff", "drain", "stopped"}]
      /\ \A v \in Writers : Running(v)' => Running(v)
  <2>1. CASE Begin(w)
    BY <1>1, <2>1, PhaseTyped, StillRunning DEF Begin, Running
  <2>2. CASE w = "idp" /\ Resume
    BY <1>1, <2>2, PhaseTyped, StillRunning DEF Resume, Running
  <2>3. CASE Close(w)
    BY <1>1, <2>3, PhaseTyped, StillRunning DEF Close
  <2>4. CASE Recover(w) \/ UNCHANGED vars
    BY <1>1, <2>4 DEF Recover, vars, Running, TypeOK
  <2> QED  BY <2>1, <2>2, <2>3, <2>4
<1>4. pending' \in [Writers -> SUBSET Events] /\ db' \in [Writers -> {"flaky", "sound"}]
  BY <1>1 DEF TypeOK, Begin, Resume, Close, Recover, vars
<1>5. TypeOK'
  BY <1>1, <1>2, <1>3, <1>4 DEF TypeOK
<1>6. Stays("idp") /\ Stays("api")
  BY <1>2, StaysAside
<1>7. Grows /\ Arrives /\ Follows
  BY <1>2, <1>3 DEF Grows, Arrives, Follows
<1> QED  BY <1>5, <1>6, <1>7 DEF AuditStep

\* A bound that has room for a summand more.
LEMMA Bounds ==
  ASSUME NEW n \in Nat, NEW k \in Nat, NEW c \in Nat
  PROVE  (n <= c => n <= c + k) /\ (n <= k => n <= c + k)
  OBVIOUS

\* The gateway's loop takes a batch and forwards it.
LEMMA TakeBatchSteps ==
  ASSUME AuditIInv, TakeBatch
  PROVE  AuditStep /\ Follows
<1>1. TypeOK /\ "api" \in Writers /\ "idp" \in Writers /\ "gateway" \in Writers
      /\ Capacity \in Nat /\ Batch \in Nat
  BY AuditNumbers DEF AuditIInv, NothingLost, Writers
<1>2. queue["gateway"] \in Seq(Events) /\ Len(queue["gateway"]) <= Capacity
      /\ Len(queue["gateway"]) \in Nat
  BY <1>1, WriterTyped
<1> PICK f, r : f = Front(queue["gateway"], Batch) /\ r = Rest(queue["gateway"], Batch)
  OBVIOUS
<1>3. /\ f \in Seq(Events) /\ Len(f) <= Batch /\ Len(f) \in Nat
      /\ r \in Seq(Events) /\ Len(r) <= Len(queue["gateway"]) /\ Len(r) \in Nat
      /\ Elements(queue["gateway"]) = Elements(f) \cup Elements(r)
  BY <1>1, <1>2, FrontAndRest
<1>4. /\ phase["gateway"] = "collect" /\ Goto("gateway", "flush")
      /\ queue' = [queue EXCEPT !["gateway"] = r]
      /\ hand' = [hand EXCEPT !["gateway"] = f]
      /\ posts' = posts \cup {f}
      /\ UNCHANGED <<emitted, pending, stored, db, accepted, backup, streamed, lost>>
  BY DEF TakeBatch
<1>5. Len(r) <= Capacity /\ Len(f) <= Capacity + Batch
  <2>1. Len(r) <= Capacity
    BY <1>1, <1>2, <1>3
  <2>2. Len(f) <= Capacity + Batch
    BY <1>1, <1>3, Bounds
  <2> QED  BY <2>1, <2>2
<1>6. /\ queue' \in [Writers -> Seq(Events)] /\ \A v \in Writers : Len(queue'[v]) <= Capacity
      /\ hand' \in [Writers -> Seq(Events)] /\ \A v \in Writers : Len(hand'[v]) <= Batch
      /\ queue'["gateway"] = r
      /\ \A v \in Writers \ {"gateway"} : queue'[v] = queue[v] /\ hand'[v] = hand[v]
  BY <1>1, <1>3, <1>4, <1>5, ListsTyped
<1>7. /\ phase' \in [Writers -> {"collect", "flush", "backoff", "drain", "stopped"}]
      /\ \A v \in Writers : Running(v)' => Running(v)
  BY <1>1, <1>4, PhaseTyped, StillRunning DEF Running
<1>8. TypeOK'
  BY <1>1, <1>3, <1>4, <1>5, <1>6, <1>7 DEF TypeOK
<1>9. Stays("idp") /\ Stays("api")
  BY <1>1, <1>6, StaysAside
<1>10. Grows /\ Arrives
  BY <1>4, <1>7 DEF Grows, Arrives
<1>11. Follows
  BY <1>1, <1>3, <1>4, <1>6 DEF Follows
<1> QED  BY <1>8, <1>9, <1>10, <1>11 DEF AuditStep

\* The other two collect event by event.
LEMMA CollectSteps ==
  ASSUME AuditIInv, NEW w \in Writers, Collect(w)
  PROVE  AuditStep /\ Follows
<1>1. TypeOK /\ "api" \in Writers /\ "idp" \in Writers /\ "gateway" \in Writers
      /\ Capacity \in Nat /\ Batch \in Nat
  BY AuditNumbers DEF AuditIInv, NothingLost, Writers
<1> PICK q, h : q = queue[w] /\ h = hand[w]
  OBVIOUS
<1>2. /\ q \in Seq(Events) /\ Len(q) <= Capacity /\ Len(q) \in Nat
      /\ h \in Seq(Events) /\ Len(h) \in Nat
  BY <1>1, WriterTyped
<1>3. /\ w # "gateway" /\ Len(h) < Batch /\ q # <<>>
      /\ hand' = [hand EXCEPT ![w] = Append(h, Head(q))]
      /\ queue' = [queue EXCEPT ![w] = Tail(q)]
      /\ UNCHANGED <<emitted, phase, pending, stored, db, posts, accepted, backup, streamed, lost>>
  BY DEF Collect
<1>4. /\ Head(q) \in Events /\ Tail(q) \in Seq(Events) /\ Len(Tail(q)) <= Len(q)
      /\ Elements(q) = {Head(q)} \cup Elements(Tail(q))
  BY <1>2, <1>3, HeadAndTail
<1>5. /\ Append(h, Head(q)) \in Seq(Events) /\ Len(Append(h, Head(q))) = Len(h) + 1
      /\ Elements(Append(h, Head(q))) = Elements(h) \cup {Head(q)}
  BY <1>2, <1>4, AppendElements
<1>6. Len(Tail(q)) <= Capacity /\ Len(Append(h, Head(q))) <= Batch
  <2>1. Len(Tail(q)) \in Nat
    BY <1>4
  <2>2. Len(Tail(q)) <= Capacity
    BY <1>1, <1>2, <1>4, <2>1
  <2>3. Len(h) + 1 <= Batch
    BY <1>1, <1>2, <1>3
  <2> QED  BY <1>5, <2>2, <2>3
<1>7. /\ queue' \in [Writers -> Seq(Events)] /\ \A v \in Writers : Len(queue'[v]) <= Capacity
      /\ hand' \in [Writers -> Seq(Events)] /\ \A v \in Writers : Len(hand'[v]) <= Batch
      /\ queue'[w] = Tail(q) /\ hand'[w] = Append(h, Head(q))
      /\ \A v \in Writers \ {w} : queue'[v] = queue[v] /\ hand'[v] = hand[v]
  BY <1>1, <1>3, <1>4, <1>5, <1>6, ListsTyped
<1>8. TypeOK'
  BY <1>1, <1>3, <1>7 DEF TypeOK
<1>9. Elements(queue'[w]) \cup Elements(hand'[w]) = Elements(queue[w]) \cup Elements(hand[w])
  BY <1>4, <1>5, <1>7
<1>10. \A v \in Writers : Stays(v)
  BY <1>7, <1>9, StaysAside DEF Stays, Kept
<1>11. Grows /\ Arrives
  BY <1>3 DEF Grows, Arrives, Running
<1>12. Follows
  BY <1>1, <1>3, <1>7, <1>9 DEF Follows
<1> QED  BY <1>1, <1>8, <1>10, <1>11, <1>12 DEF AuditStep

\* executemany and commit succeed.
LEMMA CommitSteps ==
  ASSUME AuditIInv, NEW w \in Writers, Commit(w)
  PROVE  AuditStep /\ Follows
<1>1. TypeOK /\ "api" \in Writers /\ "idp" \in Writers /\ "gateway" \in Writers
      /\ Capacity \in Nat /\ Batch \in Nat
  BY AuditNumbers DEF AuditIInv, NothingLost, Writers
<1> PICK h : h = hand[w]
  OBVIOUS
<1>2. /\ queue[w] \in Seq(Events) /\ Len(queue[w]) <= Capacity
      /\ h \in Seq(Events) /\ Len(h) <= Batch /\ Len(h) \in Nat /\ Elements(h) \subseteq Events
  BY <1>1, WriterTyped
<1>3. /\ phase[w] = "flush" /\ Goto(w, "collect")
      /\ stored' = [stored EXCEPT ![w] = @ \cup pending[w] \cup Elements(h)]
      /\ pending' = [pending EXCEPT ![w] = {}]
      /\ hand' = [hand EXCEPT ![w] = <<>>]
      /\ posts' = IF w = "idp" THEN posts \cup {h} ELSE posts
      /\ streamed' = IF w = "api" THEN streamed \cup Elements(h) ELSE streamed
      /\ UNCHANGED <<emitted, queue, db, accepted, backup, lost>>
  BY DEF Commit
<1>4. queue' = [queue EXCEPT ![w] = queue[w]] /\ <<>> \in Seq(Events) /\ Len(<<>>) <= Batch
  BY <1>1, <1>3, NothingThere DEF TypeOK
<1>5. /\ queue' \in [Writers -> Seq(Events)] /\ \A v \in Writers : Len(queue'[v]) <= Capacity
      /\ hand' \in [Writers -> Seq(Events)] /\ \A v \in Writers : Len(hand'[v]) <= Batch
      /\ queue'[w] = queue[w] /\ hand'[w] = <<>>
      /\ \A v \in Writers \ {w} : queue'[v] = queue[v] /\ hand'[v] = hand[v]
  BY <1>1, <1>2, <1>3, <1>4, ListsTyped
<1>6. /\ phase' \in [Writers -> {"collect", "flush", "backoff", "drain", "stopped"}]
      /\ \A v \in Writers : Running(v)' => Running(v)
  BY <1>1, <1>3, PhaseTyped, StillRunning DEF Running
<1>7. /\ stored' \in [Writers -> SUBSET Events] /\ Elements(h) \subseteq stored'[w]
      /\ \A v \in Writers : stored[v] \subseteq stored'[v]
  BY <1>1, <1>2, <1>3, StoredTyped
<1>8. pending' \in [Writers -> SUBSET Events]
  BY <1>1, <1>3 DEF TypeOK
<1>9. Len(h) <= Capacity + Batch
  BY <1>1, <1>2, Bounds
<1>10. posts' \subseteq posts \cup {h} /\ streamed' \subseteq streamed \cup Elements(h)
  BY <1>3
<1>11. TypeOK'
  <2>1. \A b \in posts' : b \in Seq(Events) /\ Len(b) <= Capacity + Batch
    BY <1>1, <1>2, <1>9, <1>10 DEF TypeOK
  <2>2. streamed' \subseteq Events
    BY <1>1, <1>2, <1>10 DEF TypeOK
  <2> QED  BY <1>1, <1>3, <1>5, <1>6, <1>7, <1>8, <2>1, <2>2 DEF TypeOK
<1>12. \A v \in Writers : Stays(v)
  BY <1>5, <1>7, StaysAside DEF Stays, Kept
<1>13. Grows /\ Arrives
  BY <1>3, <1>6, <1>7 DEF Grows, Arrives
<1>14. Follows
  <2>1. \A v \in Writers : Elements(queue'[v]) \subseteq Elements(queue[v])
    BY <1>3
  <2>2. \A v \in Writers : Elements(hand'[v]) \subseteq Elements(hand[v])
    BY <1>5, NothingThere
  <2>3. \A b \in posts' \ posts : \A e \in Elements(b) : e \in stored'["idp"]
    BY <1>3, <1>7
  <2>4. streamed' \ streamed \subseteq stored'["api"]
    BY <1>3, <1>7
  <2> QED  BY <1>1, <1>3, <2>1, <2>2, <2>3, <2>4 DEF Follows
<1> QED  BY <1>1, <1>11, <1>12, <1>13, <1>14 DEF AuditStep

\* executemany or commit fails, as far as it does not matter whose.
LEMMA FailedFlush ==
  ASSUME TypeOK, NEW w \in Writers, FlushError(w)
  PROVE  /\ pending' \in [Writers -> SUBSET Events]
         /\ phase' \in [Writers -> {"collect", "flush", "backoff", "drain", "stopped"}]
         /\ \A v \in Writers : Running(v)' => Running(v)
         /\ hand' = [hand EXCEPT ![w] = <<>>]
         /\ UNCHANGED <<emitted, stored, db, posts, accepted, streamed>>
<1>1. hand[w] \in Seq(Events) /\ Elements(hand[w]) \subseteq Events
  BY WriterTyped
<1>2. /\ phase[w] = "flush" /\ Goto(w, IF w = "idp" THEN "backoff" ELSE "collect")
      /\ pending' \in {pending, [pending EXCEPT ![w] = @ \cup Elements(hand[w])]}
      /\ hand' = [hand EXCEPT ![w] = <<>>]
      /\ UNCHANGED <<emitted, stored, db, posts, accepted, streamed>>
  BY DEF FlushError
<1>3. pending' \in [Writers -> SUBSET Events]
  BY <1>1, <1>2, PendingTyped
<1>4. /\ phase' \in [Writers -> {"collect", "flush", "backoff", "drain", "stopped"}]
      /\ \A v \in Writers : Running(v)' => Running(v)
  BY <1>2, PhaseTyped, StillRunning DEF Running
<1> QED  BY <1>2, <1>3, <1>4

\* A failed flush: the gateway gives the batch up, the IdP queues it again, the audit
\* API backs it up.
LEMMA FlushErrorSteps ==
  ASSUME AuditIInv, NEW w \in Writers, FlushError(w)
  PROVE  AuditStep /\ Follows
<1>1. TypeOK /\ "api" \in Writers /\ "idp" \in Writers /\ "gateway" \in Writers
      /\ Capacity \in Nat /\ Batch \in Nat
  BY AuditNumbers DEF AuditIInv, NothingLost, Writers
<1> PICK h : h = hand[w]
  OBVIOUS
<1>2. /\ queue[w] \in Seq(Events) /\ Len(queue[w]) <= Capacity /\ Len(queue[w]) \in Nat
      /\ h \in Seq(Events) /\ Elements(h) \subseteq Events
      /\ Capacity - Len(queue[w]) \in Nat
  BY <1>1, WriterTyped
<1>3. /\ pending' \in [Writers -> SUBSET Events]
      /\ phase' \in [Writers -> {"collect", "flush", "backoff", "drain", "stopped"}]
      /\ \A v \in Writers : Running(v)' => Running(v)
      /\ hand' = [hand EXCEPT ![w] = <<>>]
      /\ UNCHANGED <<emitted, stored, db, posts, accepted, streamed>>
  BY <1>1, FailedFlush
<1>4. <<>> \in Seq(Events) /\ Len(<<>>) <= Batch /\ Elements(<<>>) = {}
  BY <1>1, NothingThere
<1>5. ASSUME queue' = queue
      PROVE  /\ queue' \in [Writers -> Seq(Events)] /\ \A v \in Writers : Len(queue'[v]) <= Capacity
             /\ hand' \in [Writers -> Seq(Events)] /\ \A v \in Writers : Len(hand'[v]) <= Batch
             /\ hand'[w] = <<>> /\ \A v \in Writers \ {w} : hand'[v] = hand[v]
  <2>1. queue' = [queue EXCEPT ![w] = queue[w]]
    BY <1>1, <1>5 DEF TypeOK
  <2> QED  BY <1>1, <1>2, <1>3, <1>4, <2>1, ListsTyped
<1>6. CASE w = "gateway"
  <2>1. lost' = lost \cup GiveUp(w, "db", Elements(h)) /\ queue' = queue /\ backup' = backup
    BY <1>6 DEF FlushError
  <2>2. GiveUp(w, "db", Elements(h)) \subseteq Writers \X Causes \X Events
    BY <1>2, GiveUpTyped DEF Causes
  <2>3. TypeOK'
    BY <1>1, <1>3, <1>5, <2>1, <2>2 DEF TypeOK
  <2>4. Stays("idp") /\ Stays("api")
    BY <1>1, <1>5, <1>6, <2>1, StaysAside
  <2>5. Grows /\ Arrives
    BY <1>3, <2>1 DEF Grows, Arrives
  <2>6. Follows
    BY <1>1, <1>3, <1>5, <1>6, <2>1 DEF Follows
  <2> QED  BY <2>3, <2>4, <2>5, <2>6 DEF AuditStep
<1>7. CASE w = "idp"
  <2> PICK room \in Nat : room = Capacity - Len(queue[w])
    BY <1>2
  <2> PICK f, r : f = Front(h, room) /\ r = Rest(h, room)
    OBVIOUS
  <2>1. /\ f \in Seq(Events) /\ Len(f) <= room /\ Len(f) \in Nat
        /\ r \in Seq(Events) /\ Elements(h) = Elements(f) \cup Elements(r)
    BY <1>2, FrontAndRest
  <2>2. /\ queue' = [queue EXCEPT ![w] = queue[w] \o f]
        /\ lost' = lost \cup GiveUp("idp", "full", Elements(r)) /\ backup' = backup
    BY <1>7 DEF FlushError, Requeue
  <2>3. /\ GiveUp("idp", "full", Elements(r)) \subseteq Writers \X Causes \X Events
        /\ \A e \in Elements(r) : <<"idp", "full", e>> \in GiveUp("idp", "full", Elements(r))
    BY <1>1, <1>2, <2>1, GiveUpTyped DEF Causes
  <2>4. /\ queue[w] \o f \in Seq(Events) /\ Len(queue[w] \o f) <= Capacity
        /\ Elements(queue[w] \o f) = Elements(queue[w]) \cup Elements(f)
    <3>1. /\ queue[w] \o f \in Seq(Events) /\ Len(queue[w] \o f) = Len(queue[w]) + Len(f)
          /\ Elements(queue[w] \o f) = Elements(queue[w]) \cup Elements(f)
      BY <1>2, <2>1, ConcatElements
    <3>2. Len(queue[w]) + Len(f) <= Capacity
      BY <1>1, <1>2, <2>1, RoomIsEnough
    <3> QED  BY <3>1, <3>2
  <2>5. /\ queue' \in [Writers -> Seq(Events)] /\ \A v \in Writers : Len(queue'[v]) <= Capacity
        /\ hand' \in [Writers -> Seq(Events)] /\ \A v \in Writers : Len(hand'[v]) <= Batch
        /\ queue'[w] = queue[w] \o f /\ hand'[w] = <<>>
        /\ \A v \in Writers \ {w} : queue'[v] = queue[v] /\ hand'[v] = hand[v]
    BY <1>1, <1>2, <1>3, <1>4, <2>2, <2>4, ListsTyped
  <2>6. TypeOK'
    BY <1>1, <1>3, <2>2, <2>3, <2>5 DEF TypeOK
  <2>7. Elements(queue'[w]) = Elements(queue[w]) \cup Elements(f)
    BY <2>4, <2>5
  <2>8. Stays("idp")
    BY <1>7, <2>1, <2>2, <2>3, <2>7 DEF Stays, Kept, Out
  <2>9. Stays("api")
    BY <1>1, <1>7, <2>5, StaysAside
  <2>10. Grows /\ Arrives
    BY <1>3, <2>2 DEF Grows, Arrives
  <2>11. Follows
    BY <1>1, <1>3, <1>7, <2>2, <2>5 DEF Follows
  <2> QED  BY <2>6, <2>8, <2>9, <2>10, <2>11 DEF AuditStep
<1>8. CASE w = "api"
  <2>1. BackUp(Elements(h)) /\ queue' = queue
    BY <1>8 DEF FlushError
  <2>2. /\ backup \subseteq backup' /\ backup' \subseteq backup \cup Elements(h)
        /\ lost \subseteq lost' /\ lost' \subseteq Writers \X Causes \X Events
        /\ \A e \in Elements(h) : e \in backup' \/ <<"api", "disk", e>> \in lost'
    BY <1>1, <1>2, <2>1, BackUpTakes
  <2>3. TypeOK'
    BY <1>1, <1>2, <1>3, <1>5, <2>1, <2>2 DEF TypeOK
  <2>4. Stays("idp")
    BY <1>1, <1>5, <1>8, <2>1, StaysAside
  <2>5. Stays("api")
    BY <1>8, <2>1, <2>2 DEF Stays, Kept, Out
  <2>6. Grows /\ Arrives
    BY <1>3, <2>1, <2>2 DEF Grows, Arrives
  <2>7. Follows
    BY <1>1, <1>3, <1>4, <1>5, <1>8, <2>1, <2>2 DEF Follows
  <2> QED  BY <2>3, <2>4, <2>5, <2>6, <2>7 DEF AuditStep
<1> QED  BY <1>6, <1>7, <1>8 DEF Writers

\* close cancels the loop.
LEMMA CancelSteps ==
  ASSUME AuditIInv, NEW w \in Writers, Cancel(w)
  PROVE  AuditStep /\ Follows
<1>1. TypeOK /\ "api" \in Writers /\ "idp" \in Writers /\ "gateway" \in Writers
      /\ Capacity \in Nat /\ Batch \in Nat
  BY AuditNumbers DEF AuditIInv, NothingLost, Writers
<1> PICK h : h = hand[w]
  OBVIOUS
<1>2. /\ queue[w] \in Seq(Events) /\ Len(queue[w]) <= Capacity
      /\ h \in Seq(Events) /\ Elements(h) \subseteq Events
  BY <1>1, WriterTyped
<1>3. /\ Running(w) /\ Goto(w, "drain")
      /\ hand' = [hand EXCEPT ![w] = <<>>]
      /\ UNCHANGED <<emitted, queue, db, posts, accepted, backup, streamed>>
  BY DEF Cancel
<1>4. /\ queue' = [queue EXCEPT ![w] = queue[w]] /\ <<>> \in Seq(Events) /\ Len(<<>>) <= Batch
      /\ Elements(<<>>) = {}
  BY <1>1, <1>3, NothingThere DEF TypeOK
<1>5. /\ queue' \in [Writers -> Seq(Events)] /\ \A v \in Writers : Len(queue'[v]) <= Capacity
      /\ hand' \in [Writers -> Seq(Events)] /\ \A v \in Writers : Len(hand'[v]) <= Batch
      /\ hand'[w] = <<>> /\ \A v \in Writers \ {w} : hand'[v] = hand[v]
  BY <1>1, <1>2, <1>3, <1>4, ListsTyped
<1>6. /\ phase' \in [Writers -> {"collect", "flush", "backoff", "drain", "stopped"}]
      /\ phase'[w] = "drain" /\ \A v \in Writers : Running(v)' => Running(v)
  BY <1>1, <1>3, PhaseTyped, StillRunning
<1>7. /\ stored' \in [Writers -> SUBSET Events] /\ pending' \in [Writers -> SUBSET Events]
      /\ \A v \in Writers : stored[v] \subseteq stored'[v]
      /\ lost \subseteq lost' /\ lost' \subseteq Writers \X Causes \X Events
  <2>1. CASE /\ stored' = [stored EXCEPT ![w] = @ \cup pending[w] \cup Elements(h)]
             /\ pending' = [pending EXCEPT ![w] = {}] /\ lost' = lost
    <3>1. /\ stored' \in [Writers -> SUBSET Events]
          /\ \A v \in Writers : stored[v] \subseteq stored'[v]
      BY <1>1, <1>2, <2>1, StoredTyped
    <3> QED  BY <1>1, <2>1, <3>1 DEF TypeOK
  <2>2. CASE /\ pending' \in {pending, [pending EXCEPT ![w] = @ \cup Elements(h)]}
             /\ lost' = lost \cup GiveUp(w, "stop", Elements(h)) /\ stored' = stored
    <3>1. GiveUp(w, "stop", Elements(h)) \subseteq Writers \X Causes \X Events
      BY <1>2, GiveUpTyped DEF Causes
    <3>2. pending' \in [Writers -> SUBSET Events]
      BY <1>1, <1>2, <2>2, PendingTyped
    <3> QED  BY <1>1, <2>2, <3>1, <3>2 DEF TypeOK
  <2> QED  BY <2>1, <2>2 DEF Cancel
<1>8. TypeOK'
  BY <1>1, <1>3, <1>5, <1>6, <1>7 DEF TypeOK
<1>9. \A v \in Writers : Stays(v)
  <2>1. ~ Running(w)'
    BY <1>6 DEF Running
  <2> QED  BY <1>3, <1>5, <2>1, StaysAside DEF Stays
<1>10. Grows /\ Arrives
  BY <1>3, <1>6, <1>7 DEF Grows, Arrives
<1>11. Follows
  BY <1>1, <1>3, <1>4, <1>5 DEF Follows
<1> QED  BY <1>1, <1>8, <1>9, <1>10, <1>11 DEF AuditStep

\* _drain takes what it writes from the queue.
LEMMA DrainedTyped ==
  ASSUME TypeOK, NEW w \in Writers
  PROVE  /\ Drained(w) \in Seq(Events) /\ Len(Drained(w)) \in Nat
         /\ Len(Drained(w)) <= Capacity + Batch
         /\ Elements(Drained(w)) \subseteq Elements(queue[w])
         /\ Elements(Drained(w)) \subseteq Events
<1>1. /\ queue[w] \in Seq(Events) /\ Len(queue[w]) <= Capacity /\ Len(queue[w]) \in Nat
      /\ Elements(queue[w]) \subseteq Events /\ Capacity \in Nat /\ Batch \in Nat
  BY WriterTyped, AuditNumbers
<1>2. CASE w = "gateway"
  <2>1. /\ Front(queue[w], Batch) \in Seq(Events) /\ Len(Front(queue[w], Batch)) <= Batch
        /\ Len(Front(queue[w], Batch)) \in Nat
        /\ Elements(Front(queue[w], Batch)) \subseteq Elements(queue[w])
    BY <1>1, FrontAndRest
  <2>2. Len(Front(queue[w], Batch)) <= Capacity + Batch
    BY <1>1, <2>1, Bounds
  <2>3. Drained(w) = Front(queue[w], Batch)
    BY <1>2 DEF Drained
  <2> QED  BY <1>1, <2>1, <2>2, <2>3
<1>3. CASE w # "gateway"
  <2>1. Len(queue[w]) <= Capacity + Batch
    BY <1>1, Bounds
  <2>2. Drained(w) = queue[w]
    BY <1>3 DEF Drained
  <2> QED  BY <1>1, <2>1, <2>2
<1> QED  BY <1>2, <1>3

\* A stopping writer drains its queue.
LEMMA DrainSteps ==
  ASSUME AuditIInv, NEW w \in Writers, Drain(w)
  PROVE  AuditStep /\ Follows
<1>1. TypeOK /\ "api" \in Writers /\ "idp" \in Writers /\ "gateway" \in Writers
      /\ Capacity \in Nat /\ Batch \in Nat
  BY AuditNumbers DEF AuditIInv, NothingLost, Writers
<1> PICK b, r : b = Drained(w) /\ r = Rest(queue[w], Len(b))
  OBVIOUS
<1>2. /\ b \in Seq(Events) /\ Len(b) \in Nat /\ Len(b) <= Capacity + Batch
      /\ Elements(b) \subseteq Elements(queue[w]) /\ Elements(b) \subseteq Events
  BY <1>1, DrainedTyped
<1>3. /\ queue[w] \in Seq(Events) /\ Len(queue[w]) <= Capacity /\ Len(queue[w]) \in Nat
      /\ hand[w] \in Seq(Events) /\ Len(hand[w]) <= Batch
  BY <1>1, WriterTyped
<1>4. /\ r \in Seq(Events) /\ Len(r) <= Len(queue[w]) /\ Len(r) \in Nat
      /\ Elements(r) \subseteq Elements(queue[w])
  BY <1>2, <1>3, FrontAndRest
<1>5. /\ phase[w] = "drain"
      /\ queue' = [queue EXCEPT ![w] = r]
      /\ UNCHANGED <<emitted, hand, phase, db, accepted>>
      /\ posts' \in IF w = "gateway" \/ (w = "idp" /\ stored' # stored)
                      THEN {posts, posts \cup {b}} ELSE {posts}
  BY DEF Drain
<1>6. hand' = [hand EXCEPT ![w] = hand[w]]
  BY <1>1, <1>5 DEF TypeOK
<1>7. Len(r) <= Capacity
  BY <1>1, <1>3, <1>4
<1>8. /\ queue' \in [Writers -> Seq(Events)] /\ \A v \in Writers : Len(queue'[v]) <= Capacity
      /\ queue'[w] = r /\ \A v \in Writers \ {w} : queue'[v] = queue[v]
  BY <1>1, <1>3, <1>4, <1>5, <1>6, <1>7, ListsTyped
<1>9. /\ stored' \in [Writers -> SUBSET Events] /\ pending' \in [Writers -> SUBSET Events]
      /\ \A v \in Writers : stored[v] \subseteq stored'[v]
      /\ stored' # stored => Elements(b) \subseteq stored'[w]
      /\ lost \subseteq lost' /\ lost' \subseteq Writers \X Causes \X Events
      /\ backup \subseteq backup' /\ backup' \subseteq backup \cup (IF w = "api" THEN Elements(b) ELSE {})
      /\ \/ streamed' = streamed
         \/ w = "api" /\ streamed' = streamed \cup Elements(b) /\ Elements(b) \subseteq stored'[w]
  <2>1. CASE /\ stored' = [stored EXCEPT ![w] = @ \cup pending[w] \cup Elements(b)]
             /\ pending' = [pending EXCEPT ![w] = {}]
             /\ streamed' = IF w = "api" THEN streamed \cup Elements(b) ELSE streamed
             /\ backup' = backup /\ lost' = lost
    <3>1. /\ stored' \in [Writers -> SUBSET Events] /\ Elements(b) \subseteq stored'[w]
          /\ \A v \in Writers : stored[v] \subseteq stored'[v]
      BY <1>1, <1>2, <2>1, StoredTyped
    <3>2. pending' \in [Writers -> SUBSET Events] /\ lost' \subseteq Writers \X Causes \X Events
      BY <1>1, <2>1 DEF TypeOK
    <3> QED  BY <2>1, <3>1, <3>2
  <2>2. CASE /\ stored' = stored /\ pending' = pending /\ streamed' = streamed
             /\ w = "api" /\ BackUp(Elements(b))
    <3>1. /\ backup \subseteq backup' /\ backup' \subseteq backup \cup Elements(b)
          /\ lost \subseteq lost' /\ lost' \subseteq Writers \X Causes \X Events
      BY <1>1, <1>2, <2>2, BackUpTakes
    <3> QED  BY <1>1, <2>2, <3>1 DEF TypeOK
  <2>3. CASE /\ stored' = stored /\ pending' = pending /\ streamed' = streamed
             /\ lost' = lost \cup GiveUp(w, "db", Elements(b)) /\ backup' = backup
    <3>1. GiveUp(w, "db", Elements(b)) \subseteq Writers \X Causes \X Events
      BY <1>2, GiveUpTyped DEF Causes
    <3> QED  BY <1>1, <2>3, <3>1 DEF TypeOK
  <2> QED  BY <2>1, <2>2, <2>3 DEF Drain
<1>10. TypeOK'
  <2>1. \A c \in posts' : c \in Seq(Events) /\ Len(c) <= Capacity + Batch
    BY <1>1, <1>2, <1>5 DEF TypeOK
  <2>2. streamed' \subseteq Events /\ backup' \subseteq Events
    BY <1>1, <1>2, <1>9 DEF TypeOK
  <2> QED  BY <1>1, <1>5, <1>8, <1>9, <2>1, <2>2 DEF TypeOK
<1>11. \A v \in Writers : Stays(v)
  <2>1. ~ Running(w)'
    BY <1>5 DEF Running
  <2> QED  BY <1>5, <1>8, <2>1, StaysAside DEF Stays
<1>12. Grows /\ Arrives
  BY <1>5, <1>9 DEF Grows, Arrives, Running
<1>13. Follows
  <2>1. \A v \in Writers : Elements(queue'[v]) \subseteq Elements(queue[v])
    BY <1>4, <1>8
  <2>2. \A c \in posts' \ posts : \A e \in Elements(c) :
           e \in Elements(queue["gateway"]) \/ e \in stored'["idp"]
    BY <1>2, <1>5, <1>9
  <2>3. \A e \in backup' : e \in backup \/ e \in Elements(queue["api"])
    BY <1>2, <1>9
  <2>4. streamed' \ streamed \subseteq stored'["api"]
    BY <1>9
  <2> QED  BY <1>1, <1>5, <2>1, <2>2, <2>3, <2>4 DEF Follows
<1> QED  BY <1>1, <1>10, <1>11, <1>12, <1>13 DEF AuditStep

-----------------------------------------------------------------------------
(***************************************************************************)
(* Every behaviour                                                         *)
(***************************************************************************)

\* Empty queues and empty tables.
LEMMA AuditInitIInv == Init => AuditIInv
<1> SUFFICES ASSUME Init PROVE AuditIInv
  OBVIOUS
<1>1. /\ Capacity \in Nat /\ Batch \in Nat /\ Elements(<<>>) = {}
      /\ "api" \in Writers /\ "gateway" \in Writers
  BY AuditNumbers, NothingThere DEF Writers
<1>2. TypeOK
  <2>1. queue = [w \in Writers |-> <<>>] /\ hand = [w \in Writers |-> <<>>]
    BY DEF Init
  <2>2. /\ <<>> \in Seq(Events) /\ Len(<<>>) <= Capacity /\ Len(<<>>) <= Batch
    BY <1>1, NothingThere
  <2>3. /\ queue \in [Writers -> Seq(Events)] /\ \A w \in Writers : Len(queue[w]) <= Capacity
        /\ hand \in [Writers -> Seq(Events)] /\ \A w \in Writers : Len(hand[w]) <= Batch
    BY <2>1, <2>2
  <2> QED  BY <2>3 DEF Init, TypeOK
<1>3. IdpKeepsEvents /\ AcceptedIsKept /\ StreamedIsStored
  BY DEF Init, IdpKeepsEvents, OfIdp, AcceptedIsKept, StreamedIsStored
<1>4. SourcesFirst
  BY <1>1 DEF Init, SourcesFirst, Backed
<1> QED  BY <1>2, <1>3, <1>4 DEF AuditIInv, NothingLost

\* Every step keeps the invariant.
LEMMA AuditNextIInv == AuditIInv /\ [Next]_vars => AuditIInv'
<1> SUFFICES ASSUME AuditIInv, [Next]_vars PROVE AuditIInv'
  OBVIOUS
<1>1. AuditStep /\ Follows
  <2>1. ASSUME NEW e \in Events, Emit(e) PROVE AuditStep /\ Follows
    BY <2>1, EmitSteps
  <2>2. ASSUME NEW b \in posts, Deliver(b) PROVE AuditStep /\ Follows
    BY <2>2, DeliverSteps
  <2>3. ASSUME NEW b \in posts, LosePost(b) PROVE AuditStep /\ Follows
    BY <2>3, LosePostSteps
  <2>4. ASSUME NEW w \in Writers, Loop(w) PROVE AuditStep /\ Follows
    <3>1. CASE TakeBatch
      BY <3>1, TakeBatchSteps
    <3>2. CASE Collect(w)
      BY <3>2, CollectSteps
    <3>3. CASE Begin(w)
      BY <3>3, QuietSteps
    <3>4. CASE Commit(w)
      BY <3>4, CommitSteps
    <3>5. CASE FlushError(w)
      BY <3>5, FlushErrorSteps
    <3> QED  BY <2>4, <3>1, <3>2, <3>3, <3>4, <3>5 DEF Loop
  <2>5. ASSUME NEW w \in Writers, Cancel(w) PROVE AuditStep /\ Follows
    BY <2>5, CancelSteps
  <2>6. ASSUME NEW w \in Writers, Drain(w) PROVE AuditStep /\ Follows
    BY <2>6, DrainSteps
  <2>7. ASSUME NEW w \in Writers, Close(w) \/ Recover(w) PROVE AuditStep /\ Follows
    BY <2>7, QuietSteps
  <2>8. CASE Resume \/ UNCHANGED vars
    <3>1. "idp" \in Writers
      BY DEF Writers
    <3> QED  BY <2>8, <3>1, QuietSteps
  <2> QED  BY <2>1, <2>2, <2>3, <2>4, <2>5, <2>6, <2>7, <2>8 DEF Next
<1>2. NothingLost'
  BY <1>1, StepsKeep DEF AuditIInv
<1>3. SourcesFirst' /\ StreamedIsStored'
  BY <1>1, StepsFollow DEF AuditStep
<1> QED  BY <1>2, <1>3 DEF AuditIInv

\* The properties of the copies in it.
LEMMA AuditIInvImplies == AuditIInv => NothingLost /\ CopiesFollow
  BY DEF AuditIInv, CopiesFollow, CentralFollowsIdp, OfIdp, SourcesFirst, Backed

\* The audit trail keeps the inductive invariant.
THEOREM AuditInvariant == Spec => []AuditIInv
  BY AuditInitIInv, AuditNextIInv, PTL DEF Spec

\* Neither the IdP's writer nor the audit API's loses an event that it took without
\* saying so, whatever fails, is queued again or is backed up in between.
THEOREM NothingIsLost == Spec => []NothingLost
  BY AuditInvariant, AuditIInvImplies, PTL

\* What the audit API has of the IdP's events is in the IdP's table, and what it streams
\* is in its own (writer.py _flush of either: commit first, then forward or broadcast).
THEOREM CopiesAlwaysFollow == Spec => []CopiesFollow
  BY AuditInvariant, AuditIInvImplies, PTL
==============================================================================
