---------------------------- MODULE TokenExchange ----------------------------
(***************************************************************************)
(* POST /token/exchange at the IdP (infra/idp/token_exchange/handler.py):  *)
(* an agent's signed assertion, a user's token and a DPoP proof become a   *)
(* delegated token.  The revocations the handler looks up are those of     *)
(* module Revocation, whose handlers run at the same time.                 *)
(*                                                                         *)
(* Every await of the handler (a row of SQLite, a command of Redis) is a   *)
(* value of pc; what runs between two awaits is one action.  Signatures,   *)
(* capabilities and scopes are the verdicts they give: a check whose       *)
(* outcome the properties do not depend on may go either way.              *)
(***************************************************************************)
EXTENDS Revocation

CONSTANTS
  Requests,      \* requests to /token/exchange
  Items,         \* the assertions and the proofs that clients signed
  ItemOf,        \* of each request, its assertion and its proof
  IatOf,         \* when the client's clock says an item was made
  LifeOf,        \* exp - iat of an assertion, NoExp if it has no exp
  Identity,      \* of each request, its agent, its user token's jti and sub
  MaxLife,       \* longest assertion accepted (600 s)
  Leeway,        \* tolerance on an assertion's exp (30 s)
  MaxSkew,       \* tolerance on a proof's iat (MAX_SKEW_SEC)
  MarkerTtl,     \* life of the two replay markers (ASSERTION_/DPOP_JTI_TTL_SEC)
  Window, Limit  \* of the two call counters (60 s; 200 or max_calls_per_minute)

Guards == {"assertion", "dpop"}
Counters == {"user", "agent"}
Dimensions == {"agents", "jtis", "subs"}

NoExp == -1

ASSUME ExchangeAssumption ==
  /\ ItemOf \in [Requests -> [Guards -> Items]]
  /\ \A r, q \in Requests : ItemOf[r]["assertion"] # ItemOf[q]["dpop"]
  /\ IatOf \in [Items -> Int]
  /\ LifeOf \in [Items -> Nat \cup {NoExp}]
  /\ \A r \in Requests : DOMAIN Identity[r] = Dimensions
  /\ MaxLife \in Nat /\ Leeway \in Nat /\ MaxSkew \in Nat
  /\ MarkerTtl \in [Guards -> Nat \ {0}]
  /\ Window \in Nat \ {0} /\ Limit \in Nat \ {0}

VARIABLES
  pc,
  marker,      \* when the replay marker of an item expires (0: none)
  count,       \* the two counters of Redis, which all requests share,
  windowEnd,   \* and when they expire
  trail,       \* the records that reached the audit queue
  \* History.
  checkedAt,   \* when a request waiting for a marker had its item's times checked
  acceptedAt,  \* when an item was last accepted
  reuses,      \* how long after, and with what slack, an item was accepted again
  hits,        \* when a request incremented a counter, and whether it passed
  answered     \* the revocations that were answered before a request arrived

evars == <<pc, marker, count, windowEnd, trail, checkedAt, acceptedAt, reuses,
           hits, answered>>

vars == <<rvars, evars>>

Hit == [req : Requests, at : 0..MaxTime, ok : BOOLEAN]

ExchangeTypeOK ==
  /\ RevocationTypeOK
  /\ pc \in [Requests -> {"new", "row", "assertion", "dpop", "perms", "user", "agent",
                          "issued", "refused", "failed"} \cup Dimensions]
  /\ marker \in [Items -> Nat]
  /\ count \in [Counters -> Nat]
  /\ windowEnd \in [Counters -> Nat]
  /\ trail \subseteq {"issue", "deny"} \X Requests
  /\ checkedAt \in [Requests -> 0..MaxTime]
  /\ acceptedAt \in [Items -> 0..MaxTime \cup {Never}]
  /\ reuses \subseteq [item : Items, guard : Guards, gap : Int, stall : 0..MaxTime,
                       lead : Int]
  /\ hits \in [Counters -> SUBSET Hit]
  /\ answered \in [Requests -> SUBSET Revokes]

ExchangeInit ==
  /\ RevocationInit
  /\ pc = [r \in Requests |-> "new"]
  /\ marker = [i \in Items |-> 0]
  /\ count = [c \in Counters |-> 0]
  /\ windowEnd = [c \in Counters |-> 0]
  /\ trail = {}
  /\ checkedAt = [r \in Requests |-> 0]
  /\ acceptedAt = [i \in Items |-> Never]
  /\ reuses = {}
  /\ hits = [c \in Counters |-> {}]
  /\ answered = [r \in Requests |-> {}]

Goto(r, S) == \E to \in S : pc' = [pc EXCEPT ![r] = to]

\* A refusal that is answered with 403 or more leaves a record.
Deny(r) == Goto(r, {"refused"}) /\ trail' = trail \cup {<<"deny", r>>}

-----------------------------------------------------------------------------
(***************************************************************************)
(* The two replay guards.                                                  *)
(***************************************************************************)

\* python-jose accepts an assertion until exp + Leeway and does not look at its
\* iat; the handler bounds its life.  Neither asks for an exp: one that is left
\* out counts as 0, passes for a short life, and never goes stale.
AssertionTimely(i) ==
  \/ LifeOf[i] = NoExp
  \/ now <= IatOf[i] + LifeOf[i] + Leeway /\ LifeOf[i] <= MaxLife

\* A proof's iat may be off by MaxSkew either way.
Timely(g, i) ==
  IF g = "assertion" THEN AssertionTimely(i)
                     ELSE now - IatOf[i] \in -MaxSkew..MaxSkew

\* setnx_with_ttl (SET NX EX) on the item's key, some time after the check.
Marked(i) == now < marker[i]

\* Faulty variant: the two TTLs exchanged.
SetMarkerSwapped(g, i) ==
  marker' = [marker EXCEPT ![i] = now + MarkerTtl[CHOOSE h \in Guards : h # g]]

SetMarker(g, i) == marker' = [marker EXCEPT ![i] = now + MarkerTtl[g]]

Accept(r, g) ==
  LET i == ItemOf[r][g] IN
  /\ ~Marked(i)
  /\ SetMarker(g, i)
  /\ acceptedAt' = [acceptedAt EXCEPT ![i] = now]
  /\ reuses' = IF acceptedAt[i] = Never THEN reuses
               ELSE reuses \cup {[item |-> i, guard |-> g, gap |-> now - acceptedAt[i],
                                  stall |-> now - checkedAt[r],
                                  lead |-> IatOf[i] - acceptedAt[i]]}

Replay(r, g) ==
  /\ Marked(ItemOf[r][g])
  /\ Goto(r, {"refused"})
  /\ UNCHANGED <<marker, acceptedAt, reuses>>

\* Redis sets the marker and the answer is lost.
Spoil(r, g) ==
  /\ ~Marked(ItemOf[r][g])
  /\ SetMarker(g, ItemOf[r][g])
  /\ Goto(r, {"failed"})
  /\ UNCHANGED <<acceptedAt, reuses>>

-----------------------------------------------------------------------------
(***************************************************************************)
(* incr_with_window: INCR and EXPIRE NX in one transaction.                *)
(***************************************************************************)
\* Faulty variant: a counter that outlives its window.
CountedLate(c) == IF now <= windowEnd[c] /\ count[c] > 0 THEN count[c] + 1 ELSE 1

Counted(c) == IF now < windowEnd[c] THEN count[c] + 1 ELSE 1

WindowAfter(c) == IF now < windowEnd[c] THEN windowEnd[c] ELSE now + Window

Increment(r, c) ==
  /\ count' = [count EXCEPT ![c] = Counted(c)]
  /\ windowEnd' = [windowEnd EXCEPT ![c] = WindowAfter(c)]
  /\ hits' = [hits EXCEPT ![c] = @ \cup {[req |-> r, at |-> now, ok |-> Counted(c) <= Limit]}]

-----------------------------------------------------------------------------
(***************************************************************************)
(* The handler.                                                            *)
(***************************************************************************)

\* The form is parsed; the assertion's kid goes to SQLite.
Arrive(r) ==
  /\ pc[r] = "new"
  /\ Goto(r, {"row"})
  /\ answered' = [answered EXCEPT ![r] = {v \in Revokes : rpc[v] = "done"}]
  /\ UNCHANGED <<rvars, marker, count, windowEnd, trail, checkedAt, acceptedAt, reuses, hits>>

\* The agent's row is there: verify the assertion as far as its replay marker.
VerifyAssertion(r) ==
  /\ pc[r] = "row"
  /\ \/ Goto(r, {"refused"}) /\ UNCHANGED checkedAt
     \/ /\ Timely("assertion", ItemOf[r]["assertion"])
        /\ Goto(r, {"assertion"})
        /\ checkedAt' = [checkedAt EXCEPT ![r] = now]
  /\ UNCHANGED <<rvars, marker, count, windowEnd, trail, acceptedAt, reuses, hits, answered>>

MarkAssertion(r) ==
  /\ pc[r] = "assertion"
  /\ \/ Replay(r, "assertion")
     \/ Spoil(r, "assertion")
     \/ Accept(r, "assertion") /\ Goto(r, {"agents"})
  /\ UNCHANGED <<rvars, count, windowEnd, trail, checkedAt, hits, answered>>

\* Faulty variant: the subject is not looked up.
LookUpTwo(r) ==
  /\ pc[r] \in Dimensions
  /\ \/ Goto(r, {"refused"}) /\ UNCHANGED checkedAt
     \/ /\ pc[r] = "agents" /\ Identity[r]["agents"] \notin members
        /\ Goto(r, {"jtis"}) /\ UNCHANGED checkedAt
     \/ /\ pc[r] = "jtis" /\ Identity[r]["jtis"] \notin members
        /\ Timely("dpop", ItemOf[r]["dpop"])
        /\ Goto(r, {"dpop"}) /\ checkedAt' = [checkedAt EXCEPT ![r] = now]
  /\ UNCHANGED <<rvars, marker, count, windowEnd, trail, acceptedAt, reuses, hits, answered>>

\* Look the agent up among the revoked, then (the user's token being valid) its
\* jti, then its subject; after the last one verify the proof as far as its
\* marker.
LookUp(r) ==
  /\ pc[r] \in Dimensions
  /\ \/ Goto(r, {"refused"}) /\ UNCHANGED checkedAt
     \/ /\ Identity[r][pc[r]] \notin members
        /\ pc[r] # "subs"
        /\ Goto(r, {IF pc[r] = "agents" THEN "jtis" ELSE "subs"})
        /\ UNCHANGED checkedAt
     \/ /\ Identity[r][pc[r]] \notin members
        /\ pc[r] = "subs"
        /\ Timely("dpop", ItemOf[r]["dpop"])
        /\ Goto(r, {"dpop"})
        /\ checkedAt' = [checkedAt EXCEPT ![r] = now]
  /\ UNCHANGED <<rvars, marker, count, windowEnd, trail, acceptedAt, reuses, hits, answered>>

\* The proof's marker, then everything up to the user's row: a malformed scope
\* or an unknown callee is a 400 and leaves no record, the rules of delegation
\* and of the executor answer with 403.
MarkProof(r) ==
  /\ pc[r] = "dpop"
  /\ \/ Replay(r, "dpop") /\ UNCHANGED trail
     \/ Spoil(r, "dpop") /\ UNCHANGED trail
     \/ Accept(r, "dpop") /\ Goto(r, {"perms", "refused"}) /\ UNCHANGED trail
     \/ Accept(r, "dpop") /\ Deny(r)
  /\ UNCHANGED <<rvars, count, windowEnd, checkedAt, hits, answered>>

\* The user's permissions are there: intersect, and no writing before 06:00.
Intersect(r) ==
  /\ pc[r] = "perms"
  /\ \/ Goto(r, {"user"}) /\ UNCHANGED trail
     \/ Deny(r)
  /\ UNCHANGED <<rvars, marker, count, windowEnd, checkedAt, acceptedAt, reuses, hits, answered>>

\* The user's counter, then the source network.
CountUser(r) ==
  /\ pc[r] = "user"
  /\ Increment(r, "user")
  /\ \/ Counted("user") <= Limit /\ Goto(r, {"agent"}) /\ UNCHANGED trail
     \/ Deny(r)
     \/ Goto(r, {"failed"}) /\ UNCHANGED trail
  /\ UNCHANGED <<rvars, marker, checkedAt, acceptedAt, reuses, answered>>

\* Faulty variant: a record for 403 only, not for 429.
CountAgentUnrecorded(r) ==
  /\ pc[r] = "agent"
  /\ Increment(r, "agent")
  /\ \/ /\ Counted("agent") <= Limit
        /\ Goto(r, {"issued"})
        /\ trail' = trail \cup {<<"issue", r>>}
     \/ Counted("agent") > Limit /\ Goto(r, {"refused"}) /\ UNCHANGED trail
     \/ Goto(r, {"failed"}) /\ UNCHANGED trail
  /\ UNCHANGED <<rvars, marker, checkedAt, acceptedAt, reuses, answered>>

\* The counter of the agent and the action; then sign, record and answer.
CountAgent(r) ==
  /\ pc[r] = "agent"
  /\ Increment(r, "agent")
  /\ \/ /\ Counted("agent") <= Limit
        /\ Goto(r, {"issued"})
        /\ trail' = trail \cup {<<"issue", r>>}
     \/ Counted("agent") > Limit /\ Deny(r)
     \/ Goto(r, {"failed"}) /\ UNCHANGED trail
  /\ UNCHANGED <<rvars, marker, checkedAt, acceptedAt, reuses, answered>>

\* SQLite or Redis fails before the command is executed: a 500, no record.
Error(r) ==
  /\ pc[r] \notin {"new", "issued", "refused", "failed"}
  /\ Goto(r, {"failed"})
  /\ UNCHANGED <<rvars, marker, count, windowEnd, trail, checkedAt, acceptedAt, reuses,
                 hits, answered>>

Exchange(r) ==
  \/ Arrive(r) \/ VerifyAssertion(r) \/ MarkAssertion(r) \/ LookUp(r) \/ MarkProof(r)
  \/ Intersect(r) \/ CountUser(r) \/ CountAgent(r) \/ Error(r)

ExchangeNext ==
  \/ \E r \in Requests : Exchange(r)
  \/ RevocationNext /\ UNCHANGED evars

ExchangeSpec == ExchangeInit /\ [][ExchangeNext]_vars

-----------------------------------------------------------------------------
(***************************************************************************)
(* Properties.                                                             *)
(***************************************************************************)

\* How long after its iat an item can still be found timely.
Timeliness == [assertion |-> MaxLife + Leeway, dpop |-> MaxSkew]

\* Whether an item goes stale: an assertion without exp does not.
Perishable(g, i) == g = "assertion" => LifeOf[i] # NoExp

\* An assertion or a proof is accepted a second time only after the life of its
\* marker.  That is too late for an item that goes stale, unless a client's
\* clock that is ahead and a request held up between the check and the marker
\* make up in all for what the marker outlives the item's window by (30 s for
\* an assertion, 60 s for a proof).  For an assertion without exp nothing else
\* is needed: assertion.py:58-61 lets it pass at any time, so it is good for
\* another use every 660 s.
ReuseNeedsSlack ==
  \A u \in reuses :
    /\ u.gap >= MarkerTtl[u.guard]
    /\ Perishable(u.guard, u.item) =>
         u.lead + u.stall >= MarkerTtl[u.guard] - Timeliness[u.guard]

\* No token for an agent, a user's token or a user whose revocation was
\* answered before the request arrived and still holds, except for the
\* revocations that RevocationStands excludes.
RevokedGetsNoToken ==
  \A r \in Requests : pc[r] = "issued" =>
    \A v \in answered[r] \ disturbed :
      InForce(v) => \A d \in Dimensions : Identity[r][d] # rmember[v]

\* No window of the counter's length, wherever it starts, sees more than twice
\* the limit pass (the counter's own windows are fixed, so once is too little).
QuotaHeld ==
  \A c \in Counters, t \in 0..MaxTime :
    Cardinality({h \in hits[c] : h.ok /\ h.at \in t..t + Window - 1}) <= 2 * Limit

\* Nobody is turned away unless the limit has passed within the last window.
QuotaFair ==
  \A c \in Counters : \A h \in hits[c] : ~h.ok =>
    Cardinality({k \in hits[c] : k.ok /\ k.at \in h.at - Window + 1..h.at}) >= Limit

\* A counter keeps to its type and errs on neither side by more than its fixed windows
\* explain, though requests count concurrently and answers of Redis get lost (rate_limit.py).
QuotasHold == ExchangeTypeOK /\ QuotaHeld /\ QuotaFair

\* A request that spent some of a quota and was answered has left a record of
\* that answer, and of no other.
SpentLeavesRecord ==
  \A r \in Requests, c \in Counters : \A h \in hits[c] : h.req = r =>
    /\ <<"issue", r>> \in trail <=> pc[r] = "issued"
    /\ <<"deny", r>> \in trail <=> pc[r] = "refused"
=============================================================================
