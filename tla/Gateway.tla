------------------------------ MODULE Gateway ------------------------------
(***************************************************************************)
(* A request's way through the gateway: authn_middleware, the rate         *)
(* limiter's verdict, then the route: /a2a/invoke (delegation, OPA,        *)
(* one-shot consumption, upstream call, audit) or /a2a/plan/submit         *)
(* (one-shot consumption only).                                            *)
(*                                                                         *)
(* A request is a coroutine.  It runs without interruption between two     *)
(* awaits, so each action below is the code from one await's answer to the *)
(* next await; any number of other requests, and time, move in between.    *)
(* Redis runs one command at a time; a key with a TTL is a map to the time *)
(* at which it disappears.                                                 *)
(*                                                                         *)
(* Abstractions.  Every token carries the four claims that are looked up.  *)
(* The token bucket, the breaker and the plan executor have modules of     *)
(* their own (RateLimit, CircuitBreaker, PlanExec); here they are the      *)
(* verdicts they can give.                                                 *)
(***************************************************************************)
EXTENDS Integers, FiniteSets, Sequences

CONSTANTS
  Requests,     \* HTTP requests; a retry or a duplicate is another request
  Tokens,       \* delegated tokens, by jti
  Proofs,       \* DPoP proofs, by jti
  TokenOf,      \* TokenOf[r]: the token request r carries
  ProofOf,      \* ProofOf[r]: the DPoP proof request r carries
  RouteOf,      \* RouteOf[r]: "invoke" or "plan"
  Exp,          \* Exp[t]: the exp claim of the token
  Iat,          \* Iat[p]: the iat claim of the proof
  Leeway,       \* leeway of jwt.decode in authn_middleware
  MaxSkew,      \* settings.dpop_max_iat_skew
  DpopTtl,      \* settings.dpop_jti_ttl
  MaxTime,      \* bound on the clock
  MaxRevocations \* bound on the number of revocations that stand at a time

ASSUME GatewayAssumption ==
  /\ TokenOf \in [Requests -> Tokens]
  /\ ProofOf \in [Requests -> Proofs]
  /\ RouteOf \in [Requests -> {"invoke", "plan"}]
  /\ Exp \in [Tokens -> Nat]
  /\ Iat \in [Proofs -> Nat]
  /\ Leeway \in Nat /\ MaxSkew \in Nat /\ DpopTtl \in Nat \ {0}
  /\ MaxTime \in Nat /\ MaxRevocations \in Nat

VARIABLES
  clock,      \* time.time()
  pc,         \* where each request is
  looks,      \* the number of SISMEMBERs it has had an answer to
  readAt,     \* the clock when a request began to wait at "guard" or "consume"
  result,     \* the error code, or "ok", a finished request was answered with
  usedUntil,  \* Redis jti:used:<jti>: when the key expires, 0 if never set
  dpopUntil,  \* Redis dpop:jti:<jti>: when the key expires, 0 if never set
  revoked,    \* Redis revoked:* : the <<token, dimension>> pairs in the sets
  log,        \* audit events emitted: <<request, kind>>
  \* history variables
  accepts,    \* proofs accepted by the replay guard: [req, proof, at, verified]
  uses,       \* tokens consumed: [req, token, time, against], the last being
              \* the dimensions in which the token stood revoked by then
  overtaken,  \* <<request, dimension>>: revoked after the request had looked
  reached     \* <<request, "approved" or "called">>: OPA's yes, the agent's call

redis == <<usedUntil, dpopUntil, revoked>>
history == <<accepts, uses, overtaken, reached>>
vars == <<clock, pc, looks, readAt, result, redis, log, history>>

Dimensions == {"jti", "sub", "trace", "plan", "agent", "chain"}

\* Faulty variant: one lookup forgotten.
ThreeLookups == <<"jti", "sub", "trace">>

\* The sets authn_middleware looks into, in its order.
Lookups == <<"jti", "sub", "trace", "plan">>

Looked(r, d) == \E i \in 1 .. looks[r] : Lookups[i] = d

Steps == {"idle", "revocation", "guard", "authz", "consume", "call", "done"}

Results == {"none", "ok", "AUTHN_TOKEN_INVALID", "AUTHN_REVOKED",
            "AUTHN_DPOP_INVALID", "SERVER_ERROR", "REFUSED",
            "AUTHZ_SCOPE_EXCEEDED", "TOKEN_REPLAYED", "UPSTREAM_FAIL"}

Kinds == {"allow", "deny", "token_consumed"}

TypeOK ==
  /\ clock \in 0 .. MaxTime
  /\ pc \in [Requests -> Steps]
  /\ looks \in [Requests -> Nat]
  /\ readAt \in [Requests -> 0 .. MaxTime]
  /\ result \in [Requests -> Results]
  /\ usedUntil \in [Tokens -> Nat]
  /\ dpopUntil \in [Proofs -> Nat]
  /\ revoked \in SUBSET (Tokens \X Dimensions)
  /\ log \in SUBSET (Requests \X Kinds)
  /\ accepts \in SUBSET
       [req : Requests, proof : Proofs, at : Nat, verified : Nat]
  /\ uses \in SUBSET [req : Requests, token : Tokens, time : Nat,
                      against : SUBSET Dimensions]
  /\ overtaken \in SUBSET (Requests \X Dimensions)
  /\ reached \in SUBSET (Requests \X {"approved", "called"})

Init ==
  /\ clock = 0
  /\ pc = [r \in Requests |-> "idle"]
  /\ looks = [r \in Requests |-> 0]
  /\ readAt = [r \in Requests |-> 0]
  /\ result = [r \in Requests |-> "none"]
  /\ usedUntil = [t \in Tokens |-> 0]
  /\ dpopUntil = [p \in Proofs |-> 0]
  /\ revoked = {}
  /\ log = {}
  /\ accepts = {}
  /\ uses = {}
  /\ overtaken = {}
  /\ reached = {}

-----------------------------------------------------------------------------
\* r moves from one await to the next; the await at "revocation" is a lookup.
Goto(r, from, to) ==
  /\ pc[r] = from
  /\ pc' = [pc EXCEPT ![r] = to]
  /\ looks' = [looks EXCEPT ![r] = IF from = "revocation" THEN @ + 1 ELSE @]
  /\ readAt' = [readAt EXCEPT ![r] =
                  IF to \in {"guard", "consume"} THEN clock ELSE 0]
  /\ UNCHANGED <<clock, result>>

\* r is answered.
Answer(r, from, code) ==
  /\ pc[r] = from
  /\ pc' = [pc EXCEPT ![r] = "done"]
  /\ looks' = [looks EXCEPT ![r] = 0]
  /\ readAt' = [readAt EXCEPT ![r] = 0]
  /\ result' = [result EXCEPT ![r] = code]
  /\ UNCHANGED clock

Emit(r, kind) == log' = log \cup {<<r, kind>>}

Reach(r, stage) == reached' = reached \cup {<<r, stage>>}

RevokedDims(t) == {d \in Dimensions : <<t, d>> \in revoked}

-----------------------------------------------------------------------------
(***************************************************************************)
(* authn_middleware, and the way into the route.                           *)
(***************************************************************************)
\* jwt.decode accepts a token until leeway after its exp.  Nothing shared is
\* read before it, so arrival and decoding are one step.
Arrive(r) ==
  /\ \/ /\ clock < Exp[TokenOf[r]] + Leeway
        /\ Goto(r, "idle", "revocation")
     \/ /\ clock >= Exp[TokenOf[r]] + Leeway
        /\ Answer(r, "idle", "AUTHN_TOKEN_INVALID")
  /\ UNCHANGED <<redis, log, history>>

\* Faulty variant: iat may lie on either side of the clock, as in the code's own
\* test taken by itself.
FreshEitherSide(p) == clock - Iat[p] <= MaxSkew /\ Iat[p] - clock <= MaxSkew

\* verify_dpop: the code's own test allows iat on both sides of now, the
\* jwt.decode before it rejects an iat in the future.
Fresh(p) == clock >= Iat[p] /\ clock - Iat[p] <= MaxSkew

\* The answer to a SISMEMBER, and, after the last one, verify_dpop; a Redis error
\* is answered with 503.
CheckRevocation(r) ==
  LET t == TokenOf[r]
      d == Lookups[looks[r] + 1]
      last == looks[r] + 1 = Len(Lookups)
  IN
  /\ pc[r] = "revocation"
  /\ \/ /\ <<t, d>> \in revoked
        /\ Answer(r, "revocation", "AUTHN_REVOKED")
     \/ /\ <<t, d>> \notin revoked /\ ~last
        /\ Goto(r, "revocation", "revocation")
     \/ /\ <<t, d>> \notin revoked /\ last
        /\ ~Fresh(ProofOf[r])
        /\ Answer(r, "revocation", "AUTHN_DPOP_INVALID")
     \/ /\ <<t, d>> \notin revoked /\ last
        /\ Fresh(ProofOf[r])
        /\ Goto(r, "revocation", "guard")
     \/ Answer(r, "revocation", "SERVER_ERROR")
  /\ UNCHANGED <<redis, log, history>>

\* After authn: the rate limiter and the synchronous checks of the route.  A
\* refusal here (429, malformed intent, delegation depth or cycle) leaves the
\* token unused.  They read nothing that is modelled here and take no step of
\* their own.
EnterRoute(r) ==
  \/ RouteOf[r] = "invoke" /\ Goto(r, "guard", "authz")
  \/ RouteOf[r] = "plan" /\ Goto(r, "guard", "consume")
  \/ Answer(r, "guard", "REFUSED")

Accepted(r) ==
  [req |-> r, proof |-> ProofOf[r], at |-> clock, verified |-> readAt[r]]

\* SET dpop:jti:<jti> NX EX.  A Redis error here is not caught: 500, with the
\* key written or not.
GuardProof(r) ==
  LET p == ProofOf[r]
      taken == clock < dpopUntil[p]
      Write == dpopUntil' = [dpopUntil EXCEPT ![p] = clock + DpopTtl]
  IN
  /\ \/ /\ taken
        /\ Answer(r, "guard", "AUTHN_DPOP_INVALID")
        /\ UNCHANGED <<dpopUntil, accepts>>
     \/ /\ ~taken
        /\ Write
        /\ EnterRoute(r)
        /\ accepts' = accepts \cup {Accepted(r)}
     \/ /\ Answer(r, "guard", "SERVER_ERROR")
        /\ UNCHANGED dpopUntil \/ (~taken /\ Write)
        /\ UNCHANGED accepts
  /\ UNCHANGED <<usedUntil, revoked, log, uses, overtaken, reached>>

-----------------------------------------------------------------------------
(***************************************************************************)
(* check_authz.                                                            *)
(***************************************************************************)
\* OPA's answer: it may allow only a token that has not expired by its own
\* clock; an error of any kind is a deny.
Authorize(r) ==
  /\ \/ /\ clock < Exp[TokenOf[r]]
        /\ Goto(r, "authz", "consume")
        /\ Reach(r, "approved")
        /\ UNCHANGED log
     \/ /\ Answer(r, "authz", "AUTHZ_SCOPE_EXCEEDED")
        /\ Emit(r, "deny")
        /\ UNCHANGED reached
  /\ UNCHANGED <<redis, accepts, uses, overtaken>>

-----------------------------------------------------------------------------
(***************************************************************************)
(* consume_one_shot: SET jti:used:<jti> NX EX max(1, exp - now), and the   *)
(* code of the route up to the next await.                                 *)
(***************************************************************************)
\* Faulty variant: the marker goes one unit early.
ShortTtl(t, now) == IF Exp[t] - now > 2 THEN Exp[t] - now - 1 ELSE 1

Ttl(t, now) == IF Exp[t] - now > 1 THEN Exp[t] - now ELSE 1

\* The TTL is computed when the command is sent, between the last await and now.
MarkUsed(r) ==
  \E sent \in readAt[r] .. clock :
    usedUntil' =
      [usedUntil EXCEPT ![TokenOf[r]] = clock + Ttl(TokenOf[r], sent)]

Recorded(r) == [req |-> r, token |-> TokenOf[r], time |-> clock,
                against |-> RevokedDims(TokenOf[r])]

\* The invoke route records the consumption, looks the agent up (an unknown
\* agent is UPSTREAM_FAIL) and calls it; the plan route stores the plan.
Consume(r) ==
  /\ MarkUsed(r)
  /\ uses' = uses \cup {Recorded(r)}
  /\ \/ /\ RouteOf[r] = "invoke"
        /\ \/ Goto(r, "consume", "call") /\ Reach(r, "called")
           \/ Answer(r, "consume", "UPSTREAM_FAIL") /\ UNCHANGED reached
        /\ Emit(r, "token_consumed")
     \/ /\ RouteOf[r] = "plan"
        /\ Answer(r, "consume", "ok")
        /\ UNCHANGED <<log, reached>>
  /\ UNCHANGED <<dpopUntil, revoked, accepts, overtaken>>

ConsumeFresh(r) == clock >= usedUntil[TokenOf[r]] /\ Consume(r)

ConsumeReplay(r) ==
  /\ clock < usedUntil[TokenOf[r]]
  /\ Answer(r, "consume", "TOKEN_REPLAYED")
  /\ UNCHANGED <<redis, log, history>>

\* Faulty variant: a failing Redis does not stop the request.
ConsumeErrorIgnored(r) ==
  /\ RouteOf[r] = "invoke"
  /\ Goto(r, "consume", "call")
  /\ Reach(r, "called")
  /\ UNCHANGED <<redis, log, accepts, uses, overtaken>>

\* Redis fails: 500.  The key may have been written and its answer lost, and
\* then nobody gets to use the token.
ConsumeError(r) ==
  /\ Answer(r, "consume", "SERVER_ERROR")
  /\ \/ UNCHANGED usedUntil
     \/ clock >= usedUntil[TokenOf[r]] /\ MarkUsed(r)
  /\ UNCHANGED <<dpopUntil, revoked, log, history>>

\* Faulty variant: the decision is recorded after the call, without a finally.
CallUpstreamThenRecord(r) ==
  /\ \/ Answer(r, "call", "ok") /\ Emit(r, "allow")
     \/ Answer(r, "call", "UPSTREAM_FAIL") /\ UNCHANGED log
  /\ UNCHANGED <<redis, history>>

\* call_upstream returns or raises (breaker open, timeout, network); in both
\* cases the finally clause records the allow decision.
CallUpstream(r) ==
  /\ Answer(r, "call", "ok") \/ Answer(r, "call", "UPSTREAM_FAIL")
  /\ Emit(r, "allow")
  /\ UNCHANGED <<redis, history>>

-----------------------------------------------------------------------------
(***************************************************************************)
(* The environment: the IdP adds to the revocation sets, Redis drops a set *)
(* when its time to live is over; time passes.                             *)
(***************************************************************************)
Revoke(t, d) ==
  /\ Cardinality(revoked) < MaxRevocations
  /\ revoked' = revoked \cup {<<t, d>>}
  /\ overtaken' = overtaken \cup
       {<<r, d>> : r \in {q \in Requests : TokenOf[q] = t /\ Looked(q, d)}}
  /\ UNCHANGED <<clock, pc, looks, readAt, result, usedUntil, dpopUntil, log,
                 accepts, uses, reached>>

\* The set of a dimension has one time to live for all its members.
Lapse(d) ==
  /\ revoked' = {x \in revoked : x[2] # d}
  /\ UNCHANGED <<clock, pc, looks, readAt, result, usedUntil, dpopUntil, log,
                 history>>

Tick ==
  /\ clock < MaxTime
  /\ clock' = clock + 1
  /\ UNCHANGED <<pc, looks, readAt, result, redis, log, history>>

Handle(r) ==
  \/ Arrive(r) \/ CheckRevocation(r) \/ GuardProof(r)
  \/ Authorize(r)
  \/ ConsumeFresh(r) \/ ConsumeReplay(r) \/ ConsumeError(r)
  \/ CallUpstream(r)

Next ==
  \/ \E r \in Requests : Handle(r)
  \/ \E t \in Tokens, d \in Dimensions : Revoke(t, d)
  \/ \E d \in Dimensions : Lapse(d)
  \/ Tick

Spec == Init /\ [][Next]_vars

-----------------------------------------------------------------------------
(***************************************************************************)
(* Properties.                                                             *)
(***************************************************************************)

\* However requests with the same token overlap, on either route, and whatever
\* Redis answers get lost, at most one of them consumes the token before the
\* token's exp.
OneUseBeforeExpiry ==
  \A u, v \in uses :
    /\ u.token = v.token
    /\ u.time < Exp[u.token]
    /\ v.time < Exp[v.token]
    => u.req = v.req

Bought(r) == \E u \in uses : u.req = r

\* What a request has come to, as OneTimeToken sees it.
Status(r) ==
  CASE pc[r] # "done" /\ ~Bought(r) -> "open"
    [] pc[r] # "done" /\ Bought(r) -> "granted"
    [] pc[r] = "done" /\ result[r] = "ok" -> "served"
    [] pc[r] = "done" /\ result[r] # "ok" /\ Bought(r) -> "failed"
    [] pc[r] = "done" /\ result[r] # "ok" /\ ~Bought(r) -> "refused"

\* The consumption protocol implements the promise of OneTimeToken: nobody is
\* served who has not bought, nobody buys twice, and a token that has not
\* expired is bought once.
Promise == INSTANCE OneTimeToken WITH
  status <- [r \in Requests |-> Status(r)],
  spends <- {[req |-> u.req, token |-> u.token, time |-> u.time] : u \in uses}

OneTimePromise == Promise!Spec

\* The replay guard remembers a proof for dpop_jti_ttl, from acceptance, while
\* freshness is tested before the guard is asked.  So the same proof is accepted
\* again only by a request that waited on Redis, between the two, for at
\* least the difference of the two windows.
ProofReuseNeedsStall ==
  \A a, b \in accepts :
    /\ a.proof = b.proof
    /\ a.req # b.req
    /\ a.at <= b.at
    => b.at - b.verified >= DpopTtl - MaxSkew

\* When a request consumes a token that stands revoked in one of the four
\* dimensions of infra/gateway/README.md:11, the revocation came after the
\* request had looked for it; one that was there by then has stopped it, at
\* whatever await, between whatever lookups the others arrived.
RevocationHeeded ==
  \A u \in uses : \A d \in u.against \cap {"jti", "sub", "trace", "plan"} :
    <<u.req, d>> \in overtaken

\* The audit trail of an answered invoke request tells what happened to it: a
\* consumption is recorded exactly when the token was consumed, a deny exactly
\* when policy refused, an allow exactly when the agent was called.  An approved
\* request that has no allow was refused as a replay, met a failing Redis or
\* names an agent that is not registered: three ways round the record that
\* invoke.py:96 and infra/gateway/README.md:18 promise (ApprovedIsRecorded).
AuditTellsOutcome ==
  \A r \in Requests :
    pc[r] = "done" /\ RouteOf[r] = "invoke" =>
      /\ <<r, "token_consumed">> \in log <=> Bought(r)
      /\ <<r, "deny">> \in log <=> result[r] = "AUTHZ_SCOPE_EXCEEDED"
      /\ <<r, "allow">> \in log <=> <<r, "called">> \in reached
      /\ result[r] = "ok" => <<r, "called">> \in reached
      /\ <<r, "approved">> \in reached /\ <<r, "called">> \notin reached =>
           result[r] \in {"TOKEN_REPLAYED", "SERVER_ERROR", "UPSTREAM_FAIL"}

\* routes/invoke.py:96: "OPA approved, we must record it".
ApprovedIsRecorded ==
  \A r \in Requests :
    pc[r] = "done" /\ <<r, "approved">> \in reached => <<r, "allow">> \in log

\* infra/gateway/README.md:14: a token is marked when consumed and its second
\* use is answered with 401.
UsedOnce ==
  \A u, v \in uses : u.token = v.token => u.req = v.req

-----------------------------------------------------------------------------
(***************************************************************************)
(* Inductive invariants: what the Redis keys remember of the past.         *)
(***************************************************************************)
\* The marker of a token used early outlives the token, so that a later early
\* use finds it.
UsesMarked ==
  \A u \in uses :
    /\ u.time <= clock
    /\ u.time < Exp[u.token] => usedUntil[u.token] >= Exp[u.token]

\* The marker of an accepted proof is kept for DpopTtl from its acceptance, and
\* acceptance follows a freshness test, which in turn follows the proof's iat.
GuardsFresh ==
  /\ \A r \in Requests : pc[r] = "guard" =>
       /\ Iat[ProofOf[r]] <= readAt[r]
       /\ readAt[r] <= clock
       /\ readAt[r] - Iat[ProofOf[r]] <= MaxSkew
  /\ \A a \in accepts :
       /\ Iat[a.proof] <= a.at
       /\ a.at <= clock
       /\ dpopUntil[a.proof] >= a.at + DpopTtl

\* A request with a use is past the consumption, and one that calls has a use.
\* A revocation that stands in a dimension the request has looked up came after
\* the look, and whoever is past the lookups has looked up all four.
Screened ==
  /\ \A u \in uses : pc[u.req] \in {"call", "done"}
  /\ \A r \in Requests :
       /\ pc[r] = "call" => Bought(r)
       /\ pc[r] = "idle" => looks[r] = 0
       /\ pc[r] = "revocation" => looks[r] < 4
       /\ pc[r] \in {"guard", "authz", "consume"} => looks[r] = 4
       /\ \A d \in Dimensions :
            Looked(r, d) /\ <<TokenOf[r], d>> \in revoked => <<r, d>> \in overtaken

IInv ==
  /\ TypeOK /\ UsesMarked /\ OneUseBeforeExpiry
  /\ GuardsFresh /\ ProofReuseNeedsStall
  /\ Screened /\ RevocationHeeded
=============================================================================
