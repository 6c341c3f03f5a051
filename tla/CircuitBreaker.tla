--------------------------- MODULE CircuitBreaker ---------------------------
(***************************************************************************)
(* The per-upstream circuit breaker of the gateway                         *)
(* (infra/gateway/routing/circuit_breaker.py) together with the only code  *)
(* that drives it, call_upstream (infra/gateway/routing/upstream_client.py)*)
(*                                                                         *)
(* before_call, on_success and on_failure hold an asyncio lock and never   *)
(* await inside it, so each is one action.  Between before_call and the    *)
(* report of the outcome lies the HTTP exchange: calls admitted at any     *)
(* time may report at any later time, in any order.                        *)
(*                                                                         *)
(* Abstractions.  _opened_at is only ever compared with the clock, so the  *)
(* model keeps the age of the last opening, saturated at OpenDuration.     *)
(* _failures is only compared with the threshold and reset, so it          *)
(* saturates at MaxFailures >= FailureThreshold.                           *)
(***************************************************************************)
EXTENDS Integers, FiniteSets

CONSTANTS
  Calls,             \* identities of concurrent calls to one upstream
  FailureThreshold,  \* settings.cb_failure_threshold
  OpenDuration,      \* settings.cb_open_duration, in ticks
  HalfOpenProbes,    \* settings.cb_half_open_probes
  MaxFailures        \* bound at which the failure counter saturates

ASSUME BreakerAssumption ==
  /\ IsFiniteSet(Calls)
  /\ FailureThreshold \in Nat \ {0}
  /\ OpenDuration \in Nat
  /\ HalfOpenProbes \in Nat \ {0}
  /\ MaxFailures \in Nat
  /\ MaxFailures >= FailureThreshold

VARIABLES
  state,     \* CircuitBreaker._state
  failures,  \* CircuitBreaker._failures
  age,       \* time since _opened_at was last written, at most OpenDuration
  probes,    \* CircuitBreaker._probes_allowed
  inflight,  \* calls between before_call and the end of the HTTP exchange
  upstream,  \* "flaky", or "healthy" once every exchange gets an answer
  \* history variables, read by no action of the code
  probing,   \* calls in flight that the current half-open episode admitted
  lost       \* calls of this episode that ended without reporting

breaker == <<state, failures, age, probes>>
BreakerVars == <<state, failures, age, probes, inflight, upstream, probing, lost>>

CLOSED == "closed"
OPEN == "open"
HALF_OPEN == "half_open"

BreakerTypeOK ==
  /\ state \in {CLOSED, OPEN, HALF_OPEN}
  /\ failures \in 0 .. MaxFailures
  /\ age \in 0 .. OpenDuration
  /\ probes \in 0 .. HalfOpenProbes
  /\ inflight \in SUBSET Calls
  /\ upstream \in {"flaky", "healthy"}
  /\ probing \in SUBSET inflight
  /\ lost \in 0 .. HalfOpenProbes

BreakerInit ==
  /\ state = CLOSED
  /\ failures = 0
  /\ age = OpenDuration      \* _opened_at = 0.0, long ago
  /\ probes = 0
  /\ inflight = {}
  /\ upstream = "flaky"
  /\ probing = {}
  /\ lost = 0

-----------------------------------------------------------------------------
(***************************************************************************)
(* before_call.                                                            *)
(***************************************************************************)
Elapsed == state = OPEN /\ age >= OpenDuration

\* The breaker is closed: the call goes through.
AdmitClosed(c) ==
  /\ c \notin inflight
  /\ state = CLOSED
  /\ inflight' = inflight \cup {c}
  /\ UNCHANGED <<breaker, upstream, probing, lost>>

\* Faulty variant: the first probe is not charged to the budget it renews.
AdmitFirstProbeUncharged(c) ==
  /\ c \notin inflight
  /\ Elapsed
  /\ state' = HALF_OPEN
  /\ probes' = HalfOpenProbes
  /\ inflight' = inflight \cup {c}
  /\ probing' = {c}
  /\ lost' = 0
  /\ UNCHANGED <<failures, age, upstream>>

\* The open period is over: this call moves the breaker to half-open, renews
\* the probe budget and takes the first probe of it.
AdmitFirstProbe(c) ==
  /\ c \notin inflight
  /\ Elapsed
  /\ state' = HALF_OPEN
  /\ probes' = HalfOpenProbes - 1
  /\ inflight' = inflight \cup {c}
  /\ probing' = {c}
  /\ lost' = 0
  /\ UNCHANGED <<failures, age, upstream>>

\* Faulty variant: a half-open breaker admits calls without looking at the budget.
AdmitProbeUnchecked(c) ==
  /\ c \notin inflight
  /\ state = HALF_OPEN
  /\ probes' = probes - 1
  /\ inflight' = inflight \cup {c}
  /\ probing' = probing \cup {c}
  /\ UNCHANGED <<state, failures, age, upstream, lost>>

\* The breaker is half-open and has probes left.
AdmitProbe(c) ==
  /\ c \notin inflight
  /\ state = HALF_OPEN
  /\ probes > 0
  /\ probes' = probes - 1
  /\ inflight' = inflight \cup {c}
  /\ probing' = probing \cup {c}
  /\ UNCHANGED <<state, failures, age, upstream, lost>>

\* The breaker is open, or half-open without probes: CIRCUIT_OPEN is raised.
Refuse(c) ==
  /\ c \notin inflight
  /\ \/ state = OPEN /\ ~Elapsed
     \/ state = HALF_OPEN /\ probes = 0
  /\ UNCHANGED BreakerVars

-----------------------------------------------------------------------------
(***************************************************************************)
(* The three ways call_upstream ends.                                      *)
(***************************************************************************)
Bump(n) == IF n < MaxFailures THEN n + 1 ELSE n

\* Any HTTP response, whatever its status: on_success, from every state.
Succeed(c) ==
  /\ c \in inflight
  /\ state' = CLOSED
  /\ failures' = 0
  /\ inflight' = inflight \ {c}
  /\ probing' = {}
  /\ UNCHANGED <<age, probes, upstream, lost>>

Trips == state = HALF_OPEN \/ Bump(failures) >= FailureThreshold

\* httpx.TimeoutException or another httpx.HTTPError: on_failure.
Fail(c) ==
  /\ c \in inflight
  /\ failures' = Bump(failures)
  /\ state' = IF Trips THEN OPEN ELSE state
  /\ age' = IF Trips THEN 0 ELSE age
  /\ inflight' = inflight \ {c}
  /\ probing' = IF Trips THEN {} ELSE probing
  /\ UNCHANGED <<probes, upstream, lost>>

\* Any other exception (httpx.InvalidURL, an unreadable client certificate, a
\* header that cannot be encoded, cancellation) leaves call_upstream without
\* telling the breaker.
Vanish(c) ==
  /\ c \in inflight
  /\ inflight' = inflight \ {c}
  /\ probing' = probing \ {c}
  /\ lost' = IF c \in probing THEN lost + 1 ELSE lost
  /\ UNCHANGED <<breaker, upstream>>

-----------------------------------------------------------------------------
(***************************************************************************)
(* The environment: time, and an upstream that recovers for good.          *)
(***************************************************************************)
BreakerTick ==
  /\ age < OpenDuration
  /\ age' = age + 1
  /\ UNCHANGED <<state, failures, probes, inflight, upstream, probing, lost>>

Recover ==
  /\ upstream = "flaky"
  /\ upstream' = "healthy"
  /\ UNCHANGED <<breaker, inflight, probing, lost>>

Admit(c) == AdmitClosed(c) \/ AdmitFirstProbe(c) \/ AdmitProbe(c)

\* Once the upstream is healthy no exchange fails any more; an exception raised
\* on the gateway's own side is still possible.
End(c) ==
  \/ Succeed(c)
  \/ upstream = "flaky" /\ Fail(c)
  \/ Vanish(c)

BreakerNext ==
  \/ \E c \in Calls : Admit(c) \/ Refuse(c) \/ End(c)
  \/ BreakerTick
  \/ Recover

BreakerSpec == BreakerInit /\ [][BreakerNext]_BreakerVars

(***************************************************************************)
(* Every exchange ends, because httpx bounds each of its phases; time      *)
(* passes; and while requests keep arriving some call reaches before_call. *)
(* The upstream owes nothing: Recover and the kind of ending are not fair. *)
(***************************************************************************)
BreakerFairness ==
  /\ WF_BreakerVars(BreakerTick)
  /\ \A c \in Calls : WF_BreakerVars(End(c))
  /\ WF_BreakerVars(\E c \in Calls : Admit(c))

BreakerFairSpec == BreakerSpec /\ BreakerFairness

-----------------------------------------------------------------------------
(***************************************************************************)
(* Properties.                                                             *)
(***************************************************************************)

\* The failure count and the state agree although reports arrive late and in
\* any order: a closed breaker is below its threshold, and an open or
\* half-open one is at or above it.  (Hence on_failure's test for HALF_OPEN is
\* implied by its test of the counter.)
CountMatchesState ==
  (state = CLOSED) <=> (failures < FailureThreshold)

\* In a half-open episode every probe is accounted for: still available, in
\* flight, or lost to an exception the breaker never heard of.  So an episode
\* admits at most HalfOpenProbes calls, and a breaker that refuses everything
\* while half-open is waiting for a probe in flight or has lost one.
ProbesAccounted ==
  state = HALF_OPEN => probes + Cardinality(probing) + lost = HalfOpenProbes

\* However late outcomes are reported, the breaker's counters are those of its state
\* and of its episode (circuit_breaker.py before_call, on_success, on_failure).
BreakerAccounts == CountMatchesState /\ ProbesAccounted

\* Only a half-open breaker has probes in flight; with the two invariants above
\* and BreakerTypeOK this is inductive.
ProbingOnlyHalfOpen == probing # {} => state = HALF_OPEN

BreakerIInv == BreakerTypeOK /\ CountMatchesState /\ ProbesAccounted /\ ProbingOnlyHalfOpen

\* Recovery, as far as the code grants it: once the upstream answers again, the
\* breaker closes, unless it is half-open with a probe lost and none left.
RecoversUnlessProbeLost ==
  (upstream = "healthy") ~>
    (state = CLOSED \/ (state = HALF_OPEN /\ probes = 0 /\ lost > 0))

\* config.py:129-131: when open_duration has passed the breaker lets a probe
\* through, whose success recovers it and whose failure opens it again.  So a
\* healthy upstream is eventually served again.
Recovers == (upstream = "healthy") ~> (state = CLOSED)
=============================================================================
