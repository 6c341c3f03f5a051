--------------------------- MODULE MCServiceParts ---------------------------
(***************************************************************************)
(* The plan executor, the rate limiter and the circuit breaker of the      *)
(* gateway, and the readers of the audit API, in one run.  They share no   *)
(* state, so each behaviour is of one of them, which scenario names; the   *)
(* fairness of each holds in its own behaviours.                           *)
(***************************************************************************)
EXTENDS MCPlanExec, RateLimit, CircuitBreaker, AuditReads

VARIABLE scenario

MCWants == [k \in Clients |-> IF k = "k1" THEN Kinds ELSE {"deny"}]

gatewayVars == <<vars, BucketVars, BreakerVars>>
readsVars == <<pageVars, streamVars, traceVars>>

PartsInit ==
  /\ scenario \in {"plan", "bucket", "breaker", "pages", "stream", "trace"}
  /\ Init /\ BucketInit /\ BreakerInit /\ ReadsInit

PartsNext ==
  /\ UNCHANGED scenario
  /\ \/ scenario = "plan" /\ Next /\ UNCHANGED <<BucketVars, BreakerVars, readsVars>>
     \/ scenario = "bucket" /\ BucketNext /\ UNCHANGED <<vars, BreakerVars, readsVars>>
     \/ scenario = "breaker" /\ BreakerNext /\ UNCHANGED <<vars, BucketVars, readsVars>>
     \/ scenario = "pages" /\ PagesNext /\ UNCHANGED <<gatewayVars, streamVars, traceVars>>
     \/ scenario = "stream" /\ StreamNext /\ UNCHANGED <<gatewayVars, pageVars, traceVars>>
     \/ scenario = "trace" /\ TraceNext /\ UNCHANGED <<gatewayVars, pageVars, streamVars>>

PlanFairness ==
  /\ \A s \in Subs : /\ WF_vars(scenario = "plan" /\ Begin(s))
                     /\ WF_vars(scenario = "plan" /\ GatherDone(s))
  /\ \A s \in Subs, t \in TaskIds : WF_vars(scenario = "plan" /\ RunTask(s, t))

BreakerPartFairness ==
  /\ WF_BreakerVars(scenario = "breaker" /\ BreakerTick)
  /\ \A k \in Calls : WF_BreakerVars(scenario = "breaker" /\ End(k))
  /\ WF_BreakerVars(scenario = "breaker" /\ \E k \in Calls : Admit(k))

\* A client that asks for the next page, and the generator of a client that has
\* gone: its wait ends with the heartbeat and its sends do not block.
ReadsFairness ==
  /\ WF_pageVars(scenario = "pages" /\ Count)
  /\ WF_pageVars(scenario = "pages" /\ Page)
  /\ \A k \in Clients :
       WF_streamVars(/\ scenario = "stream" /\ sub[k].gone
                     /\ Check(k) \/ Get(k) \/ Heartbeat(k))

PartsSpec ==
  /\ PartsInit /\ [][PartsNext]_<<scenario, gatewayVars, readsVars>>
  /\ PlanFairness /\ BreakerPartFairness /\ ReadsFairness

\* The components keep to their types.
PartsTypeOK == TypeOK /\ BucketTypeOK /\ BreakerTypeOK /\ ReadsTypeOK

\* What is begun ends: a plan with a final status, unless its id is used again
\* (plan.py:70-116); the refusals of a breaker in front of a healthy upstream, unless
\* it lost its last probe (circuit_breaker.py:41-78); a walk over pages (main.py:176);
\* and the subscription of a client that has gone (main.py:260-274).
PartsProgress == PlanEnds /\ RecoversUnlessProbeLost /\ WalkEnds /\ GoneAreRemoved
=============================================================================
