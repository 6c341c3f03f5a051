----------------------------- MODULE AgentCall -----------------------------
(***************************************************************************)
(* One call of an agent through the SDK (sdk/agent_token_sdk/client.py):   *)
(* invoke, alone or inside invoke_with_retry; the path of its request      *)
(* through the gateway; and the work it leads to at the agent that is      *)
(* called (agents/common/server.py).                                       *)
(*                                                                         *)
(* What matters is who still works when somebody gives up: a handler goes  *)
(* on after the gateway's timeout, and the gateway after the client's.     *)
(* So the work of every attempt is a state of its own.  The handler is one *)
(* that changes something, such as the one that writes a document; codes   *)
(* that are neither retried nor told apart are "REFUSED".                  *)
(***************************************************************************)
EXTENDS Integers

CONSTANT MaxAttempts  \* attempts

ASSUME CallAssumption == MaxAttempts \in Nat \ {0}

VARIABLES
  wrapped,  \* the caller uses invoke_with_retry
  attempt,  \* i + 1
  at,       \* where invoke is
  hop,      \* what the gateway does with the request of the attempt
  reply,    \* the code of its response
  spent,    \* tokens that the gateway has consumed
  job,      \* per attempt: what the agent does with its request
  answer,   \* per attempt: the code that the agent answers
  effect,   \* per attempt: its handler changed something
  report    \* per attempt: what the client got to know

callVars == <<wrapped, attempt, at, hop, reply, spent, job, answer, effect, report>>

Attempts == 1..MaxAttempts

AgentCodes ==
  {"OK", "REFUSED", "AGENT_FORBIDDEN", "INTENT_INVALID", "AGENT_INTERNAL_ERROR"}
Codes == AgentCodes \cup
  {"RATE_LIMITED", "CIRCUIT_OPEN", "UPSTREAM_TIMEOUT", "UPSTREAM_FAIL", "TOKEN_REPLAYED"}

-----------------------------------------------------------------------------
(***************************************************************************)
(* The client                                                              *)
(***************************************************************************)

\* is_retryable
Retryable ==
  {"RATE_LIMITED", "CIRCUIT_OPEN", "UPSTREAM_TIMEOUT", "AGENT_INTERNAL_ERROR"}

\* Faulty variant: the token of the first attempt is kept.
TokenOfFirst(n) == 1

\* Every attempt exchanges the user's token anew, with a new assertion and proof.
TokenOf(n) == n

\* _token_exchange
Exchange ==
  /\ at = "exchange"
  /\ at' = "sent"
  /\ hop' = "received"
  /\ UNCHANGED <<wrapped, attempt, reply, spent, job, answer, effect, report>>

\* The IdP refuses, or cannot be reached: neither error is an A2AError.
ExchangeFails ==
  /\ at = "exchange"
  /\ at' = "raised"
  /\ UNCHANGED <<wrapped, attempt, hop, reply, spent, job, answer, effect, report>>

\* The response: the result, or an A2AError with the code of the body.
ClientGets ==
  /\ at = "sent"
  /\ hop = "answered"
  /\ hop' = "none"
  /\ report' = [report EXCEPT ![attempt] = reply]
  /\ at' = IF reply = "OK" THEN "returned"
           ELSE IF wrapped /\ reply \in Retryable THEN "backoff" ELSE "raised"
  /\ UNCHANGED <<wrapped, attempt, reply, spent, job, answer, effect>>

\* Faulty variant: the client waits for ever.
ClientWaits == FALSE /\ UNCHANGED callVars

\* httpx.TimeoutException or a lost connection, which nobody retries.
ClientTimesOut ==
  /\ at = "sent"
  /\ at' = "raised"
  /\ report' = [report EXCEPT ![attempt] = "lost"]
  /\ UNCHANGED <<wrapped, attempt, hop, reply, spent, job, answer, effect>>

\* Faulty variant: one attempt more than there are.
BackoffOnceMore ==
  /\ at = "backoff"
  /\ IF attempt > MaxAttempts
     THEN at' = "raised" /\ UNCHANGED attempt
     ELSE at' = "exchange" /\ attempt' = attempt + 1
  /\ UNCHANGED <<wrapped, hop, reply, spent, job, answer, effect, report>>

\* asyncio.sleep, then the next turn of the loop, or last_exc.
Backoff ==
  /\ at = "backoff"
  /\ IF attempt = MaxAttempts
     THEN at' = "raised" /\ UNCHANGED attempt
     ELSE at' = "exchange" /\ attempt' = attempt + 1
  /\ UNCHANGED <<wrapped, hop, reply, spent, job, answer, effect, report>>

-----------------------------------------------------------------------------
(***************************************************************************)
(* The gateway                                                             *)
(***************************************************************************)

GatewayAnswers(code) == hop' = "answered" /\ reply' = code

\* The request, or the response to it, gets lost.
Lose ==
  /\ hop \in {"received", "answered"}
  /\ hop' = "none"
  /\ UNCHANGED <<wrapped, attempt, at, reply, spent, job, answer, effect, report>>

\* Everything before the token is consumed.
GatewayRefuses ==
  /\ hop = "received"
  /\ \E code \in {"REFUSED", "RATE_LIMITED"} : GatewayAnswers(code)
  /\ UNCHANGED <<wrapped, attempt, at, spent, job, answer, effect, report>>

\* consume_one_shot
Consume ==
  /\ hop = "received"
  /\ spent' = spent \cup {TokenOf(attempt)}
  /\ IF TokenOf(attempt) \in spent
     THEN GatewayAnswers("TOKEN_REPLAYED")
     ELSE hop' = "route" /\ UNCHANGED reply
  /\ UNCHANGED <<wrapped, attempt, at, job, answer, effect, report>>

\* An unknown agent, an open circuit, an agent that does not accept connections.
NotRouted ==
  /\ hop = "route"
  /\ \E code \in {"CIRCUIT_OPEN", "UPSTREAM_FAIL"} : GatewayAnswers(code)
  /\ UNCHANGED <<wrapped, attempt, at, spent, job, answer, effect, report>>

Forward ==
  /\ hop = "route"
  /\ hop' = "waiting"
  /\ job' = [job EXCEPT ![attempt] = "running"]
  /\ UNCHANGED <<wrapped, attempt, at, reply, spent, answer, effect, report>>

\* Whatever the agent answers is passed on with its status.
Relay ==
  /\ hop = "waiting"
  /\ answer[attempt] # "none"
  /\ GatewayAnswers(answer[attempt])
  /\ UNCHANGED <<wrapped, attempt, at, spent, job, answer, effect, report>>

\* timeout_ms of the agent; its handler is not told.
GatewayTimesOut ==
  /\ hop = "waiting"
  /\ GatewayAnswers("UPSTREAM_TIMEOUT")
  /\ UNCHANGED <<wrapped, attempt, at, spent, job, answer, effect, report>>

\* httpx.HTTPError: the connection broke, before or after the handler ended.
GatewayFails ==
  /\ hop = "waiting"
  /\ GatewayAnswers("UPSTREAM_FAIL")
  /\ UNCHANGED <<wrapped, attempt, at, spent, job, answer, effect, report>>

-----------------------------------------------------------------------------
(***************************************************************************)
(* The agent                                                               *)
(***************************************************************************)

AgentAnswers(n, code) ==
  /\ job' = [job EXCEPT ![n] = "ended"]
  /\ answer' = [answer EXCEPT ![n] = code]

\* verify_delegated_token or _extract_deny_reasons: the handler is not called.
Deny(n) ==
  /\ job[n] = "running"
  /\ AgentAnswers(n, "REFUSED")
  /\ UNCHANGED <<wrapped, attempt, at, hop, reply, spent, effect, report>>

HandlerReturns(n) ==
  /\ job[n] = "running"
  /\ AgentAnswers(n, "OK")
  /\ effect' = [effect EXCEPT ![n] = TRUE]
  /\ UNCHANGED <<wrapped, attempt, at, hop, reply, spent, report>>

\* PermissionError, ValueError or any other exception, before or after the
\* handler changed something.
HandlerRaises(n) ==
  /\ job[n] = "running"
  /\ \E code \in {"AGENT_FORBIDDEN", "INTENT_INVALID", "AGENT_INTERNAL_ERROR"} :
        AgentAnswers(n, code)
  /\ \E done \in BOOLEAN : effect' = [effect EXCEPT ![n] = done]
  /\ UNCHANGED <<wrapped, attempt, at, hop, reply, spent, report>>

-----------------------------------------------------------------------------
CallInit ==
  /\ wrapped \in BOOLEAN
  /\ attempt = 1 /\ at = "exchange" /\ hop = "none" /\ reply = "OK" /\ spent = {}
  /\ job = [n \in Attempts |-> "none"] /\ answer = [n \in Attempts |-> "none"]
  /\ effect = [n \in Attempts |-> FALSE] /\ report = [n \in Attempts |-> "none"]

GatewayStep ==
  \/ GatewayRefuses \/ Consume \/ NotRouted \/ Forward \/ Relay
  \/ GatewayTimesOut \/ GatewayFails

AgentStep == \E n \in Attempts : Deny(n) \/ HandlerReturns(n) \/ HandlerRaises(n)

CallNext ==
  \/ Exchange \/ ExchangeFails \/ ClientGets \/ ClientTimesOut \/ Backoff
  \/ Lose \/ GatewayStep \/ AgentStep

CallSpec == CallInit /\ [][CallNext]_callVars

-----------------------------------------------------------------------------
(***************************************************************************)
(* Properties                                                              *)
(***************************************************************************)

CallTypeOK ==
  /\ wrapped \in BOOLEAN /\ attempt \in Attempts
  /\ at \in {"exchange", "sent", "backoff", "returned", "raised"}
  /\ hop \in {"none", "received", "route", "waiting", "answered"}
  /\ reply \in Codes
  /\ spent \subseteq Attempts
  /\ job \in [Attempts -> {"none", "running", "ended"}]
  /\ answer \in [Attempts -> AgentCodes \cup {"none"}]
  /\ effect \in [Attempts -> BOOLEAN]
  /\ report \in [Attempts -> Codes \cup {"none", "lost"}]

\* The SDK's own retries never meet the one-shot rule of the gateway, which
\* consumes the token before it knows whether the agent can be called
\* (invoke.py:60-61, client.py:96).
NoSelfReplay == \A n \in Attempts : report[n] # "TOKEN_REPLAYED"

\* An agent works twice for one call only if the caller was told that the first
\* time failed at the agent or on the way from it, never after a refusal or an answer
\* that got lost; and if it works for both at the same time, then because the gateway
\* gave up the first (client.py:237-265).  Whether a connection that broke on the way
\* is worth a retry is left open: the code has it otherwise than the SDK's design.
RepeatsExplained ==
  \A m, n \in Attempts : m < n /\ job[m] # "none" /\ job[n] # "none" =>
     \/ report[m] \in {"UPSTREAM_TIMEOUT", "UPSTREAM_FAIL"}
     \/ report[m] = "AGENT_INTERNAL_ERROR" /\ job[m] = "ended"

\* A call that the gateway turned away for load changed nothing, and a call that
\* returned changed what it was to change, in the attempt that it returned from.
ReportsTrue ==
  /\ \A n \in Attempts : report[n] \in {"RATE_LIMITED", "CIRCUIT_OPEN"} => ~ effect[n]
  /\ at = "returned" => effect[attempt]

\* What the caller is told of its attempts agrees with what the agent did in them,
\* through losses and timeouts on every hop (client.py:78-265).
CallsHonest == NoSelfReplay /\ RepeatsExplained /\ ReportsTrue

\* invoke and invoke_with_retry return or raise, whatever is lost.
InvokeEnds == at = "sent" ~> at \in {"returned", "raised"}
=============================================================================
