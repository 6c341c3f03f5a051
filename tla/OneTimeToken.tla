---------------------------- MODULE OneTimeToken ----------------------------
(***************************************************************************)
(* What the gateway promises about a delegated token, whatever routes,     *)
(* requests and Redis keys implement it: a request is served only after it *)
(* has bought its execution with its token, a refused one has bought       *)
(* nothing, and before it expires a token buys one execution.  After       *)
(* expiry that promise is gone: the marker that remembers the first use is *)
(* kept only until then (infra/gateway/authz/one_shot.py).                 *)
(***************************************************************************)
EXTENDS Integers

CONSTANTS
  Requests, \* requests for an execution
  Tokens,   \* delegated tokens (their jti)
  TokenOf,  \* TokenOf[r]: the token request r carries
  Exp       \* Exp[t]: the exp claim of token t

VARIABLES
  clock,    \* wall-clock time
  status,   \* "open", "granted", "served", "failed" or "refused"
  spends    \* the executions bought so far: [req, token, time]

Init ==
  /\ clock = 0
  /\ status = [r \in Requests |-> "open"]
  /\ spends = {}

SpentEarly(t) == \E s \in spends : s.token = t /\ s.time < Exp[t]

\* r buys its execution, and may have it, or lose it, at once.
Buy(r) ==
  /\ status[r] = "open"
  /\ clock < Exp[TokenOf[r]] => ~SpentEarly(TokenOf[r])
  /\ spends' = spends \cup {[req |-> r, token |-> TokenOf[r], time |-> clock]}
  /\ \E s \in {"granted", "served", "failed"} : status' = [status EXCEPT ![r] = s]
  /\ UNCHANGED clock

Finish(r) ==
  /\ status[r] = "granted"
  /\ \E s \in {"served", "failed"} : status' = [status EXCEPT ![r] = s]
  /\ UNCHANGED <<clock, spends>>

Refuse(r) ==
  /\ status[r] = "open"
  /\ status' = [status EXCEPT ![r] = "refused"]
  /\ UNCHANGED <<clock, spends>>

Tick ==
  /\ clock' > clock
  /\ UNCHANGED <<status, spends>>

Next == Tick \/ \E r \in Requests : Buy(r) \/ Finish(r) \/ Refuse(r)

Spec == Init /\ [][Next]_<<clock, status, spends>>
=============================================================================
