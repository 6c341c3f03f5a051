---------------------------- MODULE Agents_proofs ----------------------------
(***************************************************************************)
(* Proofs about the agents beside the document assistant: a call through   *)
(* the SDK, the clients of the language models, the reads of Feishu and    *)
(* the web agent.  For any number of calls, chats, reads, tables, pages    *)
(* and attempts, and any durations within the assumptions.                 *)
(***************************************************************************)
EXTENDS MCAgents, DocAssistant_proofs

-----------------------------------------------------------------------------
(***************************************************************************)
(* A call through the SDK                                                  *)
(***************************************************************************)

(***************************************************************************)
(* The inductive invariant                                                 *)
(***************************************************************************)

Untouched(n) ==
  /\ job[n] = "none" /\ report[n] = "none" /\ n \notin spent

\* What is to come has left no trace, neither at the gateway nor at the agent.
ComingUntouched ==
  /\ \A n \in Attempts : n > attempt => Untouched(n)
  /\ at = "exchange" => Untouched(attempt) /\ hop = "none"

\* The gateway has the token of a request that it looks at for the first time,
\* and one it is about to forward has not reached the agent.
RequestNew ==
  /\ hop = "received" => attempt \notin spent
  /\ hop \in {"received", "route"} => job[attempt] = "none"

\* The agent answers when the work has ended, and "OK" when it was done.
AnswersTrue ==
  \A n \in Attempts :
    /\ answer[n] # "none" <=> job[n] = "ended"
    /\ job[n] = "none" => ~ effect[n]
    /\ answer[n] = "OK" => effect[n]

\* What a code says about the work of an attempt.
Means(code, n) ==
  /\ code # "TOKEN_REPLAYED"
  /\ code \in {"RATE_LIMITED", "CIRCUIT_OPEN"} => job[n] = "none"
  /\ code = "AGENT_INTERNAL_ERROR" => job[n] = "ended"
  /\ code = "OK" => answer[n] = "OK"

CodesTrue ==
  /\ hop = "answered" => Means(reply, attempt)
  /\ \A n \in Attempts : report[n] \in Codes => Means(report[n], n)
  /\ report[attempt] \in Codes => hop = "none"

\* Only a code that may be retried leads to another attempt.
RetriesTold ==
  /\ \A n \in Attempts : n < attempt => report[n] \in Retryable
  /\ at = "backoff" => report[attempt] \in Retryable
  /\ at = "returned" => report[attempt] = "OK"

CallIInv ==
  /\ CallTypeOK /\ ComingUntouched /\ RequestNew
  /\ AnswersTrue /\ CodesTrue /\ RetriesTold

\* A call that has not begun.
LEMMA CallInitIInv == CallInit => CallIInv
BY CallAssumption
   DEF CallAssumption, CallInit, CallIInv, CallTypeOK, ComingUntouched, Untouched, RequestNew,
       AnswersTrue, CodesTrue, Means, RetriesTold, Attempts, Codes, AgentCodes

\* The client: exchanging, getting a response, giving up and pausing.
LEMMA ClientKeepsIInv ==
  ASSUME CallIInv, Exchange \/ ExchangeFails \/ ClientGets \/ ClientTimesOut \/ Backoff
  PROVE  CallIInv'
<1> USE CallAssumption DEF CallAssumption, Attempts
<1>1. ASSUME Exchange PROVE CallIInv'
  <2> USE <1>1 DEF Exchange, CallIInv
  <2>1. Untouched(attempt)
    BY DEF ComingUntouched
  <2>2. CallTypeOK' /\ ComingUntouched' /\ RequestNew' /\ AnswersTrue' /\ RetriesTold'
    BY <2>1 DEF CallTypeOK, ComingUntouched, Untouched, RequestNew, AnswersTrue, RetriesTold
  <2>3. CodesTrue'
    BY <2>1 DEF CodesTrue, Means, Untouched, Codes, AgentCodes
  <2>4. QED
    BY <2>2, <2>3
<1>2. ASSUME ExchangeFails PROVE CallIInv'
  BY <1>2 DEF ExchangeFails, CallIInv, CallTypeOK, ComingUntouched, Untouched, RequestNew,
              AnswersTrue, CodesTrue, Means, RetriesTold
<1>3. ASSUME ClientGets PROVE CallIInv'
  <2> USE <1>3 DEF ClientGets, CallIInv
  <2>1. /\ report' = [report EXCEPT ![attempt] = reply] /\ report'[attempt] = reply
        /\ \A n \in Attempts : n # attempt => report'[n] = report[n]
    BY DEF CallTypeOK
  <2>2. CallTypeOK'
    BY <2>1 DEF CallTypeOK
  <2>3. ComingUntouched' /\ RequestNew' /\ AnswersTrue'
    BY <2>1 DEF CallTypeOK, ComingUntouched, Untouched, RequestNew, AnswersTrue
  <2>4. CodesTrue'
    BY <2>1 DEF CallTypeOK, CodesTrue, Means
  <2>5. RetriesTold'
    BY <2>1 DEF CallTypeOK, RetriesTold
  <2>6. QED
    BY <2>2, <2>3, <2>4, <2>5
<1>4. ASSUME ClientTimesOut PROVE CallIInv'
  <2> USE <1>4 DEF ClientTimesOut, CallIInv
  <2>1. /\ report'[attempt] = "lost"
        /\ \A n \in Attempts : n # attempt => report'[n] = report[n]
    BY DEF CallTypeOK
  <2>2. CallTypeOK'
    BY DEF CallTypeOK
  <2>3. ComingUntouched' /\ RequestNew' /\ AnswersTrue'
    BY <2>1 DEF CallTypeOK, ComingUntouched, Untouched, RequestNew, AnswersTrue
  <2>4. CodesTrue'
    BY <2>1 DEF CallTypeOK, CodesTrue, Means, Codes, AgentCodes
  <2>5. RetriesTold'
    BY <2>1 DEF CallTypeOK, RetriesTold
  <2>6. QED
    BY <2>2, <2>3, <2>4, <2>5
<1>5. ASSUME Backoff PROVE CallIInv'
  <2> USE <1>5 DEF Backoff, CallIInv
  <2>1. report[attempt] \in Retryable /\ Retryable \subseteq Codes /\ hop = "none"
    BY DEF RetriesTold, Retryable, Codes, AgentCodes, CodesTrue
  <2>2. CASE attempt = MaxAttempts
    BY <2>2 DEF CallTypeOK, ComingUntouched, Untouched, RequestNew,
                AnswersTrue, CodesTrue, Means, RetriesTold
  <2>3. CASE attempt # MaxAttempts
    <3>1. attempt' = attempt + 1 /\ attempt' \in Attempts /\ at' = "exchange"
      BY <2>3 DEF CallTypeOK
    <3>2. \A n \in Attempts : n < attempt' => n = attempt \/ n < attempt
      BY <3>1 DEF CallTypeOK
    <3>3. Untouched(attempt + 1)
      BY <3>1 DEF CallTypeOK, ComingUntouched
    <3>4. CallTypeOK' /\ RequestNew' /\ AnswersTrue'
      BY <2>1, <3>1 DEF CallTypeOK, RequestNew, AnswersTrue
    <3>5. ComingUntouched'
      BY <2>1, <3>1, <3>3 DEF CallTypeOK, ComingUntouched, Untouched
    <3>6. CodesTrue' /\ RetriesTold'
      BY <2>1, <3>1, <3>2, <3>3 DEF CallTypeOK, CodesTrue, Means, RetriesTold, Untouched
    <3>7. QED
      BY <3>4, <3>5, <3>6
  <2>4. QED
    BY <2>2, <2>3
<1>6. QED
  BY <1>1, <1>2, <1>3, <1>4, <1>5

\* The gateway, and what loses the request or its response.
LEMMA GatewayKeepsIInv ==
  ASSUME CallIInv, Lose \/ GatewayStep
  PROVE  CallIInv'
<1> USE CallAssumption DEF CallAssumption, Attempts, GatewayAnswers
<1>1. ASSUME Lose PROVE CallIInv'
  BY <1>1 DEF Lose, CallIInv, CallTypeOK, ComingUntouched, Untouched, RequestNew,
              AnswersTrue, CodesTrue, Means, RetriesTold
<1>2. ASSUME GatewayRefuses PROVE CallIInv'
  BY <1>2 DEF GatewayRefuses, CallIInv, CallTypeOK, ComingUntouched, Untouched, RequestNew,
              AnswersTrue, CodesTrue, Means, RetriesTold, Codes, AgentCodes
<1>3. ASSUME Consume PROVE CallIInv'
  BY <1>3 DEF Consume, TokenOf, CallIInv, CallTypeOK, ComingUntouched, Untouched, RequestNew,
              AnswersTrue, CodesTrue, Means, RetriesTold
<1>4. ASSUME NotRouted PROVE CallIInv'
  BY <1>4 DEF NotRouted, CallIInv, CallTypeOK, ComingUntouched, Untouched, RequestNew,
              AnswersTrue, CodesTrue, Means, RetriesTold, Codes, AgentCodes
<1>5. ASSUME Forward PROVE CallIInv'
  <2> USE <1>5 DEF Forward, CallIInv
  <2>1. /\ job'[attempt] = "running" /\ job[attempt] = "none"
        /\ \A n \in Attempts : n # attempt => job'[n] = job[n]
    BY DEF CallTypeOK, RequestNew
  <2>2. CallTypeOK'
    BY DEF CallTypeOK
  <2>3. ComingUntouched' /\ RequestNew' /\ AnswersTrue' /\ RetriesTold'
    BY <2>1 DEF CallTypeOK, ComingUntouched, Untouched, RequestNew, AnswersTrue, RetriesTold
  <2>4. CodesTrue'
    BY <2>1 DEF CallTypeOK, CodesTrue, Means
  <2>5. QED
    BY <2>2, <2>3, <2>4
<1>6. ASSUME Relay PROVE CallIInv'
  <2> USE <1>6 DEF Relay, CallIInv
  <2>1. answer[attempt] \in AgentCodes /\ job[attempt] = "ended" /\ reply' = answer[attempt]
    BY DEF CallTypeOK, AnswersTrue
  <2>2. CallTypeOK' /\ ComingUntouched' /\ RequestNew' /\ AnswersTrue' /\ RetriesTold'
    BY <2>1 DEF CallTypeOK, ComingUntouched, Untouched, RequestNew, AnswersTrue, RetriesTold, Codes
  <2>3. CodesTrue'
    BY <2>1 DEF CallTypeOK, CodesTrue, Means, AgentCodes
  <2>4. QED
    BY <2>2, <2>3
<1>7. ASSUME GatewayTimesOut \/ GatewayFails PROVE CallIInv'
  <2> USE DEF CallIInv
  <2>1. /\ hop = "waiting" /\ hop' = "answered"
        /\ reply' \in {"UPSTREAM_TIMEOUT", "UPSTREAM_FAIL"}
        /\ UNCHANGED <<wrapped, attempt, at, spent, job, answer, effect, report>>
    BY <1>7 DEF GatewayTimesOut, GatewayFails
  <2>2. CallTypeOK' /\ ComingUntouched' /\ RequestNew'
    BY <2>1 DEF CallTypeOK, ComingUntouched, Untouched, RequestNew, Codes
  <2>3. AnswersTrue' /\ RetriesTold'
    BY <2>1 DEF AnswersTrue, RetriesTold
  <2>4. Means(reply, attempt)'
    BY <2>1 DEF Means
  <2>5. CodesTrue'
    BY <2>1, <2>4 DEF CodesTrue, Means
  <2>6. QED
    BY <2>2, <2>3, <2>5
<1>8. QED
  BY <1>1, <1>2, <1>3, <1>4, <1>5, <1>6, <1>7 DEF GatewayStep

\* The agent ends the work of one attempt: codes that speak of it stay true.
LEMMA AgentKeepsIInv ==
  ASSUME CallIInv, NEW n \in Attempts, Deny(n) \/ HandlerReturns(n) \/ HandlerRaises(n)
  PROVE  CallIInv'
<1> USE DEF CallIInv, Attempts
<1>1. PICK code \in AgentCodes :
        /\ job[n] = "running" /\ AgentAnswers(n, code)
        /\ code = "OK" => effect'[n]
        /\ effect' \in [Attempts -> BOOLEAN]
        /\ \A k \in Attempts : k # n => effect'[k] = effect[k]
  BY ZenonT(30) DEF CallTypeOK, Deny, HandlerReturns, HandlerRaises, AgentAnswers, AgentCodes
<1>2. UNCHANGED <<wrapped, attempt, at, hop, reply, spent, report>>
  BY DEF Deny, HandlerReturns, HandlerRaises
<1>3. /\ job'[n] = "ended" /\ answer'[n] = code /\ answer[n] = "none" /\ code # "none"
      /\ \A k \in Attempts : k # n => job'[k] = job[k] /\ answer'[k] = answer[k]
  BY <1>1 DEF CallTypeOK, AgentAnswers, AnswersTrue, AgentCodes
<1>4. CallTypeOK'
  BY <1>1, <1>2 DEF CallTypeOK, AgentAnswers
<1>5. ComingUntouched' /\ RequestNew'
  BY <1>1, <1>2, <1>3 DEF CallTypeOK, ComingUntouched, Untouched, RequestNew
<1>6. AnswersTrue'
  BY <1>1, <1>3 DEF CallTypeOK, AnswersTrue
<1>7. CodesTrue' /\ RetriesTold'
  BY <1>1, <1>2, <1>3 DEF CallTypeOK, CodesTrue, Means, RetriesTold
<1>8. QED
  BY <1>4, <1>5, <1>6, <1>7

\* Every step of a call preserves the invariant.
LEMMA CallNextIInv == CallIInv /\ [CallNext]_callVars => CallIInv'
<1> SUFFICES ASSUME CallIInv, [CallNext]_callVars PROVE CallIInv'
  OBVIOUS
<1>1. CASE Exchange \/ ExchangeFails \/ ClientGets \/ ClientTimesOut \/ Backoff
  BY <1>1, ClientKeepsIInv
<1>2. CASE Lose \/ GatewayStep
  BY <1>2, GatewayKeepsIInv
<1>3. CASE AgentStep
  BY <1>3, AgentKeepsIInv DEF AgentStep
<1>4. CASE UNCHANGED callVars
  BY <1>4 DEF callVars, CallIInv, CallTypeOK, ComingUntouched, Untouched, RequestNew,
              AnswersTrue, CodesTrue, Means, RetriesTold
<1>5. QED
  BY <1>1, <1>2, <1>3, <1>4 DEF CallNext

\* What the properties say follows from the invariant: an attempt that is not the
\* last was reported with a retryable code, and of those only two leave room for
\* work at the agent.
LEMMA CallIInvImplies ==
  ASSUME CallIInv
  PROVE  NoSelfReplay /\ RepeatsExplained /\ ReportsTrue
<1> USE DEF CallIInv
<1>1. NoSelfReplay
  BY DEF NoSelfReplay, CodesTrue, Means, Codes
<1>2. RepeatsExplained
  <2> SUFFICES ASSUME NEW m \in Attempts, NEW n \in Attempts,
                      m < n, job[m] # "none", job[n] # "none"
               PROVE  \/ report[m] \in {"UPSTREAM_TIMEOUT", "UPSTREAM_FAIL"}
                      \/ report[m] = "AGENT_INTERNAL_ERROR" /\ job[m] = "ended"
    BY DEF RepeatsExplained
  <2>1. n <= attempt
    BY DEF ComingUntouched, Untouched, CallTypeOK, Attempts
  <2>2. report[m] \in Retryable
    BY <2>1 DEF RetriesTold, CallTypeOK, Attempts
  <2>3. Means(report[m], m)
    BY <2>2 DEF CodesTrue, Retryable, Codes, AgentCodes
  <2>4. QED
    BY <2>2, <2>3 DEF Means, Retryable
<1>3. ReportsTrue
  BY DEF ReportsTrue, CodesTrue, Means, AnswersTrue, RetriesTold, CallTypeOK, Codes, AgentCodes
<1>4. QED
  BY <1>1, <1>2, <1>3

\* The inductive invariant holds of every call.
THEOREM CallInvariant == CallSpec => []CallIInv
<1>1. QED
  BY CallInitIInv, CallNextIInv, PTL DEF CallSpec

\* Calls, the gateway's hop and the agent's jobs keep to their types
\* (client.py:78-265).
THEOREM CallTypeCorrect == CallSpec => []CallTypeOK
<1>1. CallIInv => CallTypeOK
  BY DEF CallIInv
<1>2. QED
  BY <1>1, CallInvariant, PTL

\* However many attempts invoke_with_retry makes and whatever gets lost between
\* them, none meets the token of an earlier one at the gateway
\* (client.py:96, invoke.py:60-61).
THEOREM RetriesNeverReplay == CallSpec => []NoSelfReplay
<1>1. CallIInv => NoSelfReplay
  BY CallIInvImplies
<1>2. QED
  BY <1>1, CallInvariant, PTL

\* An agent works twice for one call only where its caller was told that the
\* first time failed there or took too long (errors.py:45-50).
THEOREM RepeatsAreExplained == CallSpec => []RepeatsExplained
<1>1. CallIInv => RepeatsExplained
  BY CallIInvImplies
<1>2. QED
  BY <1>1, CallInvariant, PTL

\* A call turned away for load changed nothing at the agent, and one that returned
\* changed what it was to change (client.py:210-235).
THEOREM ReportsAreTrue == CallSpec => []ReportsTrue
<1>1. CallIInv => ReportsTrue
  BY CallIInvImplies
<1>2. QED
  BY <1>1, CallInvariant, PTL

\* What a caller is told of its attempts agrees with what the agent did in them, for
\* any number of attempts (client.py:78-265).
THEOREM CallsAreHonest == CallSpec => []CallsHonest
<1>1. NoSelfReplay /\ RepeatsExplained /\ ReportsTrue => CallsHonest
  BY DEF CallsHonest
<1>2. QED
  BY <1>1, RetriesNeverReplay, RepeatsAreExplained, ReportsAreTrue, PTL

-----------------------------------------------------------------------------
(***************************************************************************)
(* The clients of the language models                                      *)
(***************************************************************************)

\* What a chat may be at all (model_client.py).
ChatSet == [pc : {"idle", "post", "judge", "ended"}, json : BOOLEAN,
            format : BOOLEAN, posts : Nat, tries : 0..MaxPosts, got : Responses,
            late : BOOLEAN, asked : Nat]

\* A chat in the middle of its loops: with the format it is in the first one, and
\* without it, if JSON was asked for, in the second.
Tries(x) ==
  /\ x.format => x.json
  /\ x.asked <= MaxPosts
  /\ x.tries <= x.posts
  /\ IF x.json /\ ~ x.format THEN x.posts <= MaxPosts + x.tries
     ELSE x.posts = x.tries
  /\ IF x.format THEN x.asked = x.posts ELSE x.json \/ x.asked = 0
  /\ x.pc = "judge" => x.tries > 0

\* What it was answered last decides where it goes.
LastHeard(x) ==
  /\ x.got = "no_json" => ~ takesJson
  /\ x.pc \in {"judge", "ended"} /\ x.got = "no_json" => x.format
  /\ provider = "volc" /\ x.got = "no_json" => x.pc # "ended"
  /\ x.pc = "post" /\ x.posts > 0 => x.got \in WorthAnother \cup {"no_json"}
  /\ x.pc = "post" /\ x.posts > 0 /\ x.got \in WorthAnother => x.tries < MaxPosts
  /\ x.pc = "ended" /\ x.got \in WorthAnother => x.tries >= MaxPosts
  /\ x.pc = "post" /\ x.got = "no_json" => x.tries = 0
  /\ x.pc = "idle" => x.posts = 0

\* With the marking of a model that refuses JSON, which all chats share, the invariant.
LlmIInv ==
  /\ provider \in {"volc", "openai"} /\ takesJson \in BOOLEAN /\ marked \in BOOLEAN
  /\ marked => ~ takesJson
  /\ chat \in [Chats -> ChatSet]
  /\ \A c \in Chats : /\ Tries(chat[c]) /\ LastHeard(chat[c])
                      /\ provider = "volc" /\ chat[c].late =>
                           /\ chat[c].asked = 0 /\ ~ chat[c].json
                      /\ chat[c].late => marked

\* What is a number among the constants.
LEMMA ChatNumbers == MaxPosts \in Nat /\ MaxPosts > 0 /\ 0 \in 0..MaxPosts
  BY LlmAssumption

\* A client that has not been asked yet.
LEMMA LlmInitIInv == LlmInit => LlmIInv
<1> SUFFICES ASSUME LlmInit PROVE LlmIInv
  OBVIOUS
<1>1. Idle \in ChatSet
  BY ChatNumbers DEF Idle, ChatSet, Responses
<1>2. Tries(Idle) /\ LastHeard(Idle) /\ ~ Idle.late
  BY ChatNumbers DEF Idle, Tries, LastHeard, WorthAnother
<1>3. \A c \in Chats : chat[c] = Idle
  BY DEF LlmInit
<1>4. chat \in [Chats -> ChatSet]
  BY <1>1 DEF LlmInit
<1> QED  BY <1>2, <1>3, <1>4, ChatNumbers DEF LlmInit, LlmIInv

\* What the invariant says of one chat.
OneChat(x) == /\ x \in ChatSet /\ Tries(x) /\ LastHeard(x)
              /\ provider = "volc" /\ x.late => x.asked = 0 /\ ~ x.json
              /\ x.late => marked

\* A step of one chat that keeps what is said of it keeps it of all.
LEMMA OneChatChanges ==
  ASSUME LlmIInv, NEW c \in Chats, NEW x, OneChat(x)', chat' = [chat EXCEPT ![c] = x],
         UNCHANGED <<provider, takesJson>>, marked' \in {marked, TRUE},
         marked' => ~ takesJson
  PROVE  LlmIInv'
<1>1. chat' \in [Chats -> ChatSet]
  BY DEF LlmIInv, OneChat, ChatSet
<1>2. ASSUME NEW d \in Chats PROVE OneChat(chat[d])'
  <2>1. CASE d = c
    BY <2>1 DEF LlmIInv
  <2>2. CASE d # c
    <3>1. chat'[d] = chat[d]
      BY <2>2 DEF LlmIInv
    <3>2. marked => marked'
      OBVIOUS
    <3>3. OneChat(chat[d])
      BY DEF OneChat, LlmIInv
    <3>4. OneChat(chat[d])'
      <4> DEFINE x0 == chat[d]
      <4>1. x0' = x0
        BY <3>1
      <4> QED  BY <3>1, <3>2, <3>3, <4>1 DEF OneChat, LlmIInv, Tries, LastHeard, WorthAnother, ChatSet
    <3> QED  BY <3>4
  <2> QED  BY <2>1, <2>2
<1>3. /\ provider' \in {"volc", "openai"} /\ takesJson' \in BOOLEAN
      /\ marked' \in BOOLEAN /\ marked' => ~ takesJson'
  BY DEF LlmIInv
<1> QED  BY <1>1, <1>2, <1>3 DEF LlmIInv, OneChat

\* Every step of a chat keeps the invariant (volc_client.py, openai_client.py).
LEMMA LlmNextIInv == LlmIInv /\ [LlmNext]_llmVars => LlmIInv'
<1> SUFFICES ASSUME LlmIInv, [LlmNext]_llmVars PROVE LlmIInv'
  OBVIOUS
<1>1. ASSUME NEW c \in Chats, ChatStep(c) PROVE LlmIInv'
  <2>0. OneChat(chat[c]) /\ chat[c] \in ChatSet
    BY DEF LlmIInv, OneChat
  <2>1. CASE StartChat(c)
    <3>1. PICK j \in BOOLEAN :
             /\ chat' = [chat EXCEPT ![c] = [Idle EXCEPT !.pc = "post", !.json = j,
                                             !.format = j, !.late = marked]]
             /\ provider = "volc" /\ marked => ~ j
      BY <2>1 DEF StartChat, WantsJson
    <3>0. marked \in BOOLEAN
      BY DEF LlmIInv
    <3>2. PICK x : x = [Idle EXCEPT !.pc = "post", !.json = j, !.format = j, !.late = marked]
      OBVIOUS
    <3>3. chat' = [chat EXCEPT ![c] = x]
      BY <2>1, <3>2, <3>1 DEF StartChat, LlmIInv
    <3>4. /\ x \in ChatSet
          /\ x.pc = "post"
          /\ x.json = j
          /\ x.format = j
          /\ x.posts = 0
          /\ x.tries = 0
          /\ x.got = "result"
          /\ x.late = marked
          /\ x.asked = 0
      BY <2>0, <2>1, <3>2, ChatNumbers, <3>0 DEF StartChat, ChatSet, Idle, Responses
    <3>5. Tries(x)
      BY ChatNumbers, <2>0, <2>1, <3>0, <3>1, <3>4 DEF StartChat, OneChat, Tries, ChatSet
    <3>6. LastHeard(x)'
      BY ChatNumbers, <2>0, <2>1, <3>0, <3>1, <3>4 DEF StartChat, OneChat, Tries, LastHeard, WorthAnother, ChatSet
    <3>7. OneChat(x)'
      BY <2>0, <2>1, <3>0, <3>1, <3>4, <3>5, <3>6, ChatNumbers DEF StartChat, OneChat, ChatSet, Tries, LlmIInv
    <3> QED  BY <2>0, <2>1, <3>3, <3>7, OneChatChanges DEF StartChat, LlmIInv, JsonRefused, OneChat, LastHeard
  <2>2. CASE Post(c)
    <3>1. PICK r \in MayRespond(chat[c].format) :
             chat' = [chat EXCEPT ![c] = Posted(chat[c], r)]
      BY <2>2 DEF Post
    <3>0. /\ r \in Responses /\ (r = "no_json" => chat[c].format /\ ~ takesJson)
          /\ chat[c].pc = "post" /\ chat[c].tries < MaxPosts
      <4>1. r \in Responses /\ (r = "no_json" => chat[c].format /\ ~ takesJson)
        BY <3>1 DEF MayRespond, Responses
      <4>2. chat[c].pc = "post"
        BY <2>2 DEF Post
      <4>3. chat[c].posts = 0 => chat[c].tries = 0 
        BY <2>0 DEF OneChat, Tries, ChatSet
      <4>4. chat[c].posts \in Nat /\ chat[c].tries \in 0..MaxPosts
        BY <2>0 DEF ChatSet
      <4>5. chat[c].tries < MaxPosts
        BY <2>0, <4>2, <4>3, <4>4, ChatNumbers DEF OneChat, LastHeard, WorthAnother
      <4> QED  BY <4>1, <4>2, <4>5
    <3>2. PICK x : x = Posted(chat[c], r)
      OBVIOUS
    <3>3. chat' = [chat EXCEPT ![c] = x]
      BY <3>2, <3>1
    <3>4. /\ x \in ChatSet
          /\ x.pc = "judge"
          /\ x.json = chat[c].json
          /\ x.format = chat[c].format
          /\ x.posts = chat[c].posts + 1
          /\ x.tries = chat[c].tries + 1
          /\ x.got = r
          /\ x.late = chat[c].late
          /\ x.asked = (IF chat[c].format THEN chat[c].asked + 1 ELSE chat[c].asked)
      <4> DEFINE p == chat[c].posts + 1
                 n == chat[c].tries + 1
                 a == IF chat[c].format THEN chat[c].asked + 1 ELSE chat[c].asked
      <4>1. p \in Nat /\ n \in 0..MaxPosts /\ a \in Nat
        BY <2>0, <3>0, ChatNumbers DEF ChatSet
      <4>2. x = [chat[c] EXCEPT !.pc = "judge", !.got = r, !.posts = p, !.tries = n,
                                !.asked = a]
        BY <2>0, <3>2 DEF ChatSet, Posted
      <4> HIDE DEF p, n, a
      <4>3. /\ x \in ChatSet
            /\ x.pc = "judge" /\ x.got = r /\ x.posts = p /\ x.tries = n /\ x.asked = a
            /\ x.json = chat[c].json /\ x.format = chat[c].format
            /\ x.late = chat[c].late
        BY <2>0, <3>0, <4>1, <4>2 DEF ChatSet
      <4> QED  BY <4>3 DEF p, n, a
    <3>5. Tries(x)
      BY ChatNumbers, <2>0, <2>2, <3>0, <3>1, <3>4 DEF Post, OneChat, Tries, ChatSet
    <3>6. LastHeard(x)'
      BY ChatNumbers, <2>0, <2>2, <3>0, <3>1, <3>4 DEF Post, OneChat, Tries, LastHeard, WorthAnother, ChatSet
    <3>7. OneChat(x)'
      BY <2>0, <2>2, <3>0, <3>1, <3>4, <3>5, <3>6, ChatNumbers DEF Post, OneChat, ChatSet, Tries, LlmIInv
    <3> QED  BY <2>0, <2>2, <3>3, <3>7, OneChatChanges DEF Post, LlmIInv, JsonRefused, OneChat, LastHeard
  <2>3. CASE Retry(c)
    <3>2. PICK x : x = [chat[c] EXCEPT !.pc = "post"]
      OBVIOUS
    <3>3. chat' = [chat EXCEPT ![c] = x]
      BY <2>3, <3>2 DEF Retry, LlmIInv
    <3>4. /\ x \in ChatSet
          /\ x.pc = "post"
          /\ x.json = chat[c].json
          /\ x.format = chat[c].format
          /\ x.posts = chat[c].posts
          /\ x.tries = chat[c].tries
          /\ x.got = chat[c].got
          /\ x.late = chat[c].late
          /\ x.asked = chat[c].asked
      BY <2>0, <2>3, <3>2, ChatNumbers DEF Retry, ChatSet
    <3>5. Tries(x)
      BY ChatNumbers, <2>0, <2>3, <3>4 DEF Retry, OneChat, Tries, ChatSet
    <3>6. LastHeard(x)'
      BY ChatNumbers, <2>0, <2>3, <3>4 DEF Retry, OneChat, Tries, LastHeard, WorthAnother, ChatSet
    <3>7. OneChat(x)'
      BY <2>0, <2>3, <3>4, <3>5, <3>6, ChatNumbers DEF Retry, OneChat, ChatSet, Tries, LlmIInv
    <3> QED  BY <2>0, <2>3, <3>3, <3>7, OneChatChanges DEF Retry, LlmIInv, JsonRefused, OneChat, LastHeard
  <2>4. CASE FallBack(c)
    <3>2. PICK x : x = [chat[c] EXCEPT !.pc = "post", !.format = FALSE, !.tries = 0]
      OBVIOUS
    <3>3. chat' = [chat EXCEPT ![c] = x]
      BY <2>4, <3>2 DEF FallBack, LlmIInv
    <3>4. /\ x \in ChatSet
          /\ x.pc = "post"
          /\ x.json = chat[c].json
          /\ x.format = FALSE
          /\ x.posts = chat[c].posts
          /\ x.tries = 0
          /\ x.got = chat[c].got
          /\ x.late = chat[c].late
          /\ x.asked = chat[c].asked
      BY <2>0, <2>4, <3>2, ChatNumbers DEF FallBack, ChatSet, JsonRefused
    <3>5. Tries(x)
      BY ChatNumbers, <2>0, <2>4, <3>4
         DEF FallBack, JsonRefused, OneChat, Tries, LastHeard, ChatSet
    <3>6. LastHeard(x)'
      BY ChatNumbers, <2>0, <2>4, <3>4 DEF FallBack, OneChat, Tries, LastHeard, WorthAnother, ChatSet, JsonRefused
    <3>7. OneChat(x)'
      BY <2>0, <2>4, <3>4, <3>5, <3>6, ChatNumbers DEF FallBack, OneChat, ChatSet, Tries, LlmIInv
    <3> QED  BY <2>0, <2>4, <3>3, <3>7, OneChatChanges DEF FallBack, LlmIInv, JsonRefused, OneChat, LastHeard
  <2>5. CASE EndChat(c)
    <3>2. PICK x : x = [chat[c] EXCEPT !.pc = "ended"]
      OBVIOUS
    <3>3. chat' = [chat EXCEPT ![c] = x]
      BY <2>5, <3>2 DEF EndChat, LlmIInv
    <3>4. /\ x \in ChatSet
          /\ x.pc = "ended"
          /\ x.json = chat[c].json
          /\ x.format = chat[c].format
          /\ x.posts = chat[c].posts
          /\ x.tries = chat[c].tries
          /\ x.got = chat[c].got
          /\ x.late = chat[c].late
          /\ x.asked = chat[c].asked
      BY <2>0, <2>5, <3>2, ChatNumbers DEF EndChat, ChatSet, JsonRefused
    <3>5. Tries(x)
      BY ChatNumbers, <2>0, <2>5, <3>4 DEF EndChat, OneChat, Tries, ChatSet
    <3>6. LastHeard(x)'
      BY ChatNumbers, <2>0, <2>5, <3>4 DEF EndChat, OneChat, Tries, LastHeard, WorthAnother, ChatSet, JsonRefused
    <3>7. OneChat(x)'
      BY <2>0, <2>5, <3>4, <3>5, <3>6, ChatNumbers DEF EndChat, OneChat, ChatSet, Tries, LlmIInv
    <3> QED  BY <2>0, <2>5, <3>3, <3>7, OneChatChanges DEF EndChat, LlmIInv, JsonRefused, OneChat, LastHeard
  <2> QED  BY <1>1, <2>1, <2>2, <2>3, <2>4, <2>5 DEF ChatStep
<1>2. CASE UNCHANGED llmVars
  BY <1>2 DEF llmVars, LlmIInv, Tries, LastHeard
<1> QED  BY <1>1, <1>2 DEF LlmNext

\* What the invariant says of the answers and of the number of posts.
LEMMA LlmIInvImplies == LlmIInv => LlmTypeOK /\ ChatsHonest
<1> SUFFICES ASSUME LlmIInv PROVE LlmTypeOK /\ ChatsHonest
  OBVIOUS
<1> USE LlmAssumption
<1>1. LlmTypeOK
  <2>1. ASSUME NEW c \in Chats
        PROVE  chat[c] \in [pc : {"idle", "post", "judge", "ended"}, json : BOOLEAN,
                         format : BOOLEAN, posts : 0..(2 * MaxPosts),
                         tries : 0..MaxPosts, got : Responses, late : BOOLEAN,
                         asked : 0..MaxPosts]
    <3>1. chat[c] \in ChatSet /\ Tries(chat[c])
      BY DEF LlmIInv
    <3>2. chat[c].posts \in 0..(2 * MaxPosts) /\ chat[c].asked \in 0..MaxPosts
      BY <3>1 DEF ChatSet, Tries
    <3> QED  BY <3>1, <3>2 DEF ChatSet
  <2> QED  BY <2>1 DEF LlmIInv, LlmTypeOK
<1>2. JsonRefusalHidden
  BY DEF JsonRefusalHidden, LlmIInv, LastHeard
<1>3. RoundTripPaidOnce
  BY DEF RoundTripPaidOnce, LlmIInv
<1>4. PostsBounded
  <2> SUFFICES ASSUME NEW c \in Chats
               PROVE  LET x == chat[c]
                      IN  /\ x.posts <= (IF x.json /\ ~ x.format THEN 2 * MaxPosts ELSE MaxPosts)
                          /\ x.pc = "ended" /\ x.got \in {"busy", "timeout", "transport"} =>
                               x.posts >= MaxPosts
                          /\ x.pc # "judge" /\ x.posts > 0 /\ x.got = "refused" => x.pc = "ended"
    BY DEF PostsBounded
  <2> DEFINE x == chat[c]
  <2>1. x \in ChatSet /\ Tries(x) /\ LastHeard(x)
    BY DEF LlmIInv
  <2>2. /\ x.posts \in Nat /\ x.tries \in 0..MaxPosts
        /\ x.pc \in {"idle", "post", "judge", "ended"}
    BY <2>1 DEF ChatSet
  <2> HIDE DEF x
  <2>3. x.posts >= x.tries
    BY <2>1, <2>2, ChatNumbers DEF Tries
  <2>4. x.posts <= (IF x.json /\ ~ x.format THEN 2 * MaxPosts ELSE MaxPosts)
    BY <2>1, <2>2, ChatNumbers DEF Tries
  <2>5. x.pc = "ended" /\ x.got \in {"busy", "timeout", "transport"} => x.posts >= MaxPosts
    BY <2>1, <2>2, <2>3, ChatNumbers DEF LastHeard, WorthAnother
  <2>6. x.pc # "judge" /\ x.posts > 0 /\ x.got = "refused" => x.pc = "ended"
    BY <2>1, <2>2, ChatNumbers DEF LastHeard, WorthAnother
  <2> QED  BY <2>4, <2>5, <2>6 DEF x
<1> QED  BY <1>1, <1>2, <1>3, <1>4 DEF ChatsHonest

\* The invariant holds, for any number of chats and of attempts.
LEMMA LlmInvariant == LlmSpec => []LlmIInv
  BY LlmInitIInv, LlmNextIInv, PTL DEF LlmSpec

\* A chat posts at most twice what its loop allows, and counts no more.
THEOREM LlmTypeCorrect == LlmSpec => []LlmTypeOK
  BY LlmInvariant, LlmIInvImplies, PTL

\* For any number of concurrent chats and any MaxPosts: a refusal of JSON is not
\* reported if the client can do without, is paid for once, and no chat gives up
\* earlier or posts more than it should.
THEOREM ChatsAreHonest == LlmSpec => []ChatsHonest
  BY LlmInvariant, LlmIInvImplies, PTL

-----------------------------------------------------------------------------
(***************************************************************************)
(* The reads of Feishu                                                     *)
(***************************************************************************)

(***************************************************************************)
(* The inductive invariant                                                 *)
(***************************************************************************)

Working == {"auth", "auth_pause", "call", "call_pause"}

ReadSet ==
  [pc : Working \cup {"idle", "ended"}, intent : Intents, token : Nat,
   tries : 0..MaxTries, due : Nat, answers : Nat, table : 0..Len(Tables),
   page : 0..MaxPages, out : Seq(Nat \X Nat), cut : SUBSET (Nat \X Nat),
   verdict : Verdicts]

\* What k further attempts take, each after its pause.
Need(k) == k * (Timeout + Pause)

\* A request that is not answered ends at its deadline, and before the first answer
\* the token outlives all the attempts that are left.
Sound(r, now) ==
  /\ r \in ReadSet
  /\ r.pc \in Working => now <= r.due /\ r.tries >= 1 /\ r.verdict = "none"
  /\ r.pc \in {"auth", "auth_pause"} => r.answers = 0
  /\ r.pc \in {"auth", "call"} => Timeout <= r.due
  /\ r.pc \in {"auth_pause", "call_pause"} => r.tries < MaxTries
  /\ r.pc = "call" /\ r.answers = 0 => r.token > r.due + Need(MaxTries - r.tries)
  /\ r.pc = "call_pause" /\ r.answers = 0 =>
       r.token > r.due + Timeout + Need(MaxTries - r.tries - 1)
  /\ r.verdict = "expired" => r.answers > 0

DataIInv ==
  /\ clock \in Nat
  /\ cache.token \in Nat /\ cache.until \in Nat /\ CacheHonest
  /\ read \in [Reads -> ReadSet]
  /\ \A c \in Reads : Sound(read[c], clock)

(***************************************************************************)
(* The helpers                                                             *)
(***************************************************************************)

\* A token that outlives all attempts still does when one has failed and the pause begins.
LEMMA RoomForPause ==
  ASSUME NEW now \in Nat, NEW due \in Nat, NEW expiry \in Nat, NEW wait \in Nat,
         NEW pause \in Nat, NEW need \in Nat, NEW rest \in Nat,
         now <= due, expiry > due + need, need = rest + wait + pause
  PROVE  expiry > now + pause + wait + rest
  OBVIOUS

\* One attempt less is one Timeout and one Pause less.
LEMMA NeedLess ==
  ASSUME NEW k \in Nat \ {0}
  PROVE  /\ Need(k) \in Nat /\ Need(k - 1) \in Nat
         /\ Need(k) = Need(k - 1) + Timeout + Pause
<1>1. PICK p \in Nat : p = Timeout + Pause
  BY DataAssumption DEF DataAssumption
<1>2. Timeout \in Nat /\ Pause \in Nat
  BY DataAssumption DEF DataAssumption
<1>3. PICK j \in Nat : k = j + 1
  <2>1. k - 1 \in Nat /\ k = (k - 1) + 1
    OBVIOUS
  <2>2. QED
    BY <2>1
<1>4. /\ k * p = (k - 1) * p + p
      /\ k * p \in Nat /\ (k - 1) * p \in Nat
  <2>1. (j + 1) * p = j * p + p /\ (j + 1) * p \in Nat /\ j * p \in Nat
    BY <1>1
  <2>2. k - 1 = j
    BY <1>3
  <2>3. QED
    BY <2>1, <2>2, <1>3
<1>5. QED
  BY <1>1, <1>2, <1>4 DEF Need

\* The least of two numbers is one of them (a page is cut at either bound).
LEMMA MinOfTwo ==
  ASSUME NEW x \in Nat, NEW y \in Nat
  PROVE  Min({x, y}) \in Nat /\ Min({x, y}) <= x /\ Min({x, y}) <= y
<1>1. \E m \in {x, y} : \A n \in {x, y} : m <= n
  <2>1. CASE x <= y
    BY <2>1
  <2>2. CASE y <= x
    BY <2>2
  <2>3. QED
    BY <2>1, <2>2
<1>2. Min({x, y}) \in {x, y} /\ \A n \in {x, y} : Min({x, y}) <= n
  BY <1>1 DEF Min
<1>3. QED
  BY <1>2

\* The numbers among the constants.
LEMMA Bounds ==
  /\ MaxTries \in Nat /\ MaxTries > 0 /\ MaxPages \in Nat /\ MaxPages > 0
  /\ MaxTables \in Nat /\ Timeout \in Nat /\ Pause \in Nat /\ Margin \in Nat /\ Life \in Nat
  /\ Len(Tables) \in Nat /\ Len(Tables) > 0
<1>1. Len(Tables) \in Nat /\ Len(Tables) > 0
  BY DataAssumption DEF DataAssumption
<1>2. QED
  BY <1>1, DataAssumption DEF DataAssumption

\* A read that has not begun is one.
LEMMA UnreadIsRead == Unread \in ReadSet
<1>1. 0 \in 0..MaxTries /\ 0 \in 0..MaxPages /\ 0 \in 0..Len(Tables)
  BY Bounds
<1>2. QED
  BY <1>1 DEF Unread, ReadSet, Intents, Verdicts

\* What Request makes of the locals.
LEMMA RequestFields ==
  ASSUME clock \in Nat, NEW r \in ReadSet, NEW kind \in {"auth", "call"}, r.tries < MaxTries
  PROVE  LET s == Request(r, kind)
         IN  /\ s \in ReadSet /\ s.pc = kind /\ s.tries = r.tries + 1
             /\ s.due = clock + Timeout
             /\ s.answers = r.answers /\ s.token = r.token /\ s.verdict = r.verdict
<1> DEFINE k == r.tries + 1
           d == clock + Timeout
<1>1. r.tries \in Nat
  BY Bounds DEF ReadSet
<1>2. k \in 0..MaxTries
  BY <1>1, Bounds
<1>3. d \in Nat
  BY Bounds
<1>4. kind \in Working
  BY DEF Working
<1>5. Request(r, kind) = [r EXCEPT !.pc = kind, !.tries = k, !.due = d]
  BY DEF Request
<1> HIDE DEF k, d
<1>6. LET s == [r EXCEPT !.pc = kind, !.tries = k, !.due = d]
      IN  /\ s \in ReadSet /\ s.pc = kind /\ s.tries = k /\ s.due = d
          /\ s.answers = r.answers /\ s.token = r.token /\ s.verdict = r.verdict
  BY <1>2, <1>3, <1>4 DEF ReadSet, Working
<1>7. QED
  BY <1>5, <1>6 DEF k, d

\* A request that is sent has a deadline one Timeout away.
LEMMA RequestSound ==
  ASSUME clock \in Nat, NEW r \in ReadSet, NEW kind \in {"auth", "call"},
         r.tries < MaxTries, r.verdict = "none",
         kind = "auth" => r.answers = 0,
         kind = "call" /\ r.answers = 0 =>
           r.token > clock + Timeout + Need(MaxTries - r.tries - 1)
  PROVE  Sound(Request(r, kind), clock)
<1>1. PICK s \in ReadSet :
        /\ s = Request(r, kind) /\ s.pc = kind /\ s.tries = r.tries + 1
        /\ s.due = clock + Timeout
        /\ s.answers = r.answers /\ s.token = r.token /\ s.verdict = r.verdict
  BY RequestFields
<1>2. r.tries \in Nat
  BY Bounds DEF ReadSet
<1>3. MaxTries - r.tries - 1 = MaxTries - s.tries
  BY <1>1, <1>2, Bounds
<1>4. clock <= s.due /\ s.tries >= 1 /\ Timeout <= s.due
  BY <1>1, <1>2, Bounds
<1>5. s.pc \notin {"auth_pause", "call_pause"} /\ s.verdict # "expired"
  BY <1>1
<1>6. s.pc = "call" /\ s.answers = 0 => s.token > s.due + Need(MaxTries - s.tries)
  BY <1>1, <1>3
<1>7. s.pc \in {"auth", "auth_pause"} => s.answers = 0
  BY <1>1
<1>8. Sound(s, clock)
  BY <1>1, <1>4, <1>5, <1>6, <1>7 DEF Sound
<1>9. QED
  BY <1>1, <1>8

\* A handler that ends is dead only of what its verdict says.
LEMMA EndSound ==
  ASSUME clock \in Nat, NEW r \in ReadSet, NEW verdict \in Verdicts,
         verdict = "expired" => r.answers > 0
  PROVE  Sound(End(r, verdict), clock)
<1>1. PICK u \in ReadSet : u = Unread
  BY UnreadIsRead
<1>2. PICK i \in Intents, n \in Nat, o \in Seq(Nat \X Nat), x \in SUBSET (Nat \X Nat) :
        i = r.intent /\ n = r.answers /\ o = r.out /\ x = r.cut
  BY DEF ReadSet
<1> DEFINE s == [u EXCEPT !.pc = "ended", !.intent = i, !.answers = n, !.out = o,
                          !.cut = x, !.verdict = verdict]
<1>3. End(r, verdict) = s
  BY <1>1, <1>2 DEF End
<1>4. s \in ReadSet /\ s.pc = "ended" /\ s.answers = n /\ s.verdict = verdict
  BY DEF ReadSet
<1> HIDE DEF s
<1>5. Sound(s, clock)
  BY <1>2, <1>4 DEF Sound, Working
<1>6. QED
  BY <1>3, <1>5

\* A token that lives longer than the margin, less one Timeout, outlives the first
\* request's attempts: this is what MarginAssumption is for.
LEMMA WithTokenSound ==
  ASSUME clock \in Nat, NEW r \in ReadSet, r.answers = 0, r.verdict = "none",
         NEW token \in Nat, token + Timeout > clock + Margin
  PROVE  Sound(WithToken(r, token), clock)
<1>1. CASE r.intent = "bad"
  BY <1>1, EndSound DEF WithToken, Verdicts
<1>2. CASE r.intent # "bad"
  <2>1. PICK n \in 0..1 : n = IF r.intent = "table" THEN 1 ELSE 0
    OBVIOUS
  <2>2. n \in 0..Len(Tables) /\ n \in 0..MaxPages /\ 0 \in 0..MaxTries
    BY Bounds
  <2> DEFINE s == [r EXCEPT !.token = token, !.tries = 0, !.table = n, !.page = n]
  <2>3. /\ s \in ReadSet /\ s.tries = 0 /\ s.token = token
        /\ s.answers = r.answers /\ s.verdict = r.verdict
    BY <2>2 DEF ReadSet
  <2>4. WithToken(r, token) = Request(s, "call")
    BY <1>2, <2>1 DEF WithToken
  <2> HIDE DEF s
  <2>5. Margin + Pause >= Need(MaxTries) + Timeout
    BY MarginAssumption DEF MarginAssumption, Need
  <2>6. /\ Need(MaxTries) = Need(MaxTries - 1) + Timeout + Pause
        /\ Need(MaxTries) \in Nat /\ Need(MaxTries - 1) \in Nat
    BY Bounds, NeedLess
  <2>7. token > clock + Timeout + Need(MaxTries - 1)
    BY Bounds, <2>5, <2>6
  <2>8. MaxTries - s.tries - 1 = MaxTries - 1 /\ s.tries < MaxTries
    BY Bounds, <2>3
  <2>9. Sound(Request(s, "call"), clock)
    BY <2>3, <2>7, <2>8, RequestSound
  <2>10. QED
    BY <2>4, <2>9
<1>3. QED
  BY <1>1, <1>2

\* What an answer adds to the locals.
LEMMA AnswerFields ==
  ASSUME NEW r \in ReadSet, NEW new \in MayBeCut(r)
  PROVE  \E n \in Nat, o \in Seq(Nat \X Nat), x \in SUBSET (Nat \X Nat) :
           n = r.answers + 1 /\ o = Extended(r) /\ x = r.cut \cup new
<1>1. /\ r.answers + 1 \in Nat /\ r.out \in Seq(Nat \X Nat)
      /\ r.cut \in SUBSET (Nat \X Nat) /\ <<r.table, r.page>> \in Nat \X Nat
  BY Bounds DEF ReadSet
<1>2. Append(r.out, <<r.table, r.page>>) \in Seq(Nat \X Nat)
  BY <1>1
<1>3. Extended(r) \in Seq(Nat \X Nat)
  BY <1>1, <1>2 DEF Extended
<1>4. new \subseteq {<<r.table, r.page>>}
  BY DEF MayBeCut
<1>5. r.cut \cup new \in SUBSET (Nat \X Nat)
  BY <1>1, <1>4
<1>6. QED
  BY <1>1, <1>3, <1>5

\* After an answer the walk goes on with a new request, whose token may die.
LEMMA WalkSound ==
  ASSUME clock \in Nat, NEW r \in ReadSet, r.answers > 0, r.verdict = "none"
  PROVE  Sound(Walk(r), clock)
<1>1. r.page \in Nat /\ r.table \in Nat /\ r.answers \in Nat
  BY Bounds DEF ReadSet
<1>2. CASE r.table > 0 /\ HasNextPage(r)
  <2>1. PICK p \in 0..MaxPages : p = r.page + 1
    BY <1>1, <1>2, Bounds DEF HasNextPage
  <2>2. 0 \in 0..MaxTries
    BY Bounds
  <2> DEFINE s == [r EXCEPT !.page = p, !.tries = 0]
  <2>3. s \in ReadSet /\ s.tries = 0 /\ s.answers = r.answers /\ s.verdict = r.verdict
    BY <2>2 DEF ReadSet
  <2>4. Walk(r) = Request(s, "call")
    BY <1>2, <2>1 DEF Walk
  <2> HIDE DEF s
  <2>5. Sound(Request(s, "call"), clock)
    BY <1>1, <2>3, Bounds, RequestSound
  <2>6. QED
    BY <2>4, <2>5
<1>3. CASE ~ (r.table > 0 /\ HasNextPage(r)) /\ HasNextTable(r)
  <2>1. LastTable \in Nat /\ LastTable <= Len(Tables)
    BY Bounds, MinOfTwo DEF LastTable
  <2>2. PICK t \in 0..Len(Tables) : t = r.table + 1
    <3>1. r.table < LastTable
      BY <1>3 DEF HasNextTable
    <3>2. r.table + 1 \in 0..Len(Tables)
      BY <1>1, <2>1, <3>1, Bounds
    <3>3. QED
      BY <3>2
  <2>3. 0 \in 0..MaxTries /\ 1 \in 0..MaxPages
    BY Bounds
  <2> DEFINE s == [r EXCEPT !.table = t, !.page = 1, !.tries = 0]
  <2>4. s \in ReadSet /\ s.tries = 0 /\ s.answers = r.answers /\ s.verdict = r.verdict
    BY <2>3 DEF ReadSet
  <2>5. Walk(r) = Request(s, "call")
    BY <1>3, <2>2 DEF Walk
  <2> HIDE DEF s
  <2>6. Sound(Request(s, "call"), clock)
    BY <1>1, <2>4, Bounds, RequestSound
  <2>7. QED
    BY <2>5, <2>6
<1>4. CASE ~ (r.table > 0 /\ HasNextPage(r)) /\ ~ HasNextTable(r)
  BY <1>4, EndSound DEF Walk, Verdicts
<1>5. QED
  BY <1>2, <1>3, <1>4

(***************************************************************************)
(* The steps                                                               *)
(***************************************************************************)

\* A step of one read that changes nothing else keeps the invariant if what it makes
\* of the read is sound.
LEMMA OneReadChanges ==
  ASSUME DataIInv, NEW c \in Reads, NEW s, Sound(s, clock),
         read' = [read EXCEPT ![c] = s], clock' = clock,
         cache'.token \in Nat, cache'.until \in Nat, CacheHonest'
  PROVE  DataIInv'
<1>1. s \in ReadSet
  BY DEF Sound
<1>2. read' \in [Reads -> ReadSet]
  BY <1>1 DEF DataIInv
<1>3. \A d \in Reads : read'[d] = IF d = c THEN s ELSE read[d]
  BY DEF DataIInv
<1>4. \A d \in Reads : Sound(read'[d], clock)
  BY <1>3 DEF DataIInv
<1>5. QED
  BY <1>2, <1>4 DEF DataIInv

\* An empty cache and reads that have not begun.
LEMMA DataInitIInv == DataInit => DataIInv
<1> SUFFICES ASSUME DataInit PROVE DataIInv
  OBVIOUS
<1>1. Sound(Unread, 0)
  BY UnreadIsRead DEF Sound, Unread, Working
<1>2. QED
  BY <1>1, UnreadIsRead, Bounds DEF DataInit, DataIInv, CacheHonest

\* The clock stops at the next deadline.
LEMMA TickKeepsIInv ==
  ASSUME DataIInv, DataTick
  PROVE  DataIInv'
<1>1. clock' = clock + 1 /\ read' = read /\ cache' = cache /\ clock \in Nat
  BY DEF DataTick, DataIInv
<1>2. ASSUME NEW c \in Reads
      PROVE  Sound(read[c], clock + 1)
  <2>1. read[c].pc \in Working => clock < read[c].due
    BY DEF DataTick, Working
  <2>2. Sound(read[c], clock) /\ read[c].due \in Nat
    BY DEF DataIInv, ReadSet
  <2>3. read[c].pc \in Working => clock + 1 <= read[c].due
    BY <1>1, <2>1, <2>2
  <2>4. QED
    BY <2>2, <2>3 DEF Sound
<1>3. QED
  BY <1>1, <1>2 DEF DataIInv, CacheHonest

\* The cached token lives at least Timeout less than expires_at says.
LEMMA StartKeepsIInv ==
  ASSUME DataIInv, NEW c \in Reads, Start(c)
  PROVE  DataIInv'
<1>1. PICK i \in Intents :
        LET r == [Unread EXCEPT !.intent = i]
        IN  read' = [read EXCEPT ![c] =
                       IF Fresh THEN WithToken(r, cache.token) ELSE Request(r, "auth")]
  BY DEF Start
<1> DEFINE r == [Unread EXCEPT !.intent = i]
           s == IF Fresh THEN WithToken(r, cache.token) ELSE Request(r, "auth")
<1>2. PICK u \in ReadSet : u = Unread
  BY UnreadIsRead
<1>3. r \in ReadSet /\ r.answers = 0 /\ r.verdict = "none" /\ r.tries = 0
  <2>1. u.answers = 0 /\ u.verdict = "none" /\ u.tries = 0
    BY <1>2 DEF Unread
  <2>2. LET v == [u EXCEPT !.intent = i]
        IN  v \in ReadSet /\ v.answers = u.answers /\ v.verdict = u.verdict /\ v.tries = u.tries
    BY DEF ReadSet
  <2>3. QED
    BY <1>2, <2>1, <2>2
<1>4. clock \in Nat /\ cache.token \in Nat /\ cache.until \in Nat
  BY DEF DataIInv
<1>5. CASE Fresh
  <2>1. cache.token + Timeout > clock + Margin
    BY Bounds, <1>4, <1>5 DEF Fresh, DataIInv, CacheHonest
  <2>2. Sound(WithToken(r, cache.token), clock)
    BY <1>3, <1>4, <2>1, WithTokenSound
  <2>3. QED
    BY <1>1, <1>5, <2>2, OneReadChanges DEF Start, DataIInv, CacheHonest
<1>6. CASE ~ Fresh
  <2>1. r.tries < MaxTries
    BY <1>3, Bounds
  <2>2. Sound(Request(r, "auth"), clock)
    BY <1>3, <1>4, <2>1, RequestSound
  <2>3. QED
    BY <1>1, <1>6, <2>2, OneReadChanges DEF Start, DataIInv, CacheHonest
<1>7. QED
  BY <1>5, <1>6

\* A token that arrives was issued at most Timeout ago.
LEMMA ArrivalKeepsIInv ==
  ASSUME DataIInv, NEW c \in Reads, TokenArrives(c)
  PROVE  DataIInv'
<1>1. PICK issued \in SentAt(read[c])..clock :
        /\ cache' = [token |-> issued + Life, until |-> clock + Life]
        /\ read' = [read EXCEPT ![c] = WithToken(read[c], issued + Life)]
  BY DEF TokenArrives, DataIInv
<1>2. /\ Sound(read[c], clock) /\ read[c] \in ReadSet /\ read[c].pc = "auth"
      /\ clock' = clock /\ clock \in Nat
  BY DEF TokenArrives, DataIInv
<1>3. {Timeout, Margin, Life} \subseteq Nat /\ Life > Margin
  BY DataAssumption, MarginAssumption DEF DataAssumption, MarginAssumption
<1>4. /\ read[c].answers = 0 /\ read[c].verdict = "none"
      /\ read[c].due \in Nat /\ Timeout <= read[c].due /\ clock <= read[c].due
  BY <1>2 DEF Sound, ReadSet, Working
<1>5. issued \in Nat /\ issued + Timeout >= clock
  BY <1>1, <1>2, <1>3, <1>4 DEF SentAt
<1>6. Sound(WithToken(read[c], issued + Life), clock)
  <2>1. (issued + Life) + Timeout > clock + Margin /\ issued + Life \in Nat
    BY <1>2, <1>3, <1>5
  <2>2. QED
    BY <1>2, <1>4, <2>1, WithTokenSound
<1>7. cache'.token \in Nat /\ cache'.until \in Nat /\ CacheHonest'
  BY <1>1, <1>2, <1>3, <1>5 DEF CacheHonest
<1>8. QED
  BY <1>1, <1>2, <1>6, <1>7, OneReadChanges

\* A failed attempt and the pause after it take what Need counts for them.
LEMMA RetryKeepsIInv ==
  ASSUME DataIInv, NEW c \in Reads, Fails(c) \/ Resume(c)
  PROVE  DataIInv'
<1> DEFINE r == read[c]
<1>1. /\ clock' = clock /\ cache' = cache /\ clock \in Nat
      /\ Sound(r, clock) /\ r \in ReadSet
  BY DEF Fails, Resume, DataIInv
<1>2. r.tries \in Nat /\ r.due \in Nat /\ r.token \in Nat /\ r.answers \in Nat
  BY <1>1, Bounds DEF ReadSet
<1>3. cache'.token \in Nat /\ cache'.until \in Nat /\ CacheHonest'
  BY <1>1 DEF DataIInv, CacheHonest
<1>4. ASSUME r.tries < MaxTries
      PROVE  /\ Need(MaxTries - r.tries) = Need(MaxTries - r.tries - 1) + Timeout + Pause
             /\ Need(MaxTries - r.tries) \in Nat /\ Need(MaxTries - r.tries - 1) \in Nat
  <2>1. MaxTries - r.tries \in Nat \ {0}
    BY <1>2, <1>4, Bounds
  <2>2. QED
    BY <2>1, NeedLess
<1>5. CASE Fails(c) /\ r.tries < MaxTries
  <2>1. PICK kind \in {"auth_pause", "call_pause"} :
          kind = IF r.pc = "auth" THEN "auth_pause" ELSE "call_pause"
    OBVIOUS
  <2>2. PICK d \in Nat : d = clock + Pause
    <3>1. clock \in Nat
      BY <1>1
    <3>2. clock + Pause \in Nat
      BY <3>1, Bounds
    <3>3. QED
      BY <3>2
  <2> DEFINE s == [r EXCEPT !.pc = kind, !.due = d]
  <2>3. r.pc \in {"auth", "call"}
    BY <1>5 DEF Fails, InFlight
  <2>4. read' = [read EXCEPT ![c] = s]
    <3>1. read' = [read EXCEPT ![c] =
             IF read[c].tries < MaxTries
             THEN [read[c] EXCEPT !.pc = IF read[c].pc = "auth" THEN "auth_pause"
                                         ELSE "call_pause",
                                  !.due = clock + Pause]
             ELSE End(read[c], "AGENT_INTERNAL_ERROR")]
      BY <1>5 DEF Fails
    <3>2. QED
      BY <1>5, <2>1, <2>2, <3>1
  <2>5. /\ s \in ReadSet /\ s.due = d /\ s.pc = kind /\ s.tries = r.tries
        /\ s.answers = r.answers /\ s.token = r.token /\ s.verdict = r.verdict
    BY <1>1 DEF ReadSet, Working
  <2> HIDE DEF s
  <2>6. /\ clock <= r.due /\ r.tries >= 1 /\ r.verdict = "none"
        /\ r.pc = "auth" => r.answers = 0
        /\ r.pc = "call" /\ r.answers = 0 => r.token > r.due + Need(MaxTries - r.tries)
    BY <1>1, <2>3 DEF Sound, Working
  <2>7. r.pc = "call" /\ r.answers = 0 =>
          r.token > d + Timeout + Need(MaxTries - r.tries - 1)
    <3> SUFFICES ASSUME r.pc = "call", r.answers = 0
                 PROVE  r.token > d + Timeout + Need(MaxTries - r.tries - 1)
      OBVIOUS
    <3>1. PICK m \in Nat, n \in Nat :
            /\ m = Need(MaxTries - r.tries) /\ n = Need(MaxTries - r.tries - 1)
            /\ m = n + Timeout + Pause
      BY <1>4, <1>5
    <3>2. clock \in Nat /\ clock <= r.due /\ r.token > r.due + m
      BY <1>1, <2>6, <3>1
    <3>3. d = clock + Pause /\ m = n + Timeout + Pause
      BY <2>2, <3>1
    <3>4. r.due \in Nat /\ r.token \in Nat /\ Timeout \in Nat /\ Pause \in Nat
      BY <1>2, Bounds
    <3>5. r.token > clock + Pause + Timeout + n
      BY <3>1, <3>2, <3>4, RoomForPause
    <3>6. QED
      BY <3>1, <3>3, <3>5
  <2>8. clock <= s.due
    <3>1. clock \in Nat
      BY <1>1
    <3>2. QED
      BY <2>2, <2>5, <3>1, Bounds
  <2>9. Sound(s, clock)
    BY <1>5, <2>1, <2>3, <2>5, <2>6, <2>7, <2>8 DEF Sound
  <2>10. QED
    BY <1>1, <1>3, <2>4, <2>9, OneReadChanges
<1>6. CASE Fails(c) /\ ~ r.tries < MaxTries
  <2>1. read' = [read EXCEPT ![c] = End(r, "AGENT_INTERNAL_ERROR")]
    BY <1>6 DEF Fails, DataIInv
  <2>2. Sound(End(r, "AGENT_INTERNAL_ERROR"), clock)
    BY <1>1, EndSound DEF Verdicts
  <2>3. QED
    BY <1>1, <1>3, <2>1, <2>2, OneReadChanges
<1>7. CASE Resume(c)
  <2> DEFINE kind == IF r.pc = "auth_pause" THEN "auth" ELSE "call"
  <2>1. r.pc \in {"auth_pause", "call_pause"} /\ read' = [read EXCEPT ![c] = Request(r, kind)]
    BY <1>7 DEF Resume, DataIInv
  <2>2. /\ clock <= r.due /\ r.tries < MaxTries /\ r.verdict = "none"
        /\ kind = "auth" => r.answers = 0
        /\ kind = "call" /\ r.answers = 0 =>
             r.token > r.due + Timeout + Need(MaxTries - r.tries - 1)
    BY <1>1, <2>1 DEF Sound, Working
  <2>3. kind = "call" /\ r.answers = 0 =>
          r.token > clock + Timeout + Need(MaxTries - r.tries - 1)
    <3> SUFFICES ASSUME kind = "call", r.answers = 0
                 PROVE  r.token > clock + Timeout + Need(MaxTries - r.tries - 1)
      OBVIOUS
    <3>1. PICK n \in Nat : n = Need(MaxTries - r.tries - 1)
      BY <1>4, <2>2
    <3>2. clock \in Nat /\ clock <= r.due /\ r.token > r.due + Timeout + n
      BY <1>1, <2>2, <3>1
    <3>3. r.token > clock + Timeout + n
      BY SMTT(30), <1>2, <3>2, Bounds
    <3>4. QED
      BY <3>1, <3>3
  <2>4. Sound(Request(r, kind), clock)
    BY <1>1, <2>2, <2>3, RequestSound
  <2>5. QED
    BY <1>1, <1>3, <2>1, <2>4, OneReadChanges
<1>8. QED
  BY <1>5, <1>6, <1>7

\* A response ends a request; one that finds the token dead is not the first.
LEMMA ResponseKeepsIInv ==
  ASSUME DataIInv, NEW c \in Reads, Answered(c) \/ Expired(c) \/ Refuses(c)
  PROVE  DataIInv'
<1> DEFINE r == read[c]
<1>1. /\ clock' = clock /\ cache' = cache /\ clock \in Nat
      /\ Sound(r, clock) /\ r \in ReadSet
  BY DEF Answered, Expired, Refuses, DataIInv
<1>2. cache'.token \in Nat /\ cache'.until \in Nat /\ CacheHonest'
  BY <1>1 DEF DataIInv, CacheHonest
<1>3. CASE Answered(c)
  <2>1. r.pc = "call" /\ r.verdict = "none"
    BY <1>1, <1>3 DEF Answered, Sound, Working
  <2>2. /\ r.answers \in Nat /\ r.out \in Seq(Nat \X Nat)
        /\ r.table \in Nat /\ r.page \in Nat
    <3>1. /\ r.answers \in Nat /\ r.out \in Seq(Nat \X Nat)
          /\ r.table \in 0..Len(Tables) /\ r.page \in 0..MaxPages
      BY <1>1 DEF ReadSet
    <3>2. 0..Len(Tables) \subseteq Nat /\ 0..MaxPages \subseteq Nat
      BY Bounds
    <3> HIDE DEF r
    <3> QED
      BY <3>1, <3>2
  <2>3. PICK new \in MayBeCut(r) :
          read' = [read EXCEPT ![c] =
            Walk([read[c] EXCEPT !.answers = read[c].answers + 1,
                                 !.out = Extended(read[c]), !.cut = read[c].cut \cup new])]
    BY <1>3 DEF Answered
  <2>4. PICK n \in Nat, o \in Seq(Nat \X Nat), x \in SUBSET (Nat \X Nat) :
          n = r.answers + 1 /\ o = Extended(r) /\ x = r.cut \cup new
    BY <1>1, AnswerFields
  <2> DEFINE s == [r EXCEPT !.answers = n, !.out = o, !.cut = x]
  <2>5. read' = [read EXCEPT ![c] = Walk(s)]
    BY <2>3, <2>4
  <2>6. s \in ReadSet /\ s.answers = n /\ s.verdict = r.verdict
    BY <1>1 DEF ReadSet
  <2> HIDE DEF s
  <2>7. Sound(Walk(s), clock)
    BY <1>1, <2>1, <2>2, <2>4, <2>6, WalkSound
  <2>8. QED
    BY <1>1, <1>2, <2>5, <2>7, OneReadChanges
<1>4. CASE Expired(c)
  <2>1. /\ r.pc = "call" /\ clock >= r.token
        /\ read' = [read EXCEPT ![c] = End(r, "expired")]
    BY <1>4 DEF Expired, DataIInv
  <2>2. r.answers > 0
    <3> SUFFICES ASSUME r.answers = 0 PROVE FALSE
      BY <1>1 DEF ReadSet
    <3>1. /\ clock <= r.due /\ r.token > r.due + Need(MaxTries - r.tries)
          /\ r.tries \in 0..MaxTries /\ r.due \in Nat /\ r.token \in Nat
      BY <1>1, <2>1 DEF Sound, Working, ReadSet
    <3>2. Need(MaxTries - r.tries) \in Nat
      <4>1. MaxTries \in Nat /\ {Timeout, Pause} \subseteq Nat
        BY DataAssumption DEF DataAssumption
      <4>2. CASE MaxTries - r.tries \in Nat \ {0}
        BY <4>2, NeedLess
      <4>3. CASE MaxTries - r.tries = 0
        BY <4>1, <4>3 DEF Need
      <4>4. QED
        BY <3>1, <4>1, <4>2, <4>3
    <3>3. QED
      BY <1>1, <2>1, <3>1, <3>2
  <2>3. Sound(End(r, "expired"), clock)
    BY <1>1, <2>2, EndSound DEF Verdicts
  <2>4. QED
    BY <1>1, <1>2, <2>1, <2>3, OneReadChanges
<1>5. CASE Refuses(c)
  <2>1. read' = [read EXCEPT ![c] = End(r, "AGENT_INTERNAL_ERROR")]
    BY <1>5 DEF Refuses, DataIInv
  <2>2. Sound(End(r, "AGENT_INTERNAL_ERROR"), clock)
    BY <1>1, EndSound DEF Verdicts
  <2>3. QED
    BY <1>1, <1>2, <2>1, <2>2, OneReadChanges
<1>6. QED
  BY <1>3, <1>4, <1>5

\* Every step of a read and of the clock keeps the invariant.
LEMMA DataNextIInv == DataIInv /\ [DataNext]_dataVars => DataIInv'
<1> SUFFICES ASSUME DataIInv, [DataNext]_dataVars PROVE DataIInv'
  OBVIOUS
<1>1. CASE DataTick
  BY <1>1, TickKeepsIInv
<1>2. ASSUME NEW c \in Reads,
             Start(c) \/ TokenArrives(c) \/ Answered(c) \/ Expired(c)
             \/ Fails(c) \/ Resume(c) \/ Refuses(c)
      PROVE  DataIInv'
  BY <1>2, StartKeepsIInv, ArrivalKeepsIInv, RetryKeepsIInv, ResponseKeepsIInv
<1>3. CASE UNCHANGED dataVars
  BY <1>3 DEF dataVars, DataIInv, CacheHonest
<1>4. QED
  BY <1>1, <1>2, <1>3 DEF DataNext

\* The invariant holds, for any number of reads and any durations.
THEOREM DataInvariant == DataSpec => []DataIInv
<1>1. QED
  BY DataInitIInv, DataNextIInv, PTL DEF DataSpec

\* Reads, the cache and the clock keep to their types (feishu/_http.py:20-49,
\* oauth.py:46-67, bitable.py:16-59).
THEOREM DataTypeCorrect == DataSpec => []DataTypeOK
<1>1. DataIInv => DataTypeOK
  BY DEF DataIInv, DataTypeOK, ReadSet, Working
<1>2. QED
  BY <1>1, DataInvariant, PTL

\* In whatever order tokens are issued and arrive, the one in the cache dies at most
\* one request's time before expires_at (oauth.py:63-66).
THEOREM CacheIsHonest == DataSpec => []CacheHonest
<1>1. DataIInv => CacheHonest
  BY DEF DataIInv
<1>2. QED
  BY <1>1, DataInvariant, PTL

\* If the attempts of one request fit into the margin, no read's token dies before
\* its first answer (oauth.py:47).
THEOREM FirstAnswerArrivesInTime == DataSpec => []FirstAnswerInTime
<1>1. DataIInv => FirstAnswerInTime
  BY DEF DataIInv, Sound, FirstAnswerInTime
<1>2. QED
  BY <1>1, DataInvariant, PTL

\* The cached token serves the request it is taken for, if the attempts of one request
\* fit into the margin (oauth.py:46-67).
THEOREM TokensAlwaysServe == DataSpec => []TokensServe
<1>1. CacheHonest /\ FirstAnswerInTime => TokensServe
  BY DEF TokensServe
<1>2. QED
  BY <1>1, CacheIsHonest, FirstAnswerArrivesInTime, PTL

(***************************************************************************)
(* What the reads return: the invariant                                    *)
(***************************************************************************)

\* The pages that are wanted up to the one at hand.
UpTo(r) == {y \in Wanted(r.intent, r.cut) : ~ Before(<<r.table, r.page>>, y)}

\* Which tables a read walks over.
Walks(r) ==
  /\ r.intent # "bad"
  /\ r.intent = "single" => r.table = 0
  /\ r.intent = "table" => r.table = 1
  /\ r.table = 0 => r.out = <<>>
  /\ r.table > 0 => <<r.table, r.page>> \in Wanted(r.intent, r.cut)
  /\ \A y \in r.cut : y[1] < r.table \/ y = <<r.table, r.page>>

\* Before the walk nothing is read, during the walk all that comes before the page at
\* hand, and when it has ended, as far as it came.
InPlace(r) ==
  /\ Ascending(r.out)
  /\ BeginsWith(r.out, Wanted(r.intent, r.cut))
  /\ r.pc \in {"idle", "auth", "auth_pause"} =>
       r.table = 0 /\ r.out = <<>> /\ r.cut = {}
  /\ r.pc \in {"call", "call_pause"} =>
       /\ Walks(r)
       /\ r.table > 0 =>
            ToSet(r.out) = {y \in Wanted(r.intent, r.cut) : Before(y, <<r.table, r.page>>)}
  /\ r.verdict = "OK" => ToSet(r.out) = Wanted(r.intent, r.cut)

WalkIInv == DataIInv /\ \A c \in Reads : InPlace(read[c])

(***************************************************************************)
(* What the reads return: the helpers                                      *)
(***************************************************************************)

\* A page is wanted of a table of the intent, within the table, under the cap and not
\* after the one at which the table's walk was cut short.
LEMMA WantedPage ==
  ASSUME NEW i, NEW cut, NEW t \in Nat, NEW p \in Nat
  PROVE  <<t, p>> \in Wanted(i, cut) <=>
           /\ t \in TablesOf(i) /\ p >= 1 /\ p <= MaxPages /\ p <= Tables[t]
           /\ \A y \in cut : y[1] = t => p <= y[2]
  BY Bounds DEF Wanted

\* What is wanted are pages, and only of the two intents that walk.
LEMMA WantedShape ==
  ASSUME NEW i, NEW cut, NEW y \in Wanted(i, cut)
  PROVE  /\ y = <<y[1], y[2]>> /\ y[1] \in Nat /\ y[2] \in Nat
         /\ y[1] \in TablesOf(i) /\ y[1] >= 1 /\ y[1] <= Len(Tables)
         /\ i = "table" => y[1] = 1
         /\ i = "all_tables" => y[1] <= LastTable
         /\ i \in {"table", "all_tables"}
<1>1. y \in TablesOf(i) \X (1..MaxPages)
  BY DEF Wanted
<1>2. LastTable \in Nat /\ LastTable <= Len(Tables)
  BY Bounds, MinOfTwo DEF LastTable
<1>3. /\ y[1] \in Nat /\ y[1] \in TablesOf(i) /\ y[1] >= 1 /\ y[1] <= Len(Tables)
      /\ i = "table" => y[1] = 1
      /\ i = "all_tables" => y[1] <= LastTable
      /\ i \in {"table", "all_tables"}
  BY <1>1, <1>2, Bounds DEF TablesOf
<1>4. y = <<y[1], y[2]>> /\ y[2] \in Nat
  BY <1>1, Bounds
<1>5. QED
  BY <1>3, <1>4

\* Every table of the app has a page, and a walk over all tables reaches the first.
LEMMA SomePages ==
  /\ \A t \in 1..Len(Tables) : Tables[t] \in Nat /\ Tables[t] >= 1
  /\ LastTable \in Nat /\ LastTable >= 1 /\ LastTable <= Len(Tables)
<1>1. \A t \in 1..Len(Tables) : Tables[t] \in Nat \ {0}
  BY DataAssumption DEF DataAssumption
<1>2. LastTable \in {Len(Tables), MaxTables}
  <2>1. \E m \in {Len(Tables), MaxTables} : \A n \in {Len(Tables), MaxTables} : m <= n
    <3>1. CASE Len(Tables) <= MaxTables
      BY <3>1, Bounds
    <3>2. CASE MaxTables <= Len(Tables)
      BY <3>2, Bounds
    <3>3. QED
      BY <3>1, <3>2, Bounds
  <2>2. QED
    BY <2>1 DEF LastTable, Min
<1>3. MaxTables >= 1 /\ LastTable <= Len(Tables) /\ LastTable \in Nat
  BY Bounds, MinOfTwo, DataAssumption DEF LastTable, DataAssumption
<1>4. QED
  BY <1>1, <1>2, <1>3, Bounds

\* What a page more adds to a sequence of pages.
LEMMA OnePageMore ==
  ASSUME NEW s \in Seq(Nat \X Nat), NEW x \in Nat \X Nat
  PROVE  /\ ToSet(Append(s, x)) = ToSet(s) \cup {x}
         /\ Ascending(s) /\ (\A y \in ToSet(s) : Before(y, x)) => Ascending(Append(s, x))
<1>1. /\ DOMAIN s = 1..Len(s) /\ Len(s) \in Nat
      /\ DOMAIN Append(s, x) = 1..(Len(s) + 1)
      /\ \A i \in 1..Len(s) : Append(s, x)[i] = s[i]
      /\ Append(s, x)[Len(s) + 1] = x
  OBVIOUS
<1>2. ToSet(Append(s, x)) = ToSet(s) \cup {x}
  <2>1. \A y : y \in ToSet(Append(s, x)) <=> \E i \in 1..(Len(s) + 1) : Append(s, x)[i] = y
    BY <1>1 DEF ToSet
  <2>2. \A y : y \in ToSet(s) <=> \E i \in 1..Len(s) : s[i] = y
    BY <1>1 DEF ToSet
  <2>3. \A i : i \in 1..(Len(s) + 1) <=> i \in 1..Len(s) \/ i = Len(s) + 1
    BY <1>1
  <2>4. QED
    BY <1>1, <2>1, <2>2, <2>3
<1>3. ASSUME Ascending(s), \A y \in ToSet(s) : Before(y, x)
      PROVE  Ascending(Append(s, x))
  <2> SUFFICES ASSUME NEW i \in 1..(Len(s) + 1), NEW j \in 1..(Len(s) + 1), i < j
               PROVE  Before(Append(s, x)[i], Append(s, x)[j])
    BY <1>1 DEF Ascending
  <2>1. i \in 1..Len(s)
    BY <1>1
  <2>2. CASE j = Len(s) + 1
    <3>1. s[i] \in ToSet(s)
      BY <1>1, <2>1 DEF ToSet
    <3>2. QED
      BY <1>1, <1>3, <2>1, <2>2, <3>1
  <2>3. CASE j \in 1..Len(s)
    BY <1>1, <1>3, <2>1, <2>3 DEF Ascending
  <2>4. j = Len(s) + 1 \/ j \in 1..Len(s)
    <3>1. ASSUME NEW n \in Nat, NEW k \in 1..(n + 1)
          PROVE  k = n + 1 \/ k \in 1..n
      OBVIOUS
    <3>2. Len(s) \in Nat
      BY <1>1
    <3>3. QED
      BY <3>1, <3>2
  <2>5. QED
    BY <2>2, <2>3, <2>4
<1>4. QED
  BY <1>2, <1>3

\* A read that has returned nothing has skipped nothing.
LEMMA NothingBegins ==
  ASSUME NEW pages
  PROVE  Ascending(<<>>) /\ BeginsWith(<<>>, pages) /\ ToSet(<<>>) = {}
  BY DEF Ascending, BeginsWith, ToSet

\* All pages up to one of them are a beginning.
LEMMA UpToBegins ==
  ASSUME NEW r \in ReadSet, ToSet(r.out) = UpTo(r)
  PROVE  BeginsWith(r.out, Wanted(r.intent, r.cut))
<1> DEFINE h == <<r.table, r.page>>
           pages == Wanted(r.intent, r.cut)
<1>1. h \in Nat \X Nat
  BY Bounds DEF ReadSet
<1>2. \A y \in pages : y \in Nat \X Nat
  BY WantedShape
<1>3. ASSUME NEW y \in UpTo(r), NEW x \in pages, Before(x, y)
      PROVE  x \in UpTo(r)
  <2>1. ~ Before(h, y) /\ y \in pages
    BY <1>3 DEF UpTo
  <2>2. ~ Before(h, x)
    BY <1>1, <1>2, <1>3, <2>1 DEF Before
  <2>3. QED
    BY <2>2 DEF UpTo
<1>4. UpTo(r) \subseteq pages
  BY DEF UpTo
<1>5. QED
  BY <1>3, <1>4 DEF BeginsWith

\* A request leaves the place in the walk alone.
LEMMA RequestStays ==
  ASSUME clock \in Nat, NEW r \in ReadSet, NEW kind \in {"auth", "call"}
  PROVE  LET s == Request(r, kind)
         IN  /\ s.pc = kind /\ s.intent = r.intent /\ s.verdict = r.verdict
             /\ s.table = r.table /\ s.page = r.page /\ s.out = r.out /\ s.cut = r.cut
  BY DEF Request, ReadSet

\* The end keeps what was read.
LEMMA EndStays ==
  ASSUME NEW r \in ReadSet, NEW verdict \in Verdicts
  PROVE  LET s == End(r, verdict)
         IN  /\ s.pc = "ended" /\ s.intent = r.intent /\ s.out = r.out /\ s.cut = r.cut
             /\ s.verdict = verdict
  BY DEF End, Unread, ReadSet

\* A read may end at any place in its walk with a failure, and with "OK" if it has all.
LEMMA EndPlaced ==
  ASSUME NEW r \in ReadSet, NEW verdict \in Verdicts,
         Ascending(r.out), BeginsWith(r.out, Wanted(r.intent, r.cut)),
         verdict = "OK" => ToSet(r.out) = Wanted(r.intent, r.cut)
  PROVE  InPlace(End(r, verdict))
<1> DEFINE s == End(r, verdict)
<1>1. /\ s.pc = "ended" /\ s.intent = r.intent /\ s.out = r.out /\ s.cut = r.cut
      /\ s.verdict = verdict
  BY EndStays
<1> HIDE DEF s
<1>2. InPlace(s)
  BY <1>1 DEF InPlace
<1>3. QED
  BY <1>2 DEF s

\* The page after the one at hand, if the table has one.
LEMMA NextPageFollows ==
  ASSUME NEW r \in ReadSet, Walks(r), r.table > 0, HasNextPage(r)
  PROVE  /\ <<r.table, r.page + 1>> \in Wanted(r.intent, r.cut)
         /\ UpTo(r) = {y \in Wanted(r.intent, r.cut) : Before(y, <<r.table, r.page + 1>>)}
<1>1. r.table \in Nat /\ r.page \in Nat /\ r.page + 1 \in Nat
  BY Bounds DEF ReadSet
<1>2. <<r.table, r.page>> \in Wanted(r.intent, r.cut)
  BY DEF Walks
<1>3. r.table \in TablesOf(r.intent) /\ r.table \in 1..Len(Tables)
  <2>1. r.table \in TablesOf(r.intent)
    BY <1>1, <1>2, WantedPage
  <2>2. <<r.table, r.page>>[1] <= Len(Tables) /\ <<r.table, r.page>>[1] >= 1
    BY <1>2, WantedShape
  <2>3. QED
    BY <1>1, <2>1, <2>2, Bounds
<1>4. r.page + 1 <= Tables[r.table] /\ r.page + 1 <= MaxPages
  <2>1. r.page < Tables[r.table] /\ r.page < MaxPages
    BY DEF HasNextPage
  <2>2. Tables[r.table] \in Nat
    BY <1>3, SomePages
  <2>3. QED
    BY <1>1, <2>1, <2>2, Bounds
<1>5. <<r.table, r.page + 1>> \in Wanted(r.intent, r.cut)
  <2>1. ASSUME NEW y \in r.cut, y[1] = r.table
        PROVE  FALSE
    <3>1. y = <<r.table, r.page>>
      BY <1>1, <2>1 DEF Walks
    <3>2. QED
      BY <2>1, <3>1 DEF HasNextPage
  <2>2. QED
    BY <1>1, <1>3, <1>4, <2>1, WantedPage
<1>6. ASSUME NEW y \in Wanted(r.intent, r.cut)
      PROVE  ~ Before(<<r.table, r.page>>, y) <=> Before(y, <<r.table, r.page + 1>>)
  <2>1. y[1] \in Nat /\ y[2] \in Nat
    BY WantedShape
  <2>2. QED
    BY <1>1, <2>1 DEF Before
<1>7. QED
  BY <1>5, <1>6 DEF UpTo

\* The last page of a table is followed by the first one of the next.
LEMMA NextTableFollows ==
  ASSUME NEW r \in ReadSet, Walks(r), HasNextTable(r), r.table > 0 => ~ HasNextPage(r)
  PROVE  /\ <<r.table + 1, 1>> \in Wanted(r.intent, r.cut)
         /\ (IF r.table = 0 THEN {} ELSE UpTo(r))
              = {y \in Wanted(r.intent, r.cut) : Before(y, <<r.table + 1, 1>>)}
<1>1. r.table \in Nat /\ r.page \in Nat /\ r.table + 1 \in Nat
  BY Bounds DEF ReadSet
<1>2. r.intent = "all_tables" /\ r.table + 1 <= LastTable
  BY <1>1, SomePages DEF HasNextTable
<1>3. r.table + 1 \in TablesOf(r.intent) /\ r.table + 1 \in 1..Len(Tables)
  BY <1>1, <1>2, SomePages, Bounds DEF TablesOf
<1>4. Tables[r.table + 1] \in Nat /\ Tables[r.table + 1] >= 1
  BY <1>3, SomePages
<1>5. <<r.table + 1, 1>> \in Wanted(r.intent, r.cut)
  <2>1. ASSUME NEW y \in r.cut
        PROVE  y[1] # r.table + 1
    <3>1. y[1] < r.table \/ y[1] = r.table
      BY DEF Walks
    <3>2. y[1] \in Nat
      BY DEF ReadSet
    <3>3. QED
      BY <1>1, <3>1, <3>2
  <2>2. QED
    BY <1>1, <1>3, <1>4, <2>1, Bounds, WantedPage
<1>6. CASE r.table = 0
  <2>1. ASSUME NEW y \in Wanted(r.intent, r.cut)
        PROVE  ~ Before(y, <<r.table + 1, 1>>)
    <3>1. y[1] \in Nat /\ y[2] \in Nat /\ y[1] >= 1 /\ y = <<y[1], y[2]>>
      BY WantedShape
    <3>2. y[2] >= 1
      BY <3>1, WantedPage
    <3>3. QED
      BY <1>6, <3>1, <3>2 DEF Before
  <2>2. QED
    BY <1>5, <1>6, <2>1
<1>7. CASE r.table > 0
  <2>1. ASSUME NEW y \in Wanted(r.intent, r.cut)
        PROVE  ~ Before(<<r.table, r.page>>, y) <=> Before(y, <<r.table + 1, 1>>)
    <3>1. y[1] \in Nat /\ y[2] \in Nat /\ y = <<y[1], y[2]>>
      BY WantedShape
    <3>2. /\ y[2] >= 1 /\ y[2] <= MaxPages /\ y[2] <= Tables[y[1]]
          /\ \A z \in r.cut : z[1] = y[1] => y[2] <= z[2]
      BY <3>1, Bounds DEF Wanted
    <3>3. y[1] = r.table => y[2] <= r.page
      <4> SUFFICES ASSUME y[1] = r.table, <<r.table, r.page>> \notin r.cut
                   PROVE  y[2] <= r.page
        BY <3>2
      <4>1. r.page >= MaxPages \/ r.page >= Tables[r.table]
        <5>1. Tables[r.table] \in Nat
          BY <1>1, <1>2, <1>7, SomePages, Bounds
        <5>2. QED
          BY <1>1, <1>7, <5>1, Bounds DEF HasNextPage
      <4>2. y[1] = r.table => y[2] <= Tables[r.table]
        BY <3>2
      <4>3. Tables[r.table] \in Nat
        BY <1>1, <1>2, <1>7, SomePages, Bounds
      <4>4. ASSUME NEW a \in Nat, NEW b \in Nat, NEW m \in Nat, NEW p \in Nat,
                   a <= m, a <= b, p >= m \/ p >= b
            PROVE  a <= p
        BY <4>4
      <4>5. QED
        BY <1>1, <3>1, <3>2, <4>1, <4>2, <4>3, <4>4, Bounds
    <3>4. QED
      BY <1>1, <3>1, <3>2, <3>3 DEF Before
  <2>2. QED
    BY <1>1, <1>5, <1>7, <2>1 DEF UpTo
<1>8. QED
  BY <1>1, <1>6, <1>7

\* When neither a page nor a table follows, all that is wanted is read.
LEMMA NothingFollows ==
  ASSUME NEW r \in ReadSet, Walks(r), ~ HasNextTable(r), r.table > 0 => ~ HasNextPage(r)
  PROVE  (IF r.table = 0 THEN {} ELSE UpTo(r)) = Wanted(r.intent, r.cut)
<1>1. r.table \in Nat /\ r.page \in Nat
  BY Bounds DEF ReadSet
<1>2. CASE r.table = 0
  <2>1. r.intent \notin {"table", "all_tables"}
    <3>1. r.intent # "table"
      BY <1>2 DEF Walks
    <3>2. r.intent # "all_tables"
      BY <1>1, <1>2, SomePages DEF HasNextTable
    <3>3. QED
      BY <3>1, <3>2
  <2>2. Wanted(r.intent, r.cut) = {}
    BY <2>1, WantedShape
  <2>3. QED
    BY <1>2, <2>2
<1>3. CASE r.table > 0
  <2>1. <<r.table, r.page>> \in Wanted(r.intent, r.cut)
    BY <1>3 DEF Walks
  <2>2. r.table \in 1..Len(Tables) /\ r.intent \in {"table", "all_tables"}
    <3>1. <<r.table, r.page>>[1] <= Len(Tables) /\ r.intent \in {"table", "all_tables"}
      BY <2>1, WantedShape
    <3>2. QED
      BY <1>1, <1>3, <3>1, Bounds
  <2>3. Tables[r.table] \in Nat
    BY <2>2, SomePages
  <2>4. r.page >= MaxPages \/ r.page >= Tables[r.table] \/ <<r.table, r.page>> \in r.cut
    BY <1>1, <1>3, <2>3, Bounds DEF HasNextPage
  <2>5. ASSUME NEW y \in Wanted(r.intent, r.cut)
        PROVE  ~ Before(<<r.table, r.page>>, y)
    <3>1. /\ y[1] \in Nat /\ y[2] \in Nat /\ y = <<y[1], y[2]>>
          /\ r.intent = "table" => y[1] = 1
          /\ r.intent = "all_tables" => y[1] <= LastTable
      BY WantedShape
    <3>2. /\ y[2] <= MaxPages /\ y[2] <= Tables[y[1]]
          /\ \A z \in r.cut : z[1] = y[1] => y[2] <= z[2]
      BY <3>1, Bounds DEF Wanted
    <3>3. y[1] <= r.table
      <4>1. CASE r.intent = "table"
        BY <3>1, <4>1 DEF Walks
      <4>2. CASE r.intent = "all_tables"
        <5>1. r.table >= LastTable
          BY <1>1, <4>2, SomePages DEF HasNextTable
        <5>2. QED
          BY <1>1, <3>1, <4>2, <5>1, SomePages
      <4>3. QED
        BY <2>2, <4>1, <4>2
    <3>4. y[1] = r.table => y[2] <= Tables[r.table]
      BY <3>2
    <3>5. y[1] = r.table => y[2] <= r.page
      <4>1. CASE <<r.table, r.page>> \in r.cut
        BY <3>2, <4>1
      <4>2. CASE <<r.table, r.page>> \notin r.cut
        BY SMTT(30), <1>1, <2>3, <2>4, <3>1, <3>2, <3>4, <4>2, Bounds
      <4>3. QED
        BY <4>1, <4>2
    <3>6. QED
      BY <1>1, <3>1, <3>3, <3>5 DEF Before
  <2>6. UpTo(r) = Wanted(r.intent, r.cut)
    BY <2>5 DEF UpTo
  <2>7. r.table # 0
    BY <1>1, <1>3
  <2>8. QED
    BY <2>6, <2>7
<1>4. QED
  BY <1>1, <1>2, <1>3

\* From a page that has been read the walk goes on to the next that is wanted, or ends
\* with all of them.
LEMMA WalkPlaced ==
  ASSUME clock \in Nat, NEW r \in ReadSet, r.verdict = "none", Walks(r), Ascending(r.out),
         ToSet(r.out) = IF r.table = 0 THEN {} ELSE UpTo(r)
  PROVE  InPlace(Walk(r))
<1>1. r.page \in Nat /\ r.table \in Nat
  BY Bounds DEF ReadSet
<1>2. BeginsWith(r.out, Wanted(r.intent, r.cut))
  <2>1. CASE r.table = 0
    BY <2>1 DEF BeginsWith
  <2>2. CASE r.table # 0
    BY <2>2, UpToBegins
  <2>3. QED
    BY <2>1, <2>2
<1>3. CASE r.table > 0 /\ HasNextPage(r)
  <2>1. PICK p \in 0..MaxPages : p = r.page + 1
    BY <1>1, <1>3, Bounds DEF HasNextPage
  <2>2. 0 \in 0..MaxTries
    BY Bounds
  <2> DEFINE s == [r EXCEPT !.page = p, !.tries = 0]
             q == Request(s, "call")
  <2>3. /\ s \in ReadSet /\ s.intent = r.intent /\ s.verdict = r.verdict
        /\ s.table = r.table /\ s.page = p /\ s.out = r.out /\ s.cut = r.cut
    BY <2>2 DEF ReadSet
  <2>4. Walk(r) = q
    BY <1>3, <2>1 DEF Walk
  <2> HIDE DEF s
  <2>5. /\ q.pc = "call" /\ q.intent = r.intent /\ q.verdict = "none"
        /\ q.table = r.table /\ q.page = p /\ q.out = r.out /\ q.cut = r.cut
    BY <2>3, RequestStays
  <2> HIDE DEF q
  <2>6. /\ <<r.table, p>> \in Wanted(r.intent, r.cut)
        /\ ToSet(r.out) = {y \in Wanted(r.intent, r.cut) : Before(y, <<r.table, p>>)}
    BY <1>1, <1>3, <2>1, NextPageFollows
  <2>7. Walks(q)
    <3>1. \A y \in r.cut : y[1] < r.table
      BY <1>3 DEF Walks, HasNextPage
    <3>2. QED
      BY <1>1, <1>3, <2>5, <2>6, <3>1 DEF Walks
  <2>8. InPlace(q)
    BY <1>2, <2>5, <2>6, <2>7 DEF InPlace
  <2>9. QED
    BY <2>4, <2>8
<1>4. CASE ~ (r.table > 0 /\ HasNextPage(r)) /\ HasNextTable(r)
  <2>1. PICK t \in 0..Len(Tables) : t = r.table + 1
    <3>1. r.table < LastTable
      BY <1>4 DEF HasNextTable
    <3>2. r.table + 1 \in 0..Len(Tables)
      BY <1>1, <3>1, SomePages, Bounds
    <3>3. QED
      BY <3>2
  <2>2. 0 \in 0..MaxTries /\ 1 \in 0..MaxPages
    BY Bounds
  <2> DEFINE s == [r EXCEPT !.table = t, !.page = 1, !.tries = 0]
             q == Request(s, "call")
  <2>3. /\ s \in ReadSet /\ s.intent = r.intent /\ s.verdict = r.verdict
        /\ s.table = t /\ s.page = 1 /\ s.out = r.out /\ s.cut = r.cut
    BY <2>2 DEF ReadSet
  <2>4. Walk(r) = q
    BY <1>4, <2>1 DEF Walk
  <2> HIDE DEF s
  <2>5. /\ q.pc = "call" /\ q.intent = r.intent /\ q.verdict = "none"
        /\ q.table = t /\ q.page = 1 /\ q.out = r.out /\ q.cut = r.cut
    BY <2>3, RequestStays
  <2> HIDE DEF q
  <2>6. /\ <<t, 1>> \in Wanted(r.intent, r.cut)
        /\ ToSet(r.out) = {y \in Wanted(r.intent, r.cut) : Before(y, <<t, 1>>)}
    BY <1>4, <2>1, NextTableFollows
  <2>7. r.intent = "all_tables" /\ t > 0
    BY <1>1, <1>4, <2>1 DEF HasNextTable
  <2>8. Walks(q)
    <3>1. ASSUME NEW y \in r.cut PROVE y[1] < t
      <4>1. y[1] < r.table \/ y[1] = r.table
        BY DEF Walks
      <4>2. y[1] \in Nat
        BY DEF ReadSet
      <4>3. QED
        BY <1>1, <2>1, <4>1, <4>2
    <3>2. QED
      BY <2>5, <2>6, <2>7, <3>1 DEF Walks
  <2>9. InPlace(q)
    BY <1>2, <2>5, <2>6, <2>8 DEF InPlace
  <2>10. QED
    BY <2>4, <2>9
<1>5. CASE ~ (r.table > 0 /\ HasNextPage(r)) /\ ~ HasNextTable(r)
  <2>1. ToSet(r.out) = Wanted(r.intent, r.cut)
    BY <1>5, NothingFollows
  <2>2. Walk(r) = End(r, "OK")
    BY <1>5 DEF Walk
  <2>3. QED
    BY <1>2, <2>1, <2>2, EndPlaced DEF Verdicts
<1>6. QED
  BY <1>3, <1>4, <1>5

\* A read that gets its token begins its walk at the first page.
LEMMA WithTokenPlaced ==
  ASSUME clock \in Nat, NEW r \in ReadSet, NEW token \in Nat,
         r.verdict = "none", r.table = 0, r.out = <<>>, r.cut = {}
  PROVE  InPlace(WithToken(r, token))
<1>1. CASE r.intent = "bad"
  BY <1>1, NothingBegins, EndPlaced DEF WithToken, Verdicts
<1>2. CASE r.intent # "bad"
  <2>1. PICK n \in 0..1 : n = IF r.intent = "table" THEN 1 ELSE 0
    OBVIOUS
  <2>2. n \in 0..Len(Tables) /\ n \in 0..MaxPages /\ 0 \in 0..MaxTries
    BY Bounds
  <2> DEFINE s == [r EXCEPT !.token = token, !.tries = 0, !.table = n, !.page = n]
             q == Request(s, "call")
  <2>3. /\ s \in ReadSet /\ s.intent = r.intent /\ s.verdict = r.verdict
        /\ s.table = n /\ s.page = n /\ s.out = r.out /\ s.cut = r.cut
    BY <2>2 DEF ReadSet
  <2>4. WithToken(r, token) = q
    BY <1>2, <2>1 DEF WithToken
  <2> HIDE DEF s
  <2>5. /\ q.pc = "call" /\ q.intent = r.intent /\ q.verdict = "none"
        /\ q.table = n /\ q.page = n /\ q.out = <<>> /\ q.cut = {}
    BY <2>3, RequestStays
  <2> HIDE DEF q
  <2>6. ASSUME n > 0
        PROVE  /\ <<n, n>> \in Wanted(r.intent, r.cut)
               /\ {y \in Wanted(r.intent, r.cut) : Before(y, <<n, n>>)} = {}
    <3>1. n = 1 /\ r.intent = "table"
      BY <2>1, <2>6
    <3>2. Tables[1] \in Nat /\ Tables[1] >= 1
      BY SomePages, Bounds
    <3>3. <<1, 1>> \in Wanted(r.intent, r.cut)
      <4>1. 1 \in TablesOf(r.intent)
        BY <3>1 DEF TablesOf
      <4>2. 1 \in Nat /\ 1 >= 1 /\ 1 <= MaxPages /\ 1 <= Tables[1]
        BY <3>2, Bounds
      <4>3. QED
        BY <4>1, <4>2, WantedPage
    <3>4. ASSUME NEW y \in Wanted(r.intent, r.cut)
          PROVE  ~ Before(y, <<1, 1>>)
      <4>1. y[1] \in Nat /\ y[2] \in Nat /\ y[1] >= 1 /\ y = <<y[1], y[2]>>
        BY WantedShape
      <4>2. y[2] >= 1
        BY <4>1, Bounds DEF Wanted
      <4>3. QED
        BY <4>1, <4>2 DEF Before
    <3>5. QED
      BY <3>1, <3>3, <3>4
  <2>7. Walks(q)
    BY <1>2, <2>1, <2>5, <2>6 DEF Walks
  <2>8. InPlace(q)
    BY <2>5, <2>6, <2>7, NothingBegins DEF InPlace
  <2>9. QED
    BY <2>4, <2>8
<1>3. QED
  BY <1>1, <1>2

(***************************************************************************)
(* What the reads return: the steps                                        *)
(***************************************************************************)

\* The reads that a step leaves alone stay where they are.
LEMMA OneReadMoves ==
  ASSUME WalkIInv, NEW c \in Reads, NEW s, InPlace(s), read' = [read EXCEPT ![c] = s]
  PROVE  \A d \in Reads : InPlace(read'[d])
<1>1. \A d \in Reads : read'[d] = IF d = c THEN s ELSE read[d]
  BY DEF WalkIInv, DataIInv
<1>2. QED
  BY <1>1 DEF WalkIInv

\* A read that begins has read nothing.
LEMMA StartPlaced ==
  ASSUME WalkIInv, NEW c \in Reads, Start(c)
  PROVE  \A d \in Reads : InPlace(read'[d])
<1>1. PICK i \in Intents :
        LET r == [Unread EXCEPT !.intent = i]
        IN  read' = [read EXCEPT ![c] =
                       IF Fresh THEN WithToken(r, cache.token) ELSE Request(r, "auth")]
  BY DEF Start
<1> DEFINE r == [Unread EXCEPT !.intent = i]
           q == Request(r, "auth")
<1>2. PICK u \in ReadSet : u = Unread
  BY UnreadIsRead
<1>3. r \in ReadSet /\ r.verdict = "none" /\ r.table = 0 /\ r.out = <<>> /\ r.cut = {}
  <2>1. u.verdict = "none" /\ u.table = 0 /\ u.out = <<>> /\ u.cut = {}
    BY <1>2 DEF Unread
  <2>2. LET v == [u EXCEPT !.intent = i]
        IN  /\ v \in ReadSet /\ v.verdict = u.verdict
            /\ v.table = u.table /\ v.out = u.out /\ v.cut = u.cut
    BY DEF ReadSet
  <2>3. QED
    BY <1>2, <2>1, <2>2
<1>4. clock \in Nat /\ cache.token \in Nat
  BY DEF WalkIInv, DataIInv
<1> HIDE DEF r
<1>5. InPlace(WithToken(r, cache.token))
  BY <1>3, <1>4, WithTokenPlaced
<1>6. InPlace(q)
  <2>1. q.pc = "auth" /\ q.verdict = "none" /\ q.table = 0 /\ q.out = <<>> /\ q.cut = {}
    BY <1>3, <1>4, RequestStays
  <2> HIDE DEF q
  <2>2. QED
    BY <2>1, NothingBegins DEF InPlace
<1>7. QED
  BY <1>1, <1>5, <1>6, OneReadMoves DEF r

\* A token that arrives finds a read that has read nothing.
LEMMA ArrivalPlaced ==
  ASSUME WalkIInv, NEW c \in Reads, TokenArrives(c)
  PROVE  \A d \in Reads : InPlace(read'[d])
<1>1. PICK issued \in SentAt(read[c])..clock :
        read' = [read EXCEPT ![c] = WithToken(read[c], issued + Life)]
  BY DEF TokenArrives, WalkIInv, DataIInv
<1>2. /\ Sound(read[c], clock) /\ InPlace(read[c]) /\ read[c] \in ReadSet
      /\ read[c].pc = "auth" /\ clock \in Nat
  BY DEF TokenArrives, WalkIInv, DataIInv
<1>3. /\ read[c].verdict = "none" /\ read[c].due \in Nat /\ Timeout <= read[c].due
      /\ read[c].table = 0 /\ read[c].out = <<>> /\ read[c].cut = {}
  BY <1>2 DEF Sound, ReadSet, Working, InPlace
<1>4. issued + Life \in Nat
  BY SMTT(30), <1>2, <1>3, Bounds DEF SentAt
<1>5. InPlace(WithToken(read[c], issued + Life))
  BY <1>2, <1>3, <1>4, WithTokenPlaced
<1>6. QED
  BY <1>1, <1>5, OneReadMoves

\* Another attempt is one for the same page.
LEMMA RetryPlaced ==
  ASSUME WalkIInv, NEW c \in Reads, Fails(c) \/ Resume(c)
  PROVE  \A d \in Reads : InPlace(read'[d])
<1> DEFINE r == read[c]
<1>1. clock \in Nat /\ r \in ReadSet /\ InPlace(r) /\ Sound(r, clock)
  BY DEF WalkIInv, DataIInv
<1>2. CASE Fails(c) /\ r.tries < MaxTries
  <2>1. PICK kind \in {"auth_pause", "call_pause"} :
          kind = IF r.pc = "auth" THEN "auth_pause" ELSE "call_pause"
    OBVIOUS
  <2> DEFINE s == [r EXCEPT !.pc = kind, !.due = clock + Pause]
  <2>2. r.pc \in {"auth", "call"}
    BY <1>2 DEF Fails, InFlight
  <2>3. read' = [read EXCEPT ![c] = s]
    <3>1. read' = [read EXCEPT ![c] =
             IF read[c].tries < MaxTries
             THEN [read[c] EXCEPT !.pc = IF read[c].pc = "auth" THEN "auth_pause"
                                         ELSE "call_pause",
                                  !.due = clock + Pause]
             ELSE End(read[c], "AGENT_INTERNAL_ERROR")]
      BY <1>2 DEF Fails
    <3>2. QED
      BY <1>2, <2>1, <3>1
  <2>4. /\ s.pc = kind /\ s.intent = r.intent /\ s.verdict = r.verdict
        /\ s.table = r.table /\ s.page = r.page /\ s.out = r.out /\ s.cut = r.cut
    BY <1>1 DEF ReadSet
  <2> HIDE DEF s
  <2>5. Walks(r) => Walks(s)
    BY <2>4 DEF Walks
  <2>6. InPlace(s)
    BY <1>1, <2>1, <2>2, <2>4, <2>5 DEF InPlace
  <2>7. QED
    BY <2>3, <2>6, OneReadMoves
<1>3. CASE Fails(c) /\ ~ r.tries < MaxTries
  <2>1. read' = [read EXCEPT ![c] = End(r, "AGENT_INTERNAL_ERROR")]
    BY <1>3 DEF Fails, WalkIInv, DataIInv
  <2>2. InPlace(End(r, "AGENT_INTERNAL_ERROR"))
    BY <1>1, EndPlaced DEF Verdicts, InPlace
  <2>3. QED
    BY <2>1, <2>2, OneReadMoves
<1>4. CASE Resume(c)
  <2> DEFINE kind == IF r.pc = "auth_pause" THEN "auth" ELSE "call"
             q == Request(r, kind)
  <2>1. r.pc \in {"auth_pause", "call_pause"} /\ read' = [read EXCEPT ![c] = q]
    BY <1>4 DEF Resume, WalkIInv, DataIInv
  <2>2. /\ q.pc = kind /\ q.intent = r.intent /\ q.verdict = r.verdict
        /\ q.table = r.table /\ q.page = r.page /\ q.out = r.out /\ q.cut = r.cut
    BY <1>1, RequestStays
  <2> HIDE DEF q
  <2>3. Walks(r) => Walks(q)
    BY <2>2 DEF Walks
  <2>4. InPlace(q)
    BY <1>1, <2>1, <2>2, <2>3 DEF InPlace
  <2>5. QED
    BY <2>1, <2>4, OneReadMoves
<1>5. QED
  BY <1>2, <1>3, <1>4

\* A walk that is cut short at the page at hand still wants all that comes before it.
LEMMA CutStays ==
  ASSUME NEW i, NEW cut \in SUBSET (Nat \X Nat), NEW h \in Nat \X Nat,
         NEW new \in SUBSET {h}
  PROVE  /\ h \in Wanted(i, cut) => h \in Wanted(i, cut \cup new)
         /\ \A y : ~ Before(h, y) => (y \in Wanted(i, cut \cup new) <=> y \in Wanted(i, cut))
<1>1. h \in Wanted(i, cut) => h \in Wanted(i, cut \cup new)
  BY DEF Wanted
<1>2. ASSUME NEW y, ~ Before(h, y)
      PROVE  y \in Wanted(i, cut \cup new) <=> y \in Wanted(i, cut)
  <2>1. y \in Wanted(i, cut \cup new) => y \in Wanted(i, cut)
    BY DEF Wanted
  <2>2. ASSUME y \in Wanted(i, cut)
        PROVE  y \in Wanted(i, cut \cup new)
    <3>1. y[1] \in Nat /\ y[2] \in Nat
      BY <2>2, WantedShape
    <3>2. y[1] = h[1] => y[2] <= h[2]
      BY <1>2, <3>1 DEF Before
    <3>3. QED
      BY <2>2, <3>2 DEF Wanted
  <2>3. QED
    BY <2>1, <2>2
<1>3. QED
  BY <1>1, <1>2

\* A page that has been read is the one after all that were.
LEMMA AnswerPlaced ==
  ASSUME WalkIInv, NEW c \in Reads, Answered(c)
  PROVE  \A d \in Reads : InPlace(read'[d])
<1> DEFINE r == read[c]
           h == <<r.table, r.page>>
<1>1. /\ clock \in Nat /\ r \in ReadSet /\ InPlace(r) /\ Sound(r, clock) /\ r.pc = "call"
  BY DEF Answered, WalkIInv, DataIInv
<1>2. r.verdict = "none"
  BY <1>1 DEF Sound, Working
<1>3. /\ r.answers \in Nat /\ r.out \in Seq(Nat \X Nat) /\ h \in Nat \X Nat
      /\ r.table \in Nat
  <2>1. r.answers \in Nat /\ r.out \in Seq(Nat \X Nat)
    BY <1>1 DEF ReadSet
  <2>2. r.table \in 0..Len(Tables) /\ r.page \in 0..MaxPages
    BY <1>1 DEF ReadSet
  <2>3. r.table \in Nat /\ r.page \in Nat
    BY <2>2, Bounds
  <2>4. QED
    BY <2>1, <2>3
<1>4. /\ Walks(r) /\ Ascending(r.out)
      /\ r.table > 0 => ToSet(r.out) = {y \in Wanted(r.intent, r.cut) : Before(y, h)}
  BY <1>1 DEF InPlace
<1>5. PICK new \in MayBeCut(r) :
        read' = [read EXCEPT ![c] =
          Walk([read[c] EXCEPT !.answers = read[c].answers + 1,
                               !.out = Extended(read[c]), !.cut = read[c].cut \cup new])]
  BY DEF Answered
<1>6. PICK n \in Nat, o \in Seq(Nat \X Nat), x \in SUBSET (Nat \X Nat) :
        n = r.answers + 1 /\ o = Extended(r) /\ x = r.cut \cup new
  BY <1>1, AnswerFields
<1> DEFINE s == [r EXCEPT !.answers = n, !.out = o, !.cut = x]
<1>7. /\ s \in ReadSet /\ s.out = o /\ s.cut = x
      /\ s.verdict = r.verdict /\ s.intent = r.intent
      /\ s.table = r.table /\ s.page = r.page
      /\ read' = [read EXCEPT ![c] = Walk(s)]
  <2>1. /\ s \in ReadSet /\ s.out = o /\ s.cut = x
        /\ s.verdict = r.verdict /\ s.intent = r.intent
        /\ s.table = r.table /\ s.page = r.page
    BY <1>1 DEF ReadSet
  <2>2. read' = [read EXCEPT ![c] = Walk(s)]
    BY <1>5, <1>6
  <2>3. QED
    BY <2>1, <2>2
<1> HIDE DEF s
<1>8. Walks(s)
  <2>1. new \subseteq {h} /\ (r.table = 0 => new = {})
    BY <1>3 DEF MayBeCut
  <2>2. r.table = 0 => o = <<>>
    BY <1>4, <1>6 DEF Walks, Extended
  <2>3. \A y \in x : y[1] < r.table \/ y = h
    BY <1>4, <1>6, <2>1 DEF Walks
  <2>4. r.table > 0 => h \in Wanted(r.intent, x)
    BY <1>3, <1>4, <1>6, <2>1, CutStays DEF Walks
  <2>5. QED
    BY <1>4, <1>7, <2>2, <2>3, <2>4 DEF Walks
<1>9. UpTo(s) = UpTo(r)
  <2>1. new \subseteq {h}
    BY DEF MayBeCut
  <2>2. UpTo(s) = {y \in Wanted(r.intent, x) : ~ Before(h, y)}
    BY <1>7 DEF UpTo
  <2>3. \A y : ~ Before(h, y) =>
          (y \in Wanted(r.intent, x) <=> y \in Wanted(r.intent, r.cut))
    BY <1>3, <1>6, <2>1, CutStays
  <2>4. QED
    BY <2>2, <2>3 DEF UpTo
<1>10. Ascending(o) /\ ToSet(o) = IF r.table = 0 THEN {} ELSE UpTo(r)
  <2>1. CASE r.table = 0
    <3>1. o = <<>>
      BY <1>4, <1>6, <2>1 DEF Walks, Extended
    <3>2. QED
      BY <2>1, <3>1, NothingBegins
  <2>2. CASE r.table # 0
    <3>1. ToSet(r.out) = {y \in Wanted(r.intent, r.cut) : Before(y, h)} /\ h \in Wanted(r.intent, r.cut)
      <4>1. r.table > 0
        BY <1>3, <2>2
      <4>2. QED
        BY <1>4, <4>1 DEF Walks
    <3>2. ToSet(o) = ToSet(r.out) \cup {h} /\ Ascending(o)
      <4>1. \A y \in ToSet(r.out) : Before(y, h)
        BY <3>1
      <4>2. o = Append(r.out, h)
        BY <1>6, <2>2 DEF Extended
      <4>3. QED
        BY <1>3, <1>4, <4>1, <4>2, OnePageMore
    <3>3. ASSUME NEW y \in Wanted(r.intent, r.cut)
          PROVE  Before(y, h) \/ y = h <=> ~ Before(h, y)
      <4>1. y[1] \in Nat /\ y[2] \in Nat /\ y = <<y[1], y[2]>>
        BY WantedShape
      <4>2. r.table \in Nat /\ r.page \in Nat
        BY <1>3
      <4>3. y = h <=> y[1] = r.table /\ y[2] = r.page
        BY <4>1
      <4>4. QED
        BY <4>1, <4>2, <4>3 DEF Before
    <3>4. ToSet(o) = UpTo(r)
      BY <3>1, <3>2, <3>3 DEF UpTo
    <3>5. QED
      BY <2>2, <3>2, <3>4
  <2>3. QED
    BY <2>1, <2>2
<1>11. InPlace(Walk(s))
  BY <1>1, <1>2, <1>7, <1>8, <1>9, <1>10, WalkPlaced
<1>12. QED
  BY <1>7, <1>11, OneReadMoves

\* A read that fails has read a beginning.
LEMMA FailurePlaced ==
  ASSUME WalkIInv, NEW c \in Reads, Expired(c) \/ Refuses(c)
  PROVE  \A d \in Reads : InPlace(read'[d])
<1> DEFINE r == read[c]
<1>1. r \in ReadSet /\ InPlace(r)
  BY DEF WalkIInv, DataIInv
<1>2. PICK verdict \in {"expired", "AGENT_INTERNAL_ERROR"} :
        read' = [read EXCEPT ![c] = End(r, verdict)]
  BY DEF Expired, Refuses, WalkIInv, DataIInv
<1>3. InPlace(End(r, verdict))
  BY <1>1, EndPlaced DEF Verdicts, InPlace
<1>4. QED
  BY <1>2, <1>3, OneReadMoves

\* At the beginning no read has begun.
LEMMA WalkInit == DataInit => WalkIInv
<1> SUFFICES ASSUME DataInit PROVE WalkIInv
  OBVIOUS
<1>1. InPlace(Unread)
  BY NothingBegins DEF InPlace, Unread
<1>2. QED
  BY <1>1, DataInitIInv DEF DataInit, WalkIInv

\* Every step keeps every read at its place or moves it to the next.
LEMMA WalkNext == WalkIInv /\ [DataNext]_dataVars => WalkIInv'
<1> SUFFICES ASSUME WalkIInv, [DataNext]_dataVars PROVE WalkIInv'
  OBVIOUS
<1>1. DataIInv'
  BY DataNextIInv DEF WalkIInv
<1>2. CASE DataTick \/ UNCHANGED dataVars
  BY <1>1, <1>2 DEF DataTick, dataVars, WalkIInv
<1>3. ASSUME NEW c \in Reads,
             Start(c) \/ TokenArrives(c) \/ Answered(c) \/ Expired(c)
             \/ Fails(c) \/ Resume(c) \/ Refuses(c)
      PROVE  \A d \in Reads : InPlace(read'[d])
  BY <1>3, StartPlaced, ArrivalPlaced, RetryPlaced, AnswerPlaced, FailurePlaced
<1>4. QED
  BY <1>1, <1>2, <1>3 DEF DataNext, WalkIInv

\* A read that succeeds returns every page of its tables, up to the caps, once and in
\* order, whatever attempts failed on the way, and one that fails had skipped none
\* (bitable.py:35-57, handler.py:148-160).
THEOREM NothingIsSkipped == DataSpec => []NothingSkipped
<1>1. WalkIInv => NothingSkipped
  BY DEF WalkIInv, InPlace, NothingSkipped
<1>2. QED
  BY <1>1, WalkInit, WalkNext, PTL DEF DataSpec

-----------------------------------------------------------------------------
(***************************************************************************)
(* The web agent                                                           *)
(***************************************************************************)

\* Until it has answered the agent has nothing to report, and what it read it kept.
WebIInv ==
  /\ WebTypeOK
  /\ step # "answered" => cause = "none" /\ told = "none" /\ total = kept
  /\ PageWithinCap

\* The invariant holds for every limit on the bytes and every way to cut a page.
LEMMA WebInvariant == WebSpec => []WebIInv
<1>1. WebInit => WebIInv
  BY WebAssumption DEF WebInit, WebIInv, WebTypeOK, PageWithinCap, Causes, Answers
<1>2. WebIInv /\ [WebNext]_webVars => WebIInv'
  <2> SUFFICES ASSUME WebIInv, [WebNext]_webVars PROVE WebIInv'
    OBVIOUS
  <2> USE WebAssumption DEF WebIInv, WebTypeOK, PageWithinCap, Causes, Answers, Answer
  <2>1. CASE SearchInvalid \/ SearchReturns \/ SearchRaises
    BY <2>1 DEF SearchInvalid, SearchReturns, SearchRaises, HitCap
  <2>2. CASE CheckFails \/ CheckPasses \/ OtherIntent
    BY <2>2 DEF CheckFails, CheckPasses, OtherIntent
  <2>3. CASE Chunk
    BY <2>3 DEF Chunk
  <2>4. CASE StreamFails \/ StreamEnds \/ DecodeFails \/ Summarize
    BY <2>4 DEF StreamFails, StreamEnds, DecodeFails, Summarize, Foreseen
  <2>5. CASE UNCHANGED webVars
    BY <2>5 DEF webVars
  <2> QED  BY <2>1, <2>2, <2>3, <2>4, <2>5 DEF WebNext
<1> QED  BY <1>1, <1>2, PTL DEF WebSpec

\* The handler is at one of its steps, with an answer of its kind (handler.py:39-99).
THEOREM WebTypeCorrect == WebSpec => []WebTypeOK
  BY WebInvariant, PTL DEF WebIInv

\* The agent never holds more of a page than max_size, and sums up only pages of which
\* nothing was dropped, however large the chunks are (fetcher.py:253-264).
THEOREM PageStaysWithinCap == WebSpec => []PageWithinCap
  BY WebInvariant, PTL DEF WebIInv

-----------------------------------------------------------------------------
(***************************************************************************)
(* The agents together                                                     *)
(***************************************************************************)

\* Every behaviour of the agents in one run is one of each agent: each has a process of
\* its own, and what it hears of the others its own model leaves open.
THEOREM PartsAreAgents ==
  PartsSpec => Spec /\ CallSpec /\ LlmSpec /\ DataSpec /\ WebSpec
<1>1. PartsInit => Init /\ CallInit /\ LlmInit /\ DataInit /\ WebInit
  BY DEF PartsInit
<1>2. [PartsNext]_PartsVars =>
        /\ [Next]_vars /\ [CallNext]_callVars /\ [LlmNext]_llmVars
        /\ [DataNext]_dataVars /\ [WebNext]_webVars
  <2> SUFFICES ASSUME [PartsNext]_PartsVars
               PROVE  /\ [Next]_vars /\ [CallNext]_callVars /\ [LlmNext]_llmVars
                      /\ [DataNext]_dataVars /\ [WebNext]_webVars
    OBVIOUS
  <2>1. CASE UNCHANGED PartsVars
    BY <2>1 DEF PartsVars
  <2>2. CASE Next /\ UNCHANGED <<callVars, llmVars, dataVars, webVars>>
    BY <2>2
  <2>3. CASE CallNext /\ UNCHANGED <<vars, llmVars, dataVars, webVars>>
    BY <2>3
  <2>4. CASE LlmNext /\ UNCHANGED <<vars, callVars, dataVars, webVars>>
    BY <2>4
  <2>5. CASE DataNext /\ UNCHANGED <<vars, callVars, llmVars, webVars>>
    BY <2>5
  <2>6. CASE WebNext /\ UNCHANGED <<vars, callVars, llmVars, dataVars>>
    BY <2>6
  <2>7. QED
    BY <2>1, <2>2, <2>3, <2>4, <2>5, <2>6 DEF PartsNext
<1>3. QED
  BY <1>1, <1>2, PTL DEF PartsSpec, Spec, CallSpec, LlmSpec, DataSpec, WebSpec

\* All of them keep to their types, in any behaviour of the run.
THEOREM PartsTypeCorrect == PartsSpec => []PartsTypeOK
<1>1. TypeOK /\ CallTypeOK /\ LlmTypeOK /\ DataTypeOK /\ WebTypeOK => PartsTypeOK
  BY DEF PartsTypeOK
<1>2. QED
  BY <1>1, PartsAreAgents, TypeCorrect, CallTypeCorrect, LlmTypeCorrect, DataTypeCorrect,
     WebTypeCorrect, PTL

\* What is proved of each agent (doc_assistant, client.py, llm/, data_agent, web_agent)
\* holds in every behaviour of the run.
THEOREM AgentsAreSafe ==
  PartsSpec => /\ []( /\ GraphSound /\ InOrder /\ AnswersBacked
                      /\ CallsHonest /\ ChatsHonest
                      /\ TokensServe /\ NothingSkipped /\ PageWithinCap )
               /\ SentOnce
  BY PartsAreAgents, GraphSoundHolds, InOrderHolds, AnswersBackedHolds, SentOnceHolds,
     CallsAreHonest, ChatsAreHonest, TokensAlwaysServe, NothingIsSkipped,
     PageStaysWithinCap, PTL DEF SentOnce
=============================================================================
