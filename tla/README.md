# A TLA+ model of Agent-Token

Agent-Token lets a user's agent call other agents through a gateway with
short-lived, narrowly scoped, one-time tokens that an identity provider (IdP)
issues. This directory holds TLA+ modules that model its core, configurations
that check them with TLC, and proofs that TLAPS checks. Paths below are relative
to `src/`.

## 1. The system

### 1.1 Components, their state and their operations

| Component | Code | State | Operations |
|---|---|---|---|
| Gateway: request path | `infra/gateway/middleware/authn.py`, `jwt_token/dpop.py`, `authz/`, `routes/invoke.py` | Redis: `revoked:*` sets (read), `dpop:jti:<jti>`, `jti:used:<jti>` | authenticate, check revocation, check proof and its replay marker, ask OPA, consume the token, call the agent, record |
| Gateway: rate limiter | `infra/gateway/middleware/rate_limit.py` | Redis hash `rl:{sub}:{agent}`: `tokens`, `last_refill` | one Lua script |
| Gateway: circuit breaker | `infra/gateway/routing/circuit_breaker.py`, `upstream_client.py` | per agent: `_state`, `_failures`, `_opened_at`, `_probes_allowed` | `before_call`, `on_success`, `on_failure` |
| Gateway: plan executor | `infra/gateway/routes/plan.py` | `_plans` (in memory, lost on restart) | submit, poll, execute a DAG wave by wave |
| Gateway: JWKS cache | `infra/gateway/jwt_token/jwks_cache.py` | up to ten keys, time of the last fetch, a lock | get, refresh |
| IdP: token exchange | `infra/idp/token_exchange/`, `dpop/validator.py` | Redis: `assertion:jti:*`, `dpop:jti:*`, `rate:user:*`, `rate:agent:*` | verify assertion, user token and proof; delegation, executor, intersection, context; count; sign; record |
| IdP: revocation | `infra/idp/revoke/`, `storage/redis.py` | Redis: `revoked:agents`, `revoked:jtis`, ... each with one expiry | add a member, bring the expiry up, broadcast |
| IdP: OIDC | `infra/idp/oidc/` | Redis: sessions, codes, refresh tokens | authorize, log in, exchange a code, refresh, revoke |
| IdP: signing keys | `infra/idp/kms/`, `jwks/` | `meta.json` (active, previous), key files, table `jwks_rotation`, a 60 s cache | sign, rotate, publish, start again |
| IdP: agents' keys | `infra/idp/agents/register.py`, `rotate.py`, `agents/common/bootstrap_register.py` | one SQLite row per agent; the agent's two files | register, rotate, save |
| IdP: capabilities, users | `infra/idp/agents/loader.py`, `sod_check.py`, `users/loader.py`, `main.py` | `_capabilities` in memory, table `users` | load at start, reload |
| Audit writers | `infra/gateway/middleware/audit.py`, `infra/idp/audit/writer.py`, `infra/audit-api/writer.py`, `backup.py`, `sse.py` | three bounded queues, three SQLite tables, JSONL backup, subscribers' queues | emit, collect, flush, requeue, back up, forward, broadcast, stop |
| Audit API: readers | `infra/audit-api/queries.py`, `main.py`, `sse.py` | a queue per subscriber | page through events, stream, build a trace's tree, aggregate |
| OPA policy | `infra/opa/policies/` | none (a function of its input) | ten rules, allow and reasons |
| Document assistant | `agents/doc_assistant/` | one graph run per request; a DAG that grows | plan, validate, dispatch, synthesize, write |
| Data agent | `agents/data_agent/` | the cached Feishu tenant token | one read: requests with retries, over pages and tables |
| Web agent | `agents/web_agent/` | none between calls | search; check an address, fetch it in chunks, sum it up |
| Language-model clients | `agents/common/llm/` | the models known to refuse `response_format` | chat, with retries |
| Agents' server | `agents/common/server.py`, `auth.py`, `capability.py` | a JWKS cache with a TTL | verify a delegated token, run the handler, answer |
| SDK | `sdk/agent_token_sdk/` | none between calls | exchange, invoke, invoke with retry |
| Web UI | `apps/web/` | browser session | proxy |

### 1.2 How they interact

A user logs in at the IdP (OIDC) and gets a user token. The document assistant
plans a DAG and, for each task, the SDK exchanges its assertion, the user's token
and a DPoP proof for a delegated token (`POST /token/exchange`), then calls the
gateway (`POST /a2a/invoke`, or `/a2a/plan/submit` for a whole DAG). The gateway
authenticates, asks OPA, consumes the one-time token in Redis, and calls the agent
through its breaker. An administrator revokes at the IdP (`POST /revoke`); the
gateway and the IdP look into the same Redis sets. Gateway and IdP write audit
records locally and forward them to the audit API.

Everything is asyncio: a coroutine runs without interruption between two awaits,
so the unit of interleaving is the code between two awaits, and Redis executes one
command (or script, or transaction) at a time.

### 1.3 What is hard, and what would make each part correct

| Part | Hard because | Correct when |
|---|---|---|
| Request path | duplicated messages; answers of Redis lost; clocks read before an await and used after it; two routes consume one token | one use of a token before its exp; a proof accepted once; a token refused for every revocation that was there when it was looked for; the records tell what happened |
| Rate limiter | stamps reach Redis in another order than they were read | no more than a burst and the refill; nobody refused early |
| Breaker | outcomes of calls reported in later states of the breaker; probes that never report | count and state agree; an episode admits its budget; it recovers |
| Plan executor | tasks fail, are refused or can never run; records shared by plan_id | dependencies first, no task twice, a truthful status, an end |
| Token exchange | replay markers against windows; revocation read once; quotas spent before the answer | no reuse within the windows' slack; no token for the revoked; quotas hold and are fair; what was spent is on record |
| Revocation | three commands on a set that others change and that expires | an answered revocation stands for its time |
| Audit writers | full queues, failing databases, late commits, lost posts, shutdown | nothing lost that was not reported lost; the central store follows the IdP's |
| Signing keys and caches | three caches of different age; one previous key; a rotation is four writes that a crash may part | `meta.json` names keys that exist; a refusal has one of few explanations |
| OIDC | get and delete are two commands | tokens trace to a login; a code serves twice only exchanges that overlap; what was revoked stays out |
| Agents' keys | read, then write; answers lost after the row was written; two files | a kid names one key unless two requests raced; a run that ends repairs what the ones before left |
| Capabilities, users | files edited while they are read; loads that overlap or fail in the middle | roles stay apart unless the last load was refused; an answered reload holds |
| SDK and agents' server | a handler outlives the gateway's wait, and the gateway the client's | work is repeated only where the caller was told of a failure |
| Language-model clients | what one chat finds out, others that run do not know yet | a refused format is hidden, and paid for once |
| Data agent | a token that dies between requests; retries within walks; answers that name no next page | no read dies of it before its first answer; no page missed but at the end of a table that was cut short |
| Web agent | a server as slow and as large as it likes, sending chunks of any size | the fetch ends, never keeps more than `max_size`, and sums up only whole pages |
| Audit readers | a table that grows at any place; full queues; clients gone silently | misses and repeats are explained; a stream loses nothing silently but overflow; a tree keeps callers |
| Document assistant | a plan comes from a language model; the DAG grows while it runs; the document is written in two or three calls | a graph that was sound stays sound as it grows; what depended on a search waits for its fetches; an answer means that the work is done |

`PROJECT.json` lists each hazard at its line, with the property that would catch it.

## 2. The modules

| Module | Models | Main abstractions |
|---|---|---|
| `CircuitBreaker` | breaker and the three ways `call_upstream` ends | `_opened_at` is an age saturated at the open duration; `_failures` saturates above the threshold |
| `Gateway` | authn middleware, proof guard, OPA verdict, one-shot consumption, invoke and plan submission, audit records | signatures, headers, policy are verdicts; the four revocation lookups are four awaits; a set of Redis may lose its members when it expires (`Lapse`) |
| `OneTimeToken` | the promise, request by request: one is served only after it has bought its execution, a refused one has bought none, and before its exp a token buys one | abstract specification implemented by `Gateway`, under the mapping `Status` |
| `PlanExec` | `_plans`, `_execute_dag`, `_run_task` for several submissions | a record is named by the submission that created it |
| `RateLimit` | the Lua token bucket and the requests that share it | integers; time in units in which `Refill` tokens arrive |
| `Revocation` | `POST /revoke`: SADD, TTL, EXPIRE, broadcast | a request is an activation; sets are given by `SetOf` |
| `TokenExchange` | `POST /token/exchange` with `Revocation` running beside it | one agent, one user per instance; SQLite reads are awaits without data; an assertion has a life, or none (`NoExp`) |
| `AuditTrail` | the three writers, forwarding, backup, broadcast, shutdown | an event is a name; tables, backup and streams are sets |
| `DocAssistant` | one request: planner, plan_validate, dispatcher, synthesizer, doc_writer and the stores | a plan of the language model is a member of `Proposals`, what a search finds one of `HitLists`; an id is a pair of a prefix and a number; a resource is fit for `_RESOURCE_RE` or is `Unfit` |
| `SigningKeys` | rotation, crash and start of the IdP's keys, the published document, the gateway's list of keys and an agent's cache | a kid is the version it ends in; key material is left out |
| `Oidc` | authorize, login, code exchange, refresh, revoke, one Redis command at a time | a key of Redis is named for the request that made it; a challenge is the session it was made for |
| `AgentKeys` | registration, rotation and bootstrap of one agent | a key pair is named for the request that generated it |
| `Reload` | capability and user files, `POST /admin/reload`, start | a file's content is a set of actions, or a grant |
| `AgentCall` | `invoke` and `invoke_with_retry`, the gateway's hop, the handler at the agent | a code that is neither retried nor told apart is `REFUSED` |
| `LlmClient` | the loop of POSTs of the two clients, `_caps_no_json` | a response is one of eight kinds |
| `DataAgent` | tenant token, `request_with_retry`, walks over pages and tables | a token is the time at which it dies; the tables that an answer without `page_token` cuts short are chosen at the start |
| `WebAgent` | the handler's paths, `http_fetch`'s loop over chunks | chunks have any size, in units of which the cap holds three; whether an address is allowed, and whether the body can be decoded, are verdicts |
| `AuditReads` | `list_events` and its client, the SSE generator and broadcaster, `get_trace` | events and spans are numbers or names |

`MC*` modules instantiate them for TLC. `MCServiceParts`, `MCIdpParts` and `MCAgents`
put components that share no state into one run: the initial state chooses the
component that moves (`scenario`), so a behaviour is one component's, with its own
fairness. `MCTokenExchange` and `MCGateway` choose scenarios of one component.
`*_proofs` modules hold the theorems: one per component or, where an `MC` module composes
several, one per composition.

State and code correspond as follows. A variable named as in the code
(`planStatus`, `remaining`, `stamp`, `queue`, `dispatched`) is that variable; `pc`, `rpc`,
`phase`, `exec` and `step` say at which await a coroutine waits; a Redis key with a
TTL is the time at which it disappears (`usedUntil`, `dpopUntil`, `marker`,
`windowEnd`, `expireAt`); variables marked as history are read by no action. An
action is the code from one await's answer to the next await. A failing Redis is
modelled both ways: the command was not executed, or it was and its answer was
lost. In `DocAssistant` the loops of `_topo_layers` and of the expansion of searches
are one step per round, which nothing can observe: no other coroutine reads their
variables. `PROJECT.json` maps every definition to its lines.

The definitions that a comment calls a faulty variant are used by no specification.
Each is what a plausible bug would make of the definition after it, and each
property that a passing run checks is violated when one of them takes that definition's
place.

## 3. What the runs check

All runs together reach every action and every disjunct of the next-state
relations. Deadlock is not checked: in every instance the requests are finitely many
and the clock is bounded, so it stops when all are answered. That nothing waits for
ever is what the liveness properties say.

| Run | Bounds | What it shows |
|---|---|---|
| `Gateway` | two scenarios, see below: 3 requests (one message twice, one plan submission), 1 token, 2 proofs, clock to 5 (a tick is 30 s); or 2 requests with up to 2 revocations, in the first and the last dimension that is looked up, and the sets' expiry, clock to 2 | `OneUseBeforeExpiry`, `ProofReuseNeedsStall`, `AuditTellsOutcome`, `RevocationHeeded`, refinement `OneTimePromise` |
| `ServiceParts`: breaker | 4 calls, threshold 2, 2 probes, open for 2 ticks | `BreakerAccounts` (`CountMatchesState`, `ProbesAccounted`); live: `RecoversUnlessProbeLost` |
| ... plans | 2 submissions under one id or two, 5 task ids, a dependency that does not exist | `SentInOrder` (`DepsFirst`, `SentOnce`), `StatusTruthful`; live: `PlanEnds` |
| ... bucket | 4 requests, capacity 2, clock to 3, key life 2 | `BucketHonest` (`RateBound`, `RefusalJustified`) |
| ... audit readers | pages of 0 to 2 over up to 4 events; 2 clients with queues of 1 and 2 events; 3 spans | `WalkExplained` (`MissesOnlyLate`, `RepeatsOnlyGrown`), `StreamFaithful`, `TreeKeepsCallers`; live: `WalkEnds`, `GoneAreRemoved` |
| `TokenExchange` | five scenarios, see below | `RevocationStands`, `ReuseNeedsSlack`, `RevokedGetsNoToken`, `QuotasHold` (`ExchangeTypeOK`, `QuotaHeld`, `QuotaFair`), `SpentLeavesRecord` |
| `IdpParts`: signing keys | 2 rotations, 3 versions, a crash, the gateway and 2 verifications of an agent, clock to 5 | `KeysInOrder` (`NamedKeysExist`, `NamedKeysStand`, `RowsFollow`), `VerifiersExplained` (`RefusalExplained`, `AgentCatchesUp`) |
| ... signing in | 2 sessions, 2 logins, 2 exchanges, or 2 refreshes and a revocation | `CodesHold` (`TokenTracesToLogin`, `ReusedOnlyTogether`), `RevokedStaysOut` |
| ... agents' keys | 3 runs of the bootstrap, a rotation | `AgentKeysHold` (`KidNamesOneKey`, `BootstrapRepairs`) |
| ... files | 2 reloads and starts, 2 agents, 2 users, 2 edits | `ReloadsHold` (`SeparateUnlessRefused`, `AnsweredReloadHolds`) |
| `AuditTrail` | 3 events (1 gateway, 2 IdP), queues of 1, batches of 2 | `NothingLost` (`TypeOK`, `IdpKeepsEvents`, `AcceptedIsKept`), `CopiesFollow` (`CentralFollowsIdp`, `StreamedIsStored`); live: `IdpStoresInTheEnd` |
| `Agents`: document assistant | 9 plans of the model of up to 5 tasks, the rules with up to 2 sources, fit and unfit resources, 3 lists of hits, 2 safe links | `GraphSound` (`IdsUnique`, `PlansStaySound`), `InOrder` (`InputsFirst`, `LinksFollowed`), `AnswersBacked` (`AnswerMeansDone`, `PreviewIsBacked`), `SentOnce`; live: `RequestEnds` |
| ... SDK | 3 attempts, every hop may lose or time out | `CallsHonest` (`NoSelfReplay`, `RepeatsExplained`, `ReportsTrue`); live: `InvokeEnds` |
| ... language model | 2 chats, 2 POSTs each per loop, both clients | `ChatsHonest` (`JsonRefusalHidden`, `RoundTripPaidOnce`, `PostsBounded`) |
| ... data agent | 2 reads, tables of 3, 1 and 1 pages, any of them cut short, caps of 2, 2 attempts, token life 5, margin 4 | `TokensServe` (`CacheHonest`, `FirstAnswerInTime`), `NothingSkipped` |
| ... web agent | pages of any length in chunks of any size, a cap of 3, up to 3 results asked for, 2 allowed | `PageWithinCap`; live: `FetchEnds` |
| `CircuitBreaker_wedged` | 3 calls, 1 probe | violated: `Recovers` |
| `Gateway_usedTwice` | as the three requests of `Gateway`, each answered within the tick in which it arrives; a proof that is fresh after the exp | violated: `UsedOnce` |
| `Gateway_unrecorded` | as the three requests of `Gateway`, each answered within the tick in which it arrives | violated: `ApprovedIsRecorded` |
| `AuditTrail_stop` | as `AuditTrail` | violated: `GracefulStop` |
| `DocAssistant_reply` | as the document assistant of `Agents` | violated: `InvalidPlanFallsBack` |
| `SigningKeys_newKey` | 1 rotation, 1 verification, clock to 2 | violated: `ActiveKeyKnown` |

A property with names in parentheses is the conjunction of the properties named there,
which the modules state and explain one by one. The liveness properties of the parts of
`ServiceParts` and `Agents` are the conjunctions `PartsProgress` and `PartsEnd`, the type
invariants of the parts of the three bundled runs are `PartsTypeOK`; `Gateway`'s and
`Revocation`'s are proved.

Why the bounds are enough. The breaker's threshold of two and two probes are the
least for which one late report does not decide everything; a fourth call adds late
reports from an earlier episode. In `Gateway` the ratio of the windows is that of
the configuration (leeway 30 s, skew 60 s, proof marker 120 s, token 120 s), and
one tick past the exp is within the leeway; one client's clock is a tick ahead. In
`PlanExec` each plan has tasks the other lacks, so that sharing a record shows.
`RateLimit` has twice as many requests as the bucket holds. In `AuditTrail` a queue
of one is full as soon as a failed batch of two comes back. Two rotations are what it
takes to lose a key that signed tokens in force, and three versions are the first, the
previous and the active one; the life of the served document (1) is shorter than that
of a token (2), as 60 s are than 120 s. Three runs of the bootstrap let a late request
of a first one fall between the two steps of a third. Tables of three pages under a
cap of two, and three tables under a cap of two, stop at both caps; two attempts have
a first that fails and a last that decides; the margin (4) is the least that
`MarginAssumption` allows for them. Three spans make a chain whose middle may have no
row. Two events fill a subscriber's queue of one.

Products are cut where their parts do not interact, in the `MC*` modules: the caches of
`SigningKeys` are used one kind at a time and only one kind of behaviour has the crash
(`KeysBound`); refreshes and a revocation do not run beside two exchanges
(`SignInBound`), since their keys of Redis are different ones; only one of two reads of
Feishu is past its token at a time (`ReadBound`), for they meet in the cache only. In
`IdpParts` the two rotations are symmetric.

`Gateway` shares one run among two scenarios (`MCGateway`): as soon as something is
revoked, the message's second delivery may not start and the clock stops at 2, which
is less than what any marker or window needs. The other delivery and the plan
submission, which consume the token at different places, are the ones that meet the
revocations. Revocations are in the dimensions that are looked up first and last, so
that one may come before, between and after the other's lookup; with three requests
and nothing revoked, one request's lookups are not interleaved with the steps of
others, which write nothing that they read. Redis fails one request at most, and of
two identical messages the same one always arrives first. The two violation runs of
`Gateway` let a request be answered in the tick in which it arrives (`PromptSpec`), so
that what they show takes no stall. `DocAssistant` covers, among its plans, two
searches in one layer and one after it, a document in the middle of the plan, a
missing document with and without a free id, ids with gaps and without a number, a
forward dependency, an unknown action, a resource that the validation refuses, a task
that depends on itself, and a `fetch_top_k` that is not a number;
among its hits, an unsafe link and a link that occurs twice.

`TokenExchange` shares one run among five scenarios, chosen by which requests start:
a message delivered twice and an assertion that is too long; an assertion without exp
used twice, with a new proof; a proof sent again with a new assertion; three requests competing for two quotas of one; and one request
beside two revocations of two members, with two values of `ttl_sec`. Requests of
different scenarios do not meet; what they share (markers, counters, sets) is met by
the requests of each. The markers and windows keep the order of the configuration:
the assertion marker (3) exceeds life plus leeway (2) by one as 660 s exceeds 630 s,
and the proof marker (2) exceeds the one-sided window (1) by one as 120 s exceeds
60 s. The two activations of `/revoke` are symmetric.

### Fairness

Breaker: every exchange ends, because httpx bounds each phase; time passes; and some
call reaches `before_call` while requests keep arriving. The upstream's recovery and the
kind of ending are not fair. Plans: the event loop runs every ready coroutine, and calls
end within their timeouts; submissions are not fair. Audit readers: a client asks for the
next page, and the generator of a client that has gone goes on, since its wait ends with
the heartbeat after 15 s. `AuditTrail`: the loops run, their waits are bounded by their
intervals, and the IdP's back-off ends; emitting, posting, stopping and the database are
the environment's. `IdpStoresInTheEnd` assumes that the database stops failing, and does
not assume that anything is delivered to the audit API. Document assistant: some step of
the request is taken while there is one, because the event loop runs a ready coroutine
and every call of the SDK, the model and Feishu has a timeout; which one ends first,
and how, is left open. SDK: the exchange ends, the client gets a response or times out,
and the pause ends; nothing is assumed of the network, the gateway or the agent. Web
agent: the handler goes on; that a page ends is not assumed, for the cap on its size
ends it. The other components have safety properties only: their requests end by
construction of the handlers, and nothing waits for anything but a store.

### Conditions worth reading

* `OneUseBeforeExpiry` ends at the token's exp, and `UsedOnce` shows why: the marker
  lives until exp, while the gateway accepts the token for 30 s more. In that run's
  behaviour nothing is held up; the second use is let through by the leeway alone.
* `RevocationHeeded` lets a revocation come too late for a request (`overtaken`): between
  two of its four lookups, or after the last, it is seen or not depending on which
  dimension is looked up when. It does not depend on when the request arrived.
* `AuditTellsOutcome` says that an allow is recorded exactly when the agent was called.
  It therefore names the three ways in which a request that OPA approved gets no allow:
  a token used before, a failing Redis, an agent that is not registered. The comment at
  `invoke.py:96` and `infra/gateway/README.md:18` promise a record for each approval;
  the run `Gateway_unrecorded` shows that the code does not keep that promise.
* `StatusTruthful` says what `plan.py:118-128` does: a record is `completed` only when
  all its tasks are. The example in `infra/gateway/README.md:170-177`, a `completed`
  record with a `failed` task, is one that the code never shows.
* `ProofReuseNeedsStall` and `ReuseNeedsSlack` name the slack exactly: at the gateway
  a proof passes twice only for a request held up between the freshness test and the
  marker by at least 60 s; at the IdP the client's clock and the hold-up together
  must make up the difference (60 s for a proof, 30 s for an assertion). An assertion
  without exp is different: `assertion.py:58-61` reads `claims.get("exp", 0)` and lets it
  pass at any time, so it is accepted again whenever its marker has expired, after 660 s
  (`Perishable`).
* `RevocationStands` excludes a revocation that met a shorter one, or the set's
  expiry, between its own SADD and EXPIRE. Without the exclusion it is false: the
  shorter one's EXPIRE may come last, computed from a TTL read earlier.
* `QuotaHeld` allows twice the limit in one window's length, because the windows of
  `incr_with_window` are fixed and two of them meet.
* `SpentLeavesRecord` speaks of answered requests. A request that ends in a 500 after
  it spent a quota leaves no record.
* `CentralFollowsIdp` holds for the IdP only; the gateway forwards before it writes.
* `InputsFirst` leaves out the documents among a task's dependencies: the dispatcher
  counts them as done, since `doc_writer` writes them at the end. A task that a model
  lets depend on a document runs before that document exists.
* `FirstAnswerInTime` needs `MarginAssumption`: the attempts of one request and the
  pauses between them fit into the 60 s of `oauth.py:47`, plus one timeout. For the five
  seconds of the handler's client and a `Retry-After` of up to 8 s they do; httpx counts
  its timeout per phase, so a request that trickles may take longer. Nothing of the kind
  holds of later answers: a walk over many pages asks for its token once.
* `RepeatsExplained` is all that can be said: after a timeout at the gateway the first
  handler may still run, or have written its document, when the second starts. It allows
  a repeat after UPSTREAM_FAIL too. The code does not retry that one (`errors.py` has no
  such code among its retryable ones), while the SDK's design says that 502 and 503 are
  tried again (`docs/design/分模块方案/方案-SDK.md:373`); the property holds of both.
* `NothingSkipped` excepts a table that was cut short: an answer with `has_more` and
  without `page_token` ends the walk of its table as if it were complete
  (`bitable.py:55`). Every other table is read up to the cap, without a gap.
* `ReusedOnlyTogether` allows two tokens for one code to exchanges that overlap, for GET
  and DEL are two commands; `RevokedStaysOut` speaks of refreshes that read the token
  after the revocation was answered.
* `RefusalExplained` lists when the gateway may refuse a good token after it fetched: the
  key was rotated out by a second rotation, or the IdP served a document older than it,
  which it does only while a rotation has not come to `invalidate_cache`.
* `AgentCatchesUp` holds of tokens as old as an agent's document; for younger ones the
  run `SigningKeys_newKey` shows the opposite.
* `SeparateUnlessRefused`: a reload whose check fails answers an error and leaves the
  clashing capabilities in force.
* `MissesOnlyLate` has an exception for what comes in between the count of a page and its
  rows: two statements are no transaction. `WalkEnds` leaves out the limit 0, which
  nobody forbids and with which `next_offset` never moves.
* `PlansStaySound` says that a DAG which grows never becomes cyclic. One that is cyclic
  came so from the model: `validate_dag` accepts a task that depends on itself, because
  it has put the task's id among the known ones before it looks at the dependencies. A
  request fails on the rules' own plan (`planner.py:341`) only when that has a resource
  which `_RESOURCE_RE` refuses.
* `PageWithinCap` speaks of what `http_fetch` keeps: no more than `max_size` whatever the
  size of the chunk that exceeds it, and a summary only of a page that was kept whole.

## 4. What is proved

Every theorem holds for all values of the constants that satisfy the assumptions named
in the modules. These say no more than types, signs and that what is finite is finite
(`BreakerAssumption`, `GatewayAssumption`, `RateAssumption`, `RevocationAssumption`,
`PlanAssumption`, `DocAssumption`, `CallAssumption`, `LlmAssumption`, `WebAssumption`,
`AuditAssumption`, `LoadAssumption`, `ReadsAssumption`), that requests of different
kinds are different requests (`SignInAssumption`, `KeyAssumption`), that an assertion
and a proof never share a Redis key, as their prefixes make sure (`ExchangeAssumption`),
that the gateway keeps at least two keys (`KeysAssumption`; `_MAX_KIDS` is 10, and a
document has two), for `DataAgent` that its margin is one (`MarginAssumption`), and for
`DocAssistant` that a reply of the model carries no mark of the dispatcher's, the
`_auto_expanded` of `dispatcher.py`, which no prompt names (`ReplyAssumption`).

Eight modules hold the theorems.

* `Gateway_proofs`: `TypeCorrect`, `TokenUsedOnceBeforeExpiry`,
  `ProofReusedOnlyAfterStall`, `RevokedNeverConsumed`, and `GatewayKeepsPromise`, the
  refinement of `OneTimeToken`. `OneUseBeforeExpiry` is not inductive by itself: one
  needs that an early use's marker lives at least until the exp (`UsesMarked`), which
  follows from the TTL `max(1, exp - now)` however late the command runs
  (`MarkerOutlives`). `GuardsFresh` says the same of proofs, `Screened` that what a request has
  looked for and finds revoked now was revoked after it looked. Each part is preserved
  action by action. The refinement maps each request's place and result to its
  `Status`, open, granted, served, failed or refused, so that a consumption is a step of
  the request that makes it, even if another happens at the same reading of the clock
  (`OneStatus`, `OthersStatus`); that nothing is bought twice in time comes from
  `UsesMarked`.
  `AuditIsTrue` rests on an invariant of its own, `Trails`: which records of a request
  exist at each point of its way. A step keeps its own request's trail (`OwnTrail`) and
  shows nothing of another's (`OthersSame`).
* `PlanExec_proofs`: `PlanTypeCorrect`, `TasksSentInOrder`, `RecordsAreTruthful`, for
  any number of submissions, under the same plan ids or others, and any DAG, cycles and
  unknown ids included. The invariant adds that a submission under way finds a record
  (`RecordsKnown`), that coroutines exist only while the executor waits for them
  (`OnlyGathered`), that such a coroutine's task remains and what it depends on has
  completed (`WaveReady`), and that a task not yet at `call_upstream`, or still without
  a coroutine, was never sent (`Unsent`). `RecordsAreTruthful` adds to it who holds
  which record (`RecordsOwned`): as long as nobody else uses its plan_id, a submission
  finds its own record and no other touches it (`OwnRecord`, `Elsewhere`), and what the
  record tells agrees with `remaining` and `completed` from the first wave to the last
  (`Told`).
* `ServiceParts_proofs`, three parts without common state.
  The rate limiter: `BucketTypeCorrect`, `RateNeverExceeded`, `RefusalsJustified`,
  together `BucketIsHonest`. The invariant is a potential: an evaluation never raises
  `tokens - Refill * last`, wherever its stamp lies, and an admission lowers it by one; a
  second potential bounds the deficit of an overtaken stamp from below.
  The breaker: `BreakerTypeCorrect`, `CountAgrees`, `ProbesNeverOverspent`, and the last
  two together as `BreakerAccountsAlways`. The inductive invariant adds that only a
  half-open breaker has probes in flight. The arithmetic is that of cardinalities when a
  probe enters or leaves the set.
  The audit API's readers: `ReadsTypeCorrect`, `WalkAlwaysExplained`,
  `StreamAlwaysFaithful`, `TreeAlwaysKeepsCallers`. A walk in progress is in balance
  (`WalkGoesOn`): it has sent as many events as it skips, and what it has sent and not
  yet skipped (`Ahead`) was pushed there by events that came in since, one each
  (`InsertedHead`, `OneAhead`); a page turns what is ahead into repeats and nothing else
  (`SeenGrows`), and at the last page the rows left are those that came after the count.
  The stream's invariant speaks of one client (`Fine`): what it got and what is queued
  rise, and are all that is due unless something was dropped; a broadcast keeps it for
  those that hear it and those that do not (`Heard`, `NotHeard`). In a trace callers
  come first and a decision is the last row of its request (`TraceIInv`). That a list
  has a last row of a span is derived from the well-founded order of the numbers
  (`LeastOf`, `LastOf`).
* `TokenExchange_proofs`. Revocation by itself: `RevocationTypeCorrect` and
  `RevocationHolds`. An answered revocation's set must live long enough
  (`ExpiryEnough`); for that, no EXPIRE under way may cut it short (`ExpireHarmless`),
  which at the moment TTL is read follows from `ExpiryEnough` for the revocations
  already answered and from `HalfwaySafe` for those still between SADD and EXPIRE, where
  nobody asks for less; and a tick of the clock disturbs exactly those half-way on a set
  that expires.
  The exchange beside it: `ExchangeTypeCorrect`, `RevocationStillHolds`,
  `ReplaysNeedSlack`, `RevokedNeverServed`, `QuotasAlwaysHold`, `SpendingIsRecorded`.
  The invariant adds that an accepted item's marker outlives the acceptance by its TTL
  (`ItemsMarked`) and an item past the check was timely then (`TimesChecked`); that a
  request past a look-up has no revocation of that dimension against it (`RevokedSeen`);
  which records and counts a request has at each point of its way (`RecordsMatch`); and
  that a counter's window counts those who passed in it, so that any stretch of its
  length meets two windows at most (`CountersRight`).
* `IdpParts_proofs`, the four parts that `MCIdpParts` composes.
  Signing keys: `KeysTypeCorrect`, `VerifiersExplainedAlways`, and the action property
  `KeysStayInOrder`. The invariant follows a key from its file (`StoreInv`: what
  `meta.json` names is whole, what is newer never was active) over the rows (`RowsInv`:
  the one row too many is that of a key which a rotation still replaces) and the
  published document (`DocumentInv`: it lacks a named key only while a rotation hangs)
  to the gateway (`GatewayInv`) and an agent (`AgentInv`: how old a document is that
  lacks a key). The gateway's list is an ordered dictionary, whose operations have
  lemmas of their own (`WithoutList` and those after it).
  Signing in: `CodesHoldAlways`, `RevokedStaysOutAlways`. What a request read was made by
  the step before it, of this session or login (`Presented`, `VerifiersMatched`), each key
  is made once and deleted for good (`KeysMade`), and a request that goes on had read its
  key before it was deleted (`ReadInTime`).
  Agents' keys: `AgentKeysHoldAlways`. Without a race versions only grow (`KidsGrow`),
  and a run that saved its key has no other after it (`RunsFollow`).
  Files: `ReloadsHoldAlways`. A load that began after the last edit has the rows right as
  far as it has come (`ReloadInv`).
  The four together: `IdpPartsTypeCorrect`.
* `AuditTrail_proofs`: `AuditInvariant`, `NothingIsLost`, `CopiesAlwaysFollow`.
  `NothingLost` and `CopiesFollow` become inductive with `SourcesFirst`: what has left
  the IdP on any way, in a post, a queue, a batch or the backup, is in the IdP's table.
  The lemmas say what joining, taking, requeueing and cutting do to the elements of a
  queue.
* `DocAssistant_proofs`: `RulePlanIsValid` (for every number of sources, the validation
  accepts the plan of the rules just if every resource that it reads is fit), `InductiveInvariant`, `PlansAreValidHolds`,
  `PreviewHolds`, `SentOnceHolds`; and `TypeCorrect`, `GraphSoundHolds`, `InOrderHolds`,
  `AnswersBackedHolds`, for every plan that a model may reply with and everything that
  its searches may find.
  The first invariant, `Inv`, has three parts: a plan that reaches plan_validate is
  valid, and the rules have failed only on an unfit resource; what was sent is dispatched, or in the layer being gathered, from which a new
  layer's being disjoint from `dispatched` gives `SentOnce`; and a preview of a document
  at Feishu is written only after the document's blocks.
  The second, `IInv`, carries the DAG while it grows. A task of the plan needs earlier
  tasks of the plan, fetches for them, and perhaps itself (`Ordered`): the order that
  shows that nothing else is cyclic, although fetches come last in the list and tasks in
  the middle depend on them, so that a round of `_topo_layers` always finds a task unless
  a task of the plan needs itself. A
  new id is one more than the largest, so it is nobody's (`IsList`). Whatever is sent or
  dispatched has its inputs (`HasInputs`, in `CallsInv`), an input being heard only when
  the search it names has also been expanded (`Heard`); and when a search is expanded,
  its fetches become dependencies of whatever needs it (`FetchesInv`), none of which can
  have been sent. `LoopEnds` says that the loop is left when every task has a result.
  The longest proofs are those of what `Expand` makes of the list (`HasGrown`) and of
  the links it takes from the hits (`TakenWell`).
* `Agents_proofs`, the four parts that `MCAgents` composes with the document assistant.
  The SDK: `CallTypeCorrect`, `RetriesNeverReplay`, `RepeatsAreExplained`,
  `ReportsAreTrue`, together `CallsAreHonest`, for any number of attempts. The invariant
  says what a code means for the work of its attempt (`Means`) and that it goes on
  meaning it (`CodesTrue`): an attempt reported as turned away never starts at the
  agent. With `RetriesTold`, only the codes of `RepeatsExplained` leave room for work in an
  attempt that another follows.
  The language models' clients: `LlmTypeCorrect`, `ChatsAreHonest`, for any number of
  concurrent chats. The invariant balances posts, tries and requests for JSON of one
  chat over its two loops (`Tries`), and says which last answers leave it where it is
  (`LastHeard`).
  Feishu: `DataTypeCorrect`, `CacheIsHonest`, `FirstAnswerArrivesInTime`, the last two
  together `TokensAlwaysServe`. The invariant carries a budget: before the first answer
  the token outlives the deadline of the request under way by what the attempts left may
  take (`Need`), which a failure and the pause after it use up one by one, and which the
  margin pays for when the token is taken (`WithTokenSound`).
  `NothingIsSkipped`: a walk has read exactly the wanted pages that come before the one
  at hand (`InPlace`), where pages past the place at which a table was cut short are not
  wanted; a retry leaves it there, and an answer moves it to the next page
  (`NextPageFollows`), to the first of the next table (`NextTableFollows`), or to the end
  with all of them (`NothingFollows`).
  The web agent: `WebTypeCorrect`, `PageStaysWithinCap`, for chunks of any size.

Three runs check several components in one state space. `PartsAreServices` and
`PartsAreAgents` show that `MCServiceParts` and `MCAgents` implement the specification of
each of theirs, the initial states and every step, so that all that is proved of a
component holds of the run (`ServicesAreSafe`, `AgentsAreSafe`, and a `PartsTypeCorrect`
for each); the parts of `MCIdpParts` are proved in the composition itself.

TLC has checked each of these invariants on the instance of its run before it was proved.

Model-checked only: the liveness properties (`RecoversUnlessProbeLost`, `PlanEnds`,
`WalkEnds`, `GoneAreRemoved`, `IdpStoresInTheEnd`, `RequestEnds`, `InvokeEnds`,
`FetchEnds`), because temporal proofs under fairness need ENABLED, which the prover does
not handle. Every other property that a passing run checks is a theorem.

## 5. Where documents and code part

Shown by a run:

* A probe that ends in an exception outside httpx leaves the breaker half-open for
  ever (`infra/gateway/config.py:129-131`; `CircuitBreaker_wedged`).
* A token can be consumed again after its exp, within the leeway
  (`infra/gateway/README.md:14`; `Gateway_usedTwice`).
* A request that OPA approved leaves no allow record when its token was used before, when
  Redis fails at the consumption, or when the agent is not registered: the record is
  written after the consumption, right before the call (`routes/invoke.py:96`, "OPA
  approved, we must record it", and `infra/gateway/README.md:18`; `Gateway_unrecorded`).
* Stopping the IdP loses the events its loop had collected
  (`infra/idp/audit/writer.py:101`; `AuditTrail_stop`).
* A plan of the language model with a task that depends on itself passes the check
  (`agents/doc_assistant/nodes/planner.py:50` adds the id before lines 58-60 look for the
  dependencies) and ends the request at `dispatcher.py:33`, instead of falling back to
  the rules as lines 10-12 say of an invalid DAG (`DocAssistant_reply`).
* A token of a key that has just become active is refused by agents whose document is
  younger than its TTL; the design has the new key sign only after a period with two
  public keys (`docs/design/分模块方案/方案-IdP.md:651`; `SigningKeys_newKey`).

Met in reading, without a run:

* `README.md:163` speaks of six revocation sets; the gateway looks into four, the IdP
  into three.
* A plan submission records no consumption although `infra/gateway/config.py:142` lists
  the event.
* `infra/gateway/README.md:170-177` shows a plan that is `completed` while one of its
  tasks has `failed`; by `plan.py:128` such a plan is `failed`.
* Two submissions with one plan_id share a record; `IDEMPOTENCY_CONFLICT`
  (`infra/gateway/README.md:248`) is never raised.
* An assertion needs no exp: `token_exchange/assertion.py:58-61` reads it with the
  default 0, so that the test of its life passes, and the JWT library asks for none.
* The SDK's design retries 502 and 503 up to twice, and CIRCUIT_OPEN after 30 s
  (`docs/design/分模块方案/方案-SDK.md:373`); `sdk/agent_token_sdk/errors.py` does not retry
  UPSTREAM_FAIL, and `client.py:252` pauses equally for every code.
* A reply of the language model whose tasks are no objects ends the request with an
  AttributeError (`planner.py:304`), which line 335 does not catch; the rules' own plan
  does so at line 341 if a selected resource has a space in it.
* A page whose charset is the name of a codec that is not for its bytes (`idna`,
  `undefined`) is answered 400: `bytes.decode` raises UnicodeError, and
  `web_agent/search/fetcher.py:118-121` catches LookupError and UnicodeDecodeError only,
  while the docstring (line 91) has UTF-8 as the last resort.
* A page of a Feishu table with `has_more` and without `page_token` ends the walk as if
  there were no more (`bitable.py:55`).
* `infra/gateway/config.py:102-103` gives the proof's skew as two-sided; `jwt.decode`
  rejects an iat in the future before the code's own test.
* A late success of an earlier call closes an open breaker at once, without a probe.
* Revoking a plan does not stop it (`docs/design/方案-细化.md:1266`): the executor never looks.
* `rate_limit.py:1` describes a key with the action in it; the key has the caller and
  the agent only.
* The gateway's writer sleeps for its interval whatever the queue holds; a flush as
  soon as there are fifty events (`config.py:144-150`) does not happen.
* `docs/design/分模块方案/方案-IdP.md:331` gives every revoked member a TTL of its own; the
  code has one per set, so a member may stay longer than asked.
* The design gives `assertion:jti` 120 s; the code uses 660 s.
* The IdP publishes revocations on `revoke`; the gateway's deprecated subscriber
  listens to `revoke:jti` and the like.
* The audit API's README lists `plan_validated` among the event types it takes;
  `_VALID_EVENT_TYPES` does not have it.
* A failing preview is meant not to fail the request (the comment at
  `agents/doc_assistant/nodes/doc_writer.py:206-218`), but only some exceptions are
  caught there; the RuntimeError of an unwritable store directory is not.
* A denial by the IdP's plan validation is only logged, and the fetches that the
  dispatcher adds never pass it (`docs/design/方案-细化.md:1297`).
* An agent's key has no grace period after a rotation (`方案-IdP.md:380-395`), its kid is
  not a hash of the key (line 363), a second registration replaces the key instead of
  answering `agent_exists` (line 378), and `admin_rotate` records no `key.rotate` event
  (line 728).
* A code is exchanged twice if two exchanges overlap (`slides.md.bak2:241` says once).
* Rows of `jwks_rotation` are never archived; user tokens live 3600 s although only two
  public keys are published.
* A reload that is refused for a clash of roles leaves the new capabilities in force.
* The clients of the language models parse the body outside the `try`, so a 200 that is
  no JSON raises ValueError and not the LLMError that `agents/common/llm/base.py` promises.
* A name that does not resolve when the address is checked is answered 403, although
  `agents/web_agent/handler.py:79-83` says that problems of DNS must not abort.
* The SDK sends an `idempotency_key` that nobody reads (`infra/gateway/README.md:248`).
* Tables and documents of Feishu are cut at the cap of pages without a word.
* `total_spans` of `/audit/traces` counts rows; a request's `token_consumed` and
  `authz_decision` rows share a span.
* `doc_assistant/main.py` keeps a second cache of the IdP's document, which fetches again
  for a key it does not know, unlike the one of `agents/common/auth.py`.
* Gateway and IdP forward events without their ids; the audit API gives each a new
  one, so `INSERT OR IGNORE` cannot recognise an event sent twice.

## 6. What is not modelled

Left out for good: the OPA policy (a pure function with tests of its own, whose verdict
is an input of `Gateway`), parsing, the registry, delegation and TLS set-up (stateless;
their verdicts are inputs), the sums and histograms of the audit API (one SELECT each),
prompts and text formatting, the mock of the language model, the web UI, and the
gateway's Bloom filter and subscriber, which the source marks as deprecated.

Of the document assistant, the HTTP entry (`main.py`) and the transports are not
modelled: it verifies the user's token, starts a request and answers its result. Which
addresses the web agent may fetch, and how it cleans a page, are verdicts and data. A
restart of the gateway loses `_plans` and the breaker and returns both to their initial
states, so it adds no behaviour to a single life; the same goes for an agent. Redis is
taken to keep its keys until they expire.

## 7. Plan

Done, in this order: breaker; request path with its abstract promise; plan executor;
rate limiter; revocation and token exchange; audit writers; document assistant; signing
keys with the verifiers' caches; signing in; agents' keys; reload; SDK and agents'
server; language-model clients; data agent; web agent; audit readers; proofs of every
safety property that a run checks.

Next: abstract specifications beside `OneTimeToken` that a component can be shown to
implement step by step, for which the stream of the audit API (a client's part of a
sequence) and the plan executor (an order of the tasks) are the nearest.
