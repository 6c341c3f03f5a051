----------------------------- MODULE DataAgent -----------------------------
(***************************************************************************)
(* The data agent's reads of Feishu (agents/data_agent/handler.py and      *)
(* feishu/): the tenant token and its cache, the loop of request_with_retry*)
(* and the walks over pages and tables.  Reads run concurrently and share  *)
(* the cache.                                                              *)
(*                                                                         *)
(* A token is the time at which it dies.  Feishu counts its life from the  *)
(* moment it issues it, the agent from the moment the response arrives.    *)
(* A pause takes at most Pause ticks and a request at most Timeout, which  *)
(* is httpx's timeout as long as an answer does not arrive in many small   *)
(* parts: it bounds each phase of a request and each part of the answer.   *)
(* What a page holds is left out.                                          *)
(***************************************************************************)
EXTENDS Integers, SequencesExt

CONSTANTS
  Reads,      \* calls of the handler
  Tables,     \* the tables of the app: the number of pages of each
  MaxPages,   \* max_pages
  MaxTables,  \* max_tables
  MaxTries,   \* max_attempts
  Life,       \* expire
  Margin,     \* the 60 s by which the cache is distrusted
  Timeout,    \* of one request
  Pause,      \* the longest pause between two attempts
  MaxTime     \* bound on the clock

ASSUME DataAssumption ==
  /\ {MaxPages, MaxTables, MaxTries, Life} \subseteq Nat \ {0}
  /\ {Margin, Timeout, Pause, MaxTime} \subseteq Nat
  /\ Tables \in Seq(Nat \ {0}) /\ Tables # <<>>

\* The attempts of one request, with a pause between two, fit into the margin;
\* another Timeout is what expires_at may be late.  A request of five seconds with
\* the longest Retry-After, three times: 3 * (5 + 8) - 8 + 5 of 60 s.
ASSUME MarginAssumption ==
  /\ Margin + Pause >= MaxTries * (Timeout + Pause) + Timeout
  /\ Life > Margin

VARIABLES
  clock,   \* time.time(), in ticks
  cache,   \* FeishuOAuth._cache: the token, and expires_at
  read     \* per read: its locals, and the pages that it was cut short at

dataVars == <<clock, cache, read>>

\* One request (contact, calendar, folder, list of tables, document), one table,
\* all tables, and an intent that the handler does not understand.
Intents == {"single", "table", "all_tables", "bad"}

Unread == [pc |-> "idle", intent |-> "bad", token |-> 0, tries |-> 0, due |-> 0,
           answers |-> 0, table |-> 0, page |-> 0, out |-> <<>>, cut |-> {},
           verdict |-> "none"]

InFlight(r) == r.pc \in {"auth", "call"}
SentAt(r) == r.due - Timeout

-----------------------------------------------------------------------------
(***************************************************************************)
(* request_with_retry                                                      *)
(***************************************************************************)

Request(r, kind) == [r EXCEPT !.pc = kind, !.tries = @ + 1, !.due = clock + Timeout]

\* The handler returns or raises, and its locals are gone.
End(r, verdict) ==
  [Unread EXCEPT !.pc = "ended", !.intent = r.intent, !.answers = r.answers,
                 !.out = r.out, !.cut = r.cut, !.verdict = verdict]

\* A retryable status or an httpx.HTTPError: another attempt after a pause, or a
\* FeishuError.
Fails(c) ==
  /\ InFlight(read[c])
  /\ read' = [read EXCEPT ![c] =
       IF @.tries < MaxTries
       THEN [@ EXCEPT !.pc = IF read[c].pc = "auth" THEN "auth_pause" ELSE "call_pause",
                      !.due = clock + Pause]
       ELSE End(@, "AGENT_INTERNAL_ERROR")]
  /\ UNCHANGED <<clock, cache>>

Resume(c) ==
  /\ read[c].pc \in {"auth_pause", "call_pause"}
  /\ read' = [read EXCEPT ![c] =
       Request(@, IF read[c].pc = "auth_pause" THEN "auth" ELSE "call")]
  /\ UNCHANGED <<clock, cache>>

-----------------------------------------------------------------------------
(***************************************************************************)
(* get_tenant_token                                                        *)
(***************************************************************************)

\* The handler looks at the resource only when it has the token.
WithToken(r, token) ==
  IF r.intent = "bad" THEN End(r, "INTENT_INVALID")
  ELSE Request([r EXCEPT !.token = token, !.tries = 0,
                         !.table = IF r.intent = "table" THEN 1 ELSE 0,
                         !.page = IF r.intent = "table" THEN 1 ELSE 0], "call")

\* Faulty variant: a token is used until it expires.
FreshNoMargin == cache.until > clock

Fresh == cache.until > clock + Margin

Start(c) ==
  /\ read[c].pc = "idle"
  /\ \E i \in Intents :
       LET r == [Unread EXCEPT !.intent = i]
       IN  read' = [read EXCEPT ![c] =
                      IF Fresh THEN WithToken(r, cache.token) ELSE Request(r, "auth")]
  /\ UNCHANGED <<clock, cache>>

\* The token was issued at some time since the request was sent.  Of two that
\* arrive, the later one is kept, whichever was issued first.
TokenArrives(c) ==
  /\ read[c].pc = "auth"
  /\ \E issued \in SentAt(read[c])..clock :
       /\ cache' = [token |-> issued + Life, until |-> clock + Life]
       /\ read' = [read EXCEPT ![c] = WithToken(@, issued + Life)]
  /\ UNCHANGED clock

-----------------------------------------------------------------------------
(***************************************************************************)
(* list_records, and read_all's loop over the tables                       *)
(***************************************************************************)

LastTable == Min({Len(Tables), MaxTables})

\* has_more with a page_token, under the cap.
HasNextPage(r) ==
  r.page < Tables[r.table] /\ <<r.table, r.page>> \notin r.cut /\ r.page < MaxPages

HasNextTable(r) == r.intent = "all_tables" /\ r.table < LastTable

\* What a response leads to: the next page, the next table or the result.
Walk(r) ==
  IF r.table > 0 /\ HasNextPage(r)
  THEN Request([r EXCEPT !.page = @ + 1, !.tries = 0], "call")
  ELSE IF HasNextTable(r)
  THEN Request([r EXCEPT !.table = @ + 1, !.page = 1, !.tries = 0], "call")
  ELSE End(r, "OK")

\* Faulty variant: a page that is refused is passed over.
RefusesAndGoesOn(c) ==
  /\ InFlight(read[c])
  /\ read' = [read EXCEPT ![c] =
       IF @.pc = "call" /\ @.page > 0 THEN Walk(@) ELSE End(@, "AGENT_INTERNAL_ERROR")]
  /\ UNCHANGED <<clock, cache>>

\* parse_or_raise: a code other than 0, or no JSON.
Refuses(c) ==
  /\ InFlight(read[c])
  /\ read' = [read EXCEPT ![c] = End(@, "AGENT_INTERNAL_ERROR")]
  /\ UNCHANGED <<clock, cache>>

\* The records of the page that was asked for; a read that is not of a table has none.
Extended(r) == IF r.table = 0 THEN r.out ELSE Append(r.out, <<r.table, r.page>>)

\* Feishu may say has_more without a page_token to go on with.
MayBeCut(r) ==
  {{}} \cup (IF r.table > 0 /\ r.page < Tables[r.table] THEN {{<<r.table, r.page>>}}
             ELSE {})

\* A response with code 0, to a token that was alive when Feishu looked at it.
Answered(c) ==
  /\ read[c].pc = "call"
  /\ SentAt(read[c]) < read[c].token
  /\ \E new \in MayBeCut(read[c]) :
        read' = [read EXCEPT ![c] =
          Walk([@ EXCEPT !.answers = read[c].answers + 1,
                         !.out = Extended(read[c]),
                         !.cut = read[c].cut \cup new])]
  /\ UNCHANGED <<clock, cache>>

\* The token was dead: a FeishuError that nothing handles, and the cache stays.
Expired(c) ==
  /\ read[c].pc = "call"
  /\ clock >= read[c].token
  /\ read' = [read EXCEPT ![c] = End(@, "expired")]
  /\ UNCHANGED <<clock, cache>>

-----------------------------------------------------------------------------
\* Time passes up to the next deadline of a request or a pause.
DataTick ==
  /\ clock < MaxTime
  /\ \A c \in Reads : read[c].pc \in {"idle", "ended"} \/ clock < read[c].due
  /\ clock' = clock + 1
  /\ UNCHANGED <<cache, read>>

DataInit ==
  /\ clock = 0
  /\ cache = [token |-> 0, until |-> 0]
  /\ read = [c \in Reads |-> Unread]

DataNext ==
  \/ DataTick
  \/ \E c \in Reads :
        \/ Start(c) \/ TokenArrives(c) \/ Answered(c) \/ Expired(c)
        \/ Fails(c) \/ Resume(c) \/ Refuses(c)

DataSpec == DataInit /\ [][DataNext]_dataVars

-----------------------------------------------------------------------------
(***************************************************************************)
(* Properties                                                              *)
(***************************************************************************)

Verdicts == {"none", "OK", "INTENT_INVALID", "AGENT_INTERNAL_ERROR", "expired"}

DataTypeOK ==
  /\ clock \in Nat
  /\ cache.token \in Nat /\ cache.until \in Nat
  /\ \A c \in Reads :
       /\ read[c].pc \in {"idle", "auth", "auth_pause", "call", "call_pause", "ended"}
       /\ read[c].intent \in Intents /\ read[c].token \in Nat
       /\ read[c].tries \in 0..MaxTries /\ read[c].due \in Nat
       /\ read[c].table \in 0..Len(Tables) /\ read[c].page \in 0..MaxPages
       /\ read[c].verdict \in Verdicts

\* The cached token dies at most one request's time before expires_at, although
\* tokens may arrive in another order than they were issued (oauth.py:63-66).
CacheHonest == cache.until <= cache.token + Timeout

\* A read never fails because its token died before its first answer: the margin
\* covers the attempts of one request (oauth.py:47).  A read of many pages may
\* still outlive its token, for it asks for one only once (handler.py:76).
FirstAnswerInTime ==
  \A c \in Reads : read[c].verdict = "expired" => read[c].answers > 0

\* The token in the cache lives nearly as long as expires_at says, and long enough for
\* the request it is taken for (oauth.py:46-67).
TokensServe == CacheHonest /\ FirstAnswerInTime

\* The tables an intent is about, and what the read is to return of them: their pages,
\* up to the caps and as far as Feishu's answers lead.
TablesOf(intent) ==
  CASE intent = "table" -> {1}
    [] intent = "all_tables" -> 1..LastTable
    [] OTHER -> {}

Wanted(intent, cut) ==
  {x \in TablesOf(intent) \X (1..MaxPages) :
     x[2] <= Tables[x[1]] /\ \A y \in cut : y[1] = x[1] => x[2] <= y[2]}

Before(x, y) == x[1] < y[1] \/ (x[1] = y[1] /\ x[2] < y[2])

\* Pages in their order, none twice.
Ascending(out) == \A i, j \in DOMAIN out : i < j => Before(out[i], out[j])

\* Some of the pages that are wanted, and none that comes after one left out.
BeginsWith(out, pages) ==
  /\ ToSet(out) \subseteq pages
  /\ \A y \in ToSet(out) : {x \in pages : Before(x, y)} \subseteq ToSet(out)

\* However many attempts were needed, no page is left out or read twice, and a read
\* that succeeds has all pages up to the caps but those that follow an answer with
\* has_more and no page_token, which ends the walk over its table and no more
\* (bitable.py:35-57, handler.py:148-160).
NothingSkipped ==
  \A c \in Reads :
     LET pages == Wanted(read[c].intent, read[c].cut)
     IN  /\ Ascending(read[c].out)
         /\ BeginsWith(read[c].out, pages)
         /\ read[c].verdict = "OK" => ToSet(read[c].out) = pages
=============================================================================
