------------------------------ MODULE WebAgent ------------------------------
(***************************************************************************)
(* One intent of the web agent (agents/web_agent/handler.py, search/): a   *)
(* search, or a page fetched in chunks and summed up by a language model.  *)
(* Intents share nothing, so one is modelled; the other side is a server   *)
(* that may answer as slowly and as much as it likes.                      *)
(*                                                                         *)
(* Whether an address may be fetched is a verdict that the check returns;  *)
(* what a page says is left out.                                           *)
(***************************************************************************)
EXTENDS Integers

CONSTANTS
  MaxSize,   \* max_size
  MaxAsked,  \* bound on the results that a caller asks for
  MaxHits    \* the capability's max_results

ASSUME WebAssumption == {MaxSize, MaxAsked, MaxHits} \subseteq Nat

VARIABLES
  step,    \* where the handler is
  total,   \* bytes of the page that have arrived
  kept,    \* bytes in the list of chunks
  asked,   \* max_results of the search
  hits,    \* how many results it returns
  cause,   \* what went wrong, if anything
  told     \* what the caller is answered

webVars == <<step, total, kept, asked, hits, cause, told>>

Causes == {"none", "blocked", "dns", "too_large", "network", "socket", "bad_url",
           "codec", "backend", "model"}
Answers == {"none", "hits", "summary", "degraded_record", "AGENT_FORBIDDEN",
            "INTENT_INVALID", "AGENT_INTERNAL_ERROR"}

Answer(a) == step' = "answered" /\ told' = a

-----------------------------------------------------------------------------
(***************************************************************************)
(* web.search                                                              *)
(***************************************************************************)

HitCap == IF asked <= MaxHits THEN asked ELSE MaxHits

\* No query, or "*".
SearchInvalid ==
  /\ step = "search"
  /\ Answer("INTENT_INVALID")
  /\ UNCHANGED <<total, kept, asked, hits, cause>>

\* The backend may return more than it was asked for.
SearchReturns ==
  /\ step = "search"
  /\ \E found \in 0..(MaxAsked + 1) : hits' = IF found <= HitCap THEN found ELSE HitCap
  /\ Answer("hits")
  /\ UNCHANGED <<total, kept, asked, cause>>

\* An error of Tavily, or no key for it: not caught here.
SearchRaises ==
  /\ step = "search"
  /\ cause' = "backend"
  /\ Answer("AGENT_INTERNAL_ERROR")
  /\ UNCHANGED <<total, kept, asked, hits>>

-----------------------------------------------------------------------------
(***************************************************************************)
(* web.fetch                                                               *)
(***************************************************************************)

\* url_allowed: FetchBlocked is a PermissionError, even when the name could not
\* be resolved; urlparse raises a ValueError.
CheckFails ==
  /\ step = "check"
  /\ cause' \in {"blocked", "dns", "bad_url"}
  /\ Answer(IF cause' = "bad_url" THEN "INTENT_INVALID" ELSE "AGENT_FORBIDDEN")
  /\ UNCHANGED <<total, kept, asked, hits>>

CheckPasses ==
  /\ step = "check"
  /\ step' = "stream"
  /\ UNCHANGED <<total, kept, asked, hits, cause, told>>

\* except (httpx.HTTPError, OSError)
Foreseen == {"network", "socket"}

\* The connection, the status or the stream fails; or httpx does not accept what
\* urlparse accepted.
StreamFails ==
  /\ step = "stream"
  /\ cause' \in {"network", "socket", "bad_url"}
  /\ Answer(IF cause' \in Foreseen THEN "degraded_record" ELSE "AGENT_INTERNAL_ERROR")
  /\ UNCHANGED <<total, kept, asked, hits>>

\* Faulty variant: the size is checked before the chunk is counted.
ChunkCheckedFirst ==
  /\ step = "stream"
  /\ IF total > MaxSize
     THEN cause' = "too_large" /\ Answer("AGENT_FORBIDDEN") /\ UNCHANGED <<total, kept>>
     ELSE /\ \E n \in 1..(MaxSize + 1) : total' = total + n /\ kept' = kept + n
          /\ UNCHANGED <<step, told, cause>>
  /\ UNCHANGED <<asked, hits>>

\* A chunk of any size.  One that takes the page past max_size is dropped and ends
\* the fetch.
Chunk ==
  /\ step = "stream"
  /\ \E n \in 1..(MaxSize + 1) :
        /\ total' = total + n
        /\ IF total' > MaxSize
           THEN cause' = "too_large" /\ Answer("AGENT_FORBIDDEN") /\ UNCHANGED kept
           ELSE kept' = kept + n /\ UNCHANGED <<step, told, cause>>
  /\ UNCHANGED <<asked, hits>>

\* The stream ends, and _decode_body makes a text of any bytes.
StreamEnds ==
  /\ step = "stream"
  /\ step' = "summarize"
  /\ UNCHANGED <<total, kept, asked, hits, cause, told>>

\* The codec that the page names, idna or undefined, raises a UnicodeError that is
\* no UnicodeDecodeError: a ValueError for the server.
DecodeFails ==
  /\ step = "stream"
  /\ cause' = "codec"
  /\ Answer("INTENT_INVALID")
  /\ UNCHANGED <<total, kept, asked, hits>>

\* summarize_with_llm: the model's text or, without a model, on any error and for
\* an empty text, the beginning of the page.
Summarize ==
  /\ step = "summarize"
  /\ cause' \in {"none", "model"}
  /\ Answer("summary")
  /\ UNCHANGED <<total, kept, asked, hits>>

-----------------------------------------------------------------------------
\* Neither action, or one that the capabilities do not have.
OtherIntent ==
  /\ step = "other"
  /\ \E a \in {"INTENT_INVALID", "AGENT_FORBIDDEN"} : Answer(a)
  /\ UNCHANGED <<total, kept, asked, hits, cause>>

WebInit ==
  /\ step \in {"search", "check", "other"}
  /\ total = 0 /\ kept = 0 /\ hits = 0
  /\ asked \in 0..MaxAsked
  /\ cause = "none" /\ told = "none"

WebNext ==
  \/ SearchInvalid \/ SearchReturns \/ SearchRaises
  \/ CheckFails \/ CheckPasses \/ StreamFails \/ Chunk \/ StreamEnds \/ DecodeFails
  \/ Summarize
  \/ OtherIntent

WebSpec == WebInit /\ [][WebNext]_webVars

-----------------------------------------------------------------------------
(***************************************************************************)
(* Properties                                                              *)
(***************************************************************************)

WebTypeOK ==
  /\ step \in {"search", "check", "stream", "summarize", "other", "answered"}
  /\ total \in Nat /\ kept \in Nat
  /\ asked \in 0..MaxAsked /\ hits \in 0..MaxHits
  /\ cause \in Causes /\ told \in Answers

\* However the server cuts its page into chunks, the agent never holds more of it than
\* max_size, and what it sums up is a page that has ended with nothing dropped from it
\* (fetcher.py:253-264).
PageWithinCap ==
  /\ kept <= MaxSize
  /\ told = "summary" => kept = total

\* A fetch ends even if the server sends a page without end, each chunk within
\* the read timeout (fetcher.py:256-260).
FetchEnds == step = "stream" ~> step = "answered"
=============================================================================
