----------------------------- MODULE LlmClient -----------------------------
(***************************************************************************)
(* The clients of the language models (agents/common/llm/volc.py and       *)
(* openai.py): chat and its loop of POSTs.  The two are alike but for one  *)
(* thing.  Some models of Ark refuse response_format; the Ark client then  *)
(* posts the same messages without it, and remembers the model, so that    *)
(* later chats leave it out from the start.  Chats run concurrently on one *)
(* provider and share that memory.                                         *)
(*                                                                         *)
(* One model is called.  A response is one of a few kinds; what it says is *)
(* left out, as are the pauses between attempts.                           *)
(***************************************************************************)
EXTENDS Integers, FiniteSets

CONSTANTS
  Chats,     \* calls of chat
  MaxPosts   \* _max_attempts

ASSUME LlmAssumption == MaxPosts \in Nat \ {0}

VARIABLES
  provider,  \* volc or openai
  takesJson, \* the model knows response_format
  marked,    \* the model is in _caps_no_json
  chat       \* per chat: its locals and what became of it

llmVars == <<provider, takesJson, marked, chat>>

\* What a POST ends with: a result, a body that is no JSON, one of another shape,
\* a status of _RETRYABLE_STATUS, a refusal of response_format, another refusal,
\* a timeout, an error of the transport.
Responses ==
  {"result", "garbled", "odd", "busy", "no_json", "refused", "timeout", "transport"}

Idle == [pc |-> "idle", json |-> FALSE, format |-> FALSE, posts |-> 0, tries |-> 0,
         got |-> "result", late |-> FALSE, asked |-> 0]

-----------------------------------------------------------------------------
\* wants_json
WantsJson(json) == json /\ ~ (provider = "volc" /\ marked)

\* chat builds the body.  late: it begins when the model is known already.
StartChat(c) ==
  /\ chat[c].pc = "idle"
  /\ \E json \in BOOLEAN :
        chat' = [chat EXCEPT ![c] =
                   [Idle EXCEPT !.pc = "post", !.json = WantsJson(json),
                                !.format = WantsJson(json), !.late = marked]]
  /\ UNCHANGED <<provider, takesJson, marked>>

\* What the model may respond to a body with or without response_format.
MayRespond(format) ==
  IF format /\ ~ takesJson THEN (Responses \ {"result", "garbled", "odd"})
  ELSE Responses \ {"no_json"}

Posted(x, r) ==
  [x EXCEPT !.pc = "judge", !.got = r, !.posts = @ + 1, !.tries = @ + 1,
            !.asked = IF x.format THEN @ + 1 ELSE @]

\* One POST of _post_with_retry.
Post(c) ==
  /\ chat[c].pc = "post"
  /\ \E r \in MayRespond(chat[c].format) :
        chat' = [chat EXCEPT ![c] = Posted(chat[c], r)]
  /\ UNCHANGED <<provider, takesJson, marked>>

\* What is tried again: a retryable status, a timeout, an error of the transport.
WorthAnother == {"busy", "timeout", "transport"}

Retry(c) ==
  /\ chat[c].pc = "judge"
  /\ chat[c].got \in WorthAnother
  /\ chat[c].tries < MaxPosts
  /\ chat' = [chat EXCEPT ![c].pc = "post"]
  /\ UNCHANGED <<provider, takesJson, marked>>

\* Faulty variant: whoever finds the model in the memory already gives up.
JsonRefusedFirst(c) == chat[c].json /\ chat[c].got = "no_json" /\ ~ marked

\* _is_json_mode_rejection, of a body that had the format.
JsonRefused(c) == chat[c].json /\ chat[c].got = "no_json"

\* The second loop, without the format.
FallBack(c) ==
  /\ chat[c].pc = "judge"
  /\ provider = "volc" /\ JsonRefused(c)
  /\ marked' = TRUE
  /\ chat' = [chat EXCEPT ![c].pc = "post", ![c].format = FALSE, ![c].tries = 0]
  /\ UNCHANGED <<provider, takesJson>>

\* The response is parsed, or an exception raised: what chat ends with is what
\* the last POST ended with.
EndChat(c) ==
  /\ chat[c].pc = "judge"
  /\ ~ (chat[c].got \in WorthAnother /\ chat[c].tries < MaxPosts)
  /\ ~ (provider = "volc" /\ JsonRefused(c))
  /\ chat' = [chat EXCEPT ![c].pc = "ended"]
  /\ UNCHANGED <<provider, takesJson, marked>>

LlmInit ==
  /\ provider \in {"volc", "openai"} /\ takesJson \in BOOLEAN /\ marked = FALSE
  /\ chat = [c \in Chats |-> Idle]

ChatStep(c) == StartChat(c) \/ Post(c) \/ Retry(c) \/ FallBack(c) \/ EndChat(c)

LlmNext == \E c \in Chats : ChatStep(c)

LlmSpec == LlmInit /\ [][LlmNext]_llmVars

-----------------------------------------------------------------------------
(***************************************************************************)
(* Properties                                                              *)
(***************************************************************************)

LlmTypeOK ==
  /\ provider \in {"volc", "openai"} /\ takesJson \in BOOLEAN /\ marked \in BOOLEAN
  /\ chat \in [Chats -> [pc : {"idle", "post", "judge", "ended"}, json : BOOLEAN,
                         format : BOOLEAN, posts : 0..(2 * MaxPosts),
                         tries : 0..MaxPosts, got : Responses, late : BOOLEAN,
                         asked : 0..MaxPosts]]

\* That a model of Ark does not know response_format is never the caller's
\* problem, even if another chat found it out while this one was posting
\* (volc.py:145-164).
JsonRefusalHidden ==
  provider = "volc" => \A c \in Chats : ~ (chat[c].pc = "ended" /\ chat[c].got = "no_json")

\* The round trip is paid by the chats that began before the answer was known,
\* and a model is remembered only if it is one of those (volc.py:126-130).
RoundTripPaidOnce ==
  /\ marked => ~ takesJson
  /\ provider = "volc" => \A c \in Chats : chat[c].late => chat[c].asked = 0

\* A chat posts at most _max_attempts times, twice as often if the format was
\* refused; a chat that ends on less than that got an answer that settles it.
PostsBounded ==
  \A c \in Chats :
     LET x == chat[c]
     IN  /\ x.posts <= (IF x.json /\ ~ x.format THEN 2 * MaxPosts ELSE MaxPosts)
         /\ x.pc = "ended" /\ x.got \in {"busy", "timeout", "transport"} =>
              x.posts >= MaxPosts
         /\ x.pc # "judge" /\ x.posts > 0 /\ x.got = "refused" => x.pc = "ended"

\* The memory that concurrent chats share hides what a model does not know, at the
\* price of one round trip and within the bound of attempts (volc.py:105-248).
ChatsHonest == JsonRefusalHidden /\ RoundTripPaidOnce /\ PostsBounded
=============================================================================
