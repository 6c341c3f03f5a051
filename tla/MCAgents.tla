------------------------------ MODULE MCAgents ------------------------------
(***************************************************************************)
(* The agents in one run: a request of the document assistant, a call      *)
(* through the SDK, the clients of the language models, the data agent and *)
(* the web agent.  They meet only in the outcomes of calls, each of which  *)
(* its caller's model leaves open, so each behaviour is of one of them,    *)
(* which scenario names; fairness holds in a component's own behaviours.   *)
(***************************************************************************)
EXTENDS MCDocAssistant, AgentCall, LlmClient, DataAgent, WebAgent

VARIABLE scenario

MCTables == <<3, 1, 1>>

PartsInit ==
  /\ scenario \in {"request", "call", "chat", "read", "web"}
  /\ Init /\ CallInit /\ LlmInit /\ DataInit /\ WebInit
  /\ scenario # "request" => mode = "direct"
  /\ scenario # "call" => wrapped = FALSE
  /\ scenario # "chat" => provider = "volc" /\ takesJson
  /\ scenario # "web" => step = "other" /\ asked = 0

\* Reads meet in the cache of the token: one is past it at a time.
Calling(c) == read[c].pc \in {"call", "call_pause"}
ReadBound == \A c, d \in Reads : c # d => ~ (Calling(c) /\ Calling(d))

PartsNext ==
  /\ UNCHANGED scenario
  /\ \/ /\ scenario = "request" /\ Next
        /\ UNCHANGED <<callVars, llmVars, dataVars, webVars>>
     \/ /\ scenario = "call" /\ CallNext
        /\ UNCHANGED <<vars, llmVars, dataVars, webVars>>
     \/ /\ scenario = "chat" /\ LlmNext
        /\ UNCHANGED <<vars, callVars, dataVars, webVars>>
     \/ /\ scenario = "read" /\ DataNext /\ ReadBound'
        /\ UNCHANGED <<vars, callVars, llmVars, webVars>>
     \/ /\ scenario = "web" /\ WebNext
        /\ UNCHANGED <<vars, callVars, llmVars, dataVars>>

PartsVars == <<scenario, vars, callVars, llmVars, dataVars, webVars>>

\* The event loop runs what is ready, and every await of the SDK, of httpx and of
\* asyncio.sleep has a timeout.
PartsFairness ==
  /\ WF_vars(scenario = "request" /\ Next)
  /\ WF_callVars(scenario = "call" /\ (Exchange \/ ExchangeFails))
  /\ WF_callVars(scenario = "call" /\ (ClientGets \/ ClientTimesOut))
  /\ WF_callVars(scenario = "call" /\ Backoff)
  /\ WF_webVars(scenario = "web" /\ WebNext)

PartsSpec == PartsInit /\ [][PartsNext]_PartsVars /\ PartsFairness

\* The components keep to their types.
PartsTypeOK == TypeOK /\ CallTypeOK /\ LlmTypeOK /\ DataTypeOK /\ WebTypeOK

\* What is begun ends, whatever is lost and however large or slow the others are: a
\* request of the document assistant, whose DAG grows (dispatcher.py), a call with
\* its retries (client.py:237-265), and the fetch of a page (fetcher.py:253-272).
PartsEnd == RequestEnds /\ InvokeEnds /\ FetchEnds
=============================================================================
