---------------------------- MODULE DocAssistant ----------------------------
(***************************************************************************)
(* One request of the document assistant (agents/doc_assistant/): the      *)
(* graph planner -> plan_validate -> dispatcher -> synthesizer ->          *)
(* doc_writer, from the request to the answer, or the direct request for a *)
(* document (handler.py, action feishu.doc.write), which is its last node. *)
(*                                                                         *)
(* The DAG is the list of tasks of the code.  The dispatcher sends it      *)
(* layer by layer and lets it grow: a finished web.search adds web.fetch   *)
(* tasks for its first links, on which what depended on the search then    *)
(* depends too.  Requests share nothing but the cached tenant token, so    *)
(* one request is modelled; what runs concurrently is a layer's calls.     *)
(*                                                                         *)
(* Prompts, results and texts are left out.  An action of the data agent   *)
(* is "read"; a resource is a link for the fetches that the dispatcher adds *)
(* and otherwise only fit for a plan or not.                               *)
(***************************************************************************)
EXTENDS Integers, SequencesExt

CONSTANTS
  Proposals,  \* task lists that a language model may reply with
  HitLists,   \* lists of links that a search may find
  SafeLinks,  \* links that _safe_https accepts
  NoLink,     \* the resource of a task that is not such a fetch,
  Unfit,      \* or one that _RESOURCE_RE refuses: with a space, say
  MaxSources  \* bound on the sources a user selects

ASSUME DocAssumption ==
  MaxSources \in Nat /\ NoLink \notin SafeLinks /\ Unfit \notin SafeLinks \cup {NoLink}

VARIABLES
  pc,         \* the node that runs, or the await it is in
  mode,       \* where the document goes: DOC_STORAGE, or the direct request
  dag,        \* state["dag"]
  layers,     \* layers, as far as _topo_layers has built them
  layer,      \* ids of the calls that are being gathered
  outs,       \* the calls of the layer that ended: id -> outcome
  results,    \* results: id -> outcome
  dispatched, \* dispatched
  toExpand,   \* searches of the layer that ended and are yet to be expanded
  failure,    \* where the exception came from that ended the request
  cloud,      \* the document at Feishu: none, without its blocks, with them
  preview,    \* the record in the local document store exists
  sent        \* history: ids for which a call was made

vars == <<pc, mode, dag, layers, layer, outs, results, dispatched, toExpand,
          failure, cloud, preview, sent>>

\* The dispatcher's variables but the DAG.
loopVars == <<layers, layer, outs, results, dispatched, toExpand, sent>>

Agents == {"data_agent", "web_agent", "doc_assistant"}
Actions == {"read", "web.search", "web.fetch", "feishu.doc.write"}
Modes == {"feishu", "local", "direct"}
Failures == {"none", "planner", "rules", "validate", "cycle", "call", "expand",
             "create", "append", "save"}

-----------------------------------------------------------------------------
(***************************************************************************)
(* Tasks.  The id <<"t", 3>> is the string t3; an id whose first component *)
(* is "x" is one that _next_id_seed does not read a number from.           *)
(***************************************************************************)

TId(n) == <<"t", n>>

Task(id, agent, action, deps) ==
  [id |-> id, agent |-> agent, action |-> action, deps |-> deps,
   top_k |-> 0, auto |-> FALSE, resource |-> NoLink]

\* The value of fetch_top_k that int() refuses.  A negative number is for the
\* dispatcher what zero is.
IllTyped == -1

TaskIds == {"t", "x"} \X Nat

\* A reply may name an agent or an action that there is not.
Tasks ==
  [id : TaskIds, agent : Agents \cup {"unknown"}, action : Actions \cup {"unknown"},
   deps : SUBSET TaskIds, top_k : Nat \cup {IllTyped}, auto : BOOLEAN,
   resource : SafeLinks \cup {NoLink, Unfit}]

\* No reply has the dispatcher's own mark, _auto_expanded, which the prompt does not
\* name.
ASSUME ReplyAssumption ==
  /\ Proposals \subseteq Seq({t \in Tasks : ~ t.auto /\ t.resource \in {NoLink, Unfit}})
  /\ \A h \in HitLists : h \in Seq(ToSet(h))

Ids(d) == {t.id : t \in ToSet(d)}

\* by_id: of two tasks with one id the later one counts.
ById(d, i) == d[Max({n \in 1..Len(d) : d[n].id = i})]

-----------------------------------------------------------------------------
(***************************************************************************)
(* planner.py                                                              *)
(***************************************************************************)

\* Every id once, known agents and actions, fit resources, dependencies declared
\* before.  An id is seen before the task's own dependencies are looked at, so a
\* task may depend on itself.
ValidDag(d) ==
  \A n \in 1..Len(d) :
     LET before == {d[m].id : m \in 1..(n - 1)}
     IN  /\ d[n].id \notin before
         /\ d[n].agent \in Agents
         /\ d[n].action \in Actions
         /\ d[n].resource # Unfit
         /\ d[n].deps \subseteq before \cup {d[n].id}

\* Sources first, then the team's members, then a search if the prompt asks for
\* research or there is nothing else, then the document.  A source's resource is
\* what the user selected, the team's what FEISHU_CONTACT_DEPT_ID says.
RulePlan(sources, team, research, unfit) ==
  LET reads == sources + (IF team THEN 1 ELSE 0)
      n == reads + (IF research \/ reads = 0 THEN 1 ELSE 0)
  IN  [i \in 1..(n + 1) |->
         IF i <= reads
         THEN [Task(TId(i), "data_agent", "read", {}) EXCEPT
                 !.resource = IF i \in unfit THEN Unfit ELSE NoLink]
         ELSE IF i <= n
         THEN [Task(TId(i), "web_agent", "web.search", {}) EXCEPT !.top_k = 2]
         ELSE Task(TId(i), "doc_assistant", "feishu.doc.write",
                   {TId(j) : j \in 1..n})]

\* The model's tasks, with the document if it was forgotten.
WithDocument(p) ==
  IF \E t \in ToSet(p) : t.action = "feishu.doc.write" THEN p
  ELSE Append(p, Task(TId(Len(p) + 1), "doc_assistant", "feishu.doc.write", Ids(p)))

\* Nothing catches what the check of the rules' plan raises.
PlanByRule(sources) ==
  /\ \E team, research \in BOOLEAN, unfit \in SUBSET (1..(sources + 1)) :
        dag' = RulePlan(sources, team, research, unfit)
  /\ pc' = IF ValidDag(dag') THEN "validate" ELSE "failed"
  /\ failure' = IF ValidDag(dag') THEN failure ELSE "rules"

PlanByModel(p) ==
  /\ ValidDag(WithDocument(p))
  /\ dag' = WithDocument(p)
  /\ pc' = "validate"
  /\ UNCHANGED failure

\* A reply whose values have types that planner_node's except clause does not
\* foresee, such as a list of strings, ends the request.
PlanRaises ==
  /\ pc' = "failed"
  /\ failure' = "planner"
  /\ UNCHANGED dag

\* The model is asked only when no source was selected.  No model, an error of
\* the call and a plan that is not valid all lead to the rules.
Planner ==
  /\ pc = "planner"
  /\ \E sources \in 0..MaxSources :
        \/ PlanByRule(sources)
        \/ sources = 0 /\ (PlanRaises \/ \E p \in Proposals : PlanByModel(p))
  /\ UNCHANGED <<mode, cloud, preview, loopVars>>

\* The local check again; the verdict of the IdP is only logged.
PlanValidate ==
  /\ pc = "validate"
  /\ pc' = IF ValidDag(dag) THEN "dispatch" ELSE "failed"
  /\ failure' = IF ValidDag(dag) THEN failure ELSE "validate"
  /\ UNCHANGED <<mode, dag, cloud, preview, loopVars>>

-----------------------------------------------------------------------------
(***************************************************************************)
(* dispatcher.py: the layers.  A round of the loop computes them anew.     *)
(***************************************************************************)

\* done: what the layers that are built hold.
Placed == UNION ToSet(layers)

\* One round of _topo_layers; nothing ready with ids left is "cycle in DAG".
TopoRound ==
  /\ pc = "dispatch"
  /\ LET rest == Ids(dag) \ Placed
         ready == {i \in rest : ById(dag, i).deps \subseteq Placed}
     IN  IF rest = {}
         THEN pc' = "pick" /\ UNCHANGED <<layers, failure>>
         ELSE IF ready = {}
         THEN pc' = "failed" /\ failure' = "cycle" /\ UNCHANGED layers
         ELSE layers' = Append(layers, ready) /\ UNCHANGED <<pc, failure>>
  /\ UNCHANGED <<mode, dag, layer, outs, results, dispatched, toExpand, cloud,
                 preview, sent>>

IsDoc(i) == ById(dag, i).agent = "doc_assistant"

Pending(ids) == {i \in ids \ dispatched : ~ IsDoc(i)}

\* The first layer that has something to send, one past the last if none has.
FirstPending ==
  Min({n \in 1..Len(layers) : Pending(layers[n]) # {}} \cup {Len(layers) + 1})

\* Documents of the layers that are passed by are marked; doc_writer writes them.
PassedDocs ==
  {i \in UNION {layers[n] : n \in 1..(FirstPending - 1)} : IsDoc(i)}

NextLayer == Pending(layers[FirstPending])

\* The pending tasks of the first such layer are sent; with none the loop ends.
Dispatch ==
  /\ pc = "pick"
  /\ dispatched' = dispatched \cup PassedDocs
  /\ layers' = <<>>
  /\ IF FirstPending > Len(layers)
     THEN pc' = "synthesizer" /\ UNCHANGED <<layer, sent>>
     ELSE pc' = "gather" /\ layer' = NextLayer /\ sent' = sent \cup NextLayer
  /\ UNCHANGED <<mode, dag, outs, results, toExpand, failure, cloud, preview>>

-----------------------------------------------------------------------------
(***************************************************************************)
(* dispatcher.py: the calls of a layer and what they add                   *)
(***************************************************************************)

\* An answer of an agent, of use to the dispatcher only if it lists links; an
\* exception of the SDK.
Found(hits) == [ok |-> TRUE, hits |-> hits]
Raised == [ok |-> FALSE, hits |-> <<>>]

Outcomes(i) ==
  {Raised} \cup
  {Found(h) : h \in IF ById(dag, i).action = "web.search" THEN HitLists ELSE {<<>>}}

\* One call of asyncio.gather ends, with an answer or an exception.
CallEnds(i) ==
  /\ pc = "gather"
  /\ i \in layer \ DOMAIN outs
  /\ \E out \in Outcomes(i) :
        outs' = [j \in DOMAIN outs \cup {i} |-> IF j = i THEN out ELSE outs[j]]
  /\ UNCHANGED <<pc, mode, dag, layers, layer, results, dispatched, toExpand,
                 failure, cloud, preview, sent>>

\* Only a task that the dispatcher added itself may fail.
Fatal == {i \in layer : ~ outs[i].ok /\ ~ ById(dag, i).auto}

\* Faulty variant: a fetch that failed is left out.
SettledIfOk == {i \in layer : outs[i].ok}

\* What of a layer that ended is dispatched.
Settled == layer

\* All calls ended.  An exception raises DispatchFailed, and what the others
\* answered is lost with it; otherwise the searches are left to be expanded.
Gathered ==
  /\ pc = "gather"
  /\ layer \subseteq DOMAIN outs
  /\ layer' = {} /\ outs' = <<>>
  /\ IF Fatal # {}
     THEN /\ pc' = "failed"
          /\ failure' = "call"
          /\ UNCHANGED <<results, dispatched, toExpand>>
     ELSE /\ pc' = "expand"
          /\ results' = [i \in DOMAIN results \cup layer |->
                          IF i \in layer THEN outs[i] ELSE results[i]]
          /\ dispatched' = dispatched \cup Settled
          /\ toExpand' = {i \in layer : ById(dag, i).action = "web.search"}
          /\ UNCHANGED failure
  /\ UNCHANGED <<mode, dag, layers, cloud, preview, sent>>

\* Where a link that is safe is met for the first time.
Firsts(hits) ==
  {n \in 1..Len(hits) :
     hits[n] \in SafeLinks /\ \A m \in 1..(n - 1) : hits[m] # hits[n]}

\* The first top_k of them, in their order.
TakenLinks(hits, k) ==
  LET Rank(p) == Cardinality({m \in Firsts(hits) : m <= p})
  IN  [n \in 1..Min({k, Cardinality(Firsts(hits))}) |->
         hits[CHOOSE p \in Firsts(hits) : Rank(p) = n]]

\* One more than the greatest number in an id.
NextIdSeed == 1 + Max({0} \cup {i[2] : i \in {j \in Ids(dag) : j[1] = "t"}})

Fetch(s, n, link) ==
  [Task(TId(n), "web_agent", "web.fetch", {s}) EXCEPT !.auto = TRUE, !.resource = link]

\* Empty when fetch_top_k is zero or nothing was found.
FetchTasks(s) ==
  LET links == TakenLinks(results[s].hits, ById(dag, s).top_k)
  IN  [n \in 1..Len(links) |-> Fetch(s, NextIdSeed + n - 1, links[n])]

\* Faulty variant: the dependencies are left alone.
InjectNothing(d, s, new) == d

Patched(t, new) == [t EXCEPT !.deps = @ \cup new]

\* Whatever depended on the search and is not dispatched depends on its fetches.
Inject(d, s, new) ==
  [n \in 1..Len(d) |->
     IF d[n].id \notin dispatched /\ s \in d[n].deps THEN Patched(d[n], new) ELSE d[n]]

\* Faulty variant: the fetches join the list before the dependencies are patched.
GrownThenInjected(s) == Inject(dag \o FetchTasks(s), s, Ids(FetchTasks(s)))

Grown(s) == Inject(dag, s, Ids(FetchTasks(s))) \o FetchTasks(s)

\* The walk over the searches of the layer, whose order is arbitrary; a value of
\* fetch_top_k that is no number raises.
Expand(s) ==
  /\ pc = "expand"
  /\ s \in toExpand
  /\ toExpand' = toExpand \ {s}
  /\ IF ById(dag, s).top_k = IllTyped
     THEN pc' = "failed" /\ failure' = "expand" /\ UNCHANGED dag
     ELSE dag' = Grown(s) /\ UNCHANGED <<pc, failure>>
  /\ UNCHANGED <<mode, layers, layer, outs, results, dispatched, cloud, preview,
                 sent>>

\* The next round of the loop.
Expanded ==
  /\ pc = "expand"
  /\ toExpand = {}
  /\ pc' = "dispatch"
  /\ UNCHANGED <<mode, dag, failure, cloud, preview, loopVars>>

-----------------------------------------------------------------------------
(***************************************************************************)
(* synthesizer.py and doc_writer.py                                        *)
(***************************************************************************)

\* The blocks are a function of the results; a model that fails is done without.
Synthesizer ==
  /\ pc = "synthesizer"
  /\ pc' = IF mode = "local" THEN "save" ELSE "create"
  /\ UNCHANGED <<mode, dag, failure, cloud, preview, loopVars>>

\* The tenant token and POST documents.
CreateDoc ==
  /\ pc = "create"
  /\ cloud' = "empty"
  /\ pc' = "append"
  /\ UNCHANGED <<mode, dag, failure, preview, loopVars>>

\* One of them failed, or the answer to the second was lost.
CreateDocRaises ==
  /\ pc = "create"
  /\ cloud' \in {"none", "empty"}
  /\ pc' = "failed"
  /\ failure' = "create"
  /\ UNCHANGED <<mode, dag, preview, loopVars>>

\* Faulty variant: an answer of the second POST is taken for success.
AppendBlocksUnchecked ==
  /\ pc = "append"
  /\ cloud' \in {"empty", "full"}
  /\ pc' = IF mode = "direct" THEN "done" ELSE "save"
  /\ UNCHANGED <<mode, dag, failure, preview, loopVars>>

\* POST of the blocks, after a pause with a real host.  A direct request is
\* answered here.
AppendBlocks ==
  /\ pc = "append"
  /\ cloud' = "full"
  /\ pc' = IF mode = "direct" THEN "done" ELSE "save"
  /\ UNCHANGED <<mode, dag, failure, preview, loopVars>>

\* It was refused, or its answer was lost.
AppendBlocksRaises ==
  /\ pc = "append"
  /\ cloud' \in {"empty", "full"}
  /\ pc' = "failed"
  /\ failure' = "append"
  /\ UNCHANGED <<mode, dag, preview, loopVars>>

\* storage.save: the only copy in local mode, the preview otherwise.
Save ==
  /\ pc = "save"
  /\ preview' = TRUE
  /\ pc' = "done"
  /\ UNCHANGED <<mode, dag, failure, cloud, loopVars>>

\* OSError: logged if the document is at Feishu.
SaveFails ==
  /\ pc = "save"
  /\ pc' = IF mode = "local" THEN "failed" ELSE "done"
  /\ failure' = IF mode = "local" THEN "save" ELSE failure
  /\ UNCHANGED <<mode, dag, cloud, preview, loopVars>>

\* RuntimeError: no directory could be made.
SaveRaises ==
  /\ pc = "save"
  /\ pc' = "failed"
  /\ failure' = "save"
  /\ UNCHANGED <<mode, dag, cloud, preview, loopVars>>

-----------------------------------------------------------------------------
Init ==
  /\ mode \in Modes
  /\ pc = IF mode = "direct" THEN "create" ELSE "planner"
  /\ dag = <<>> /\ layers = <<>> /\ layer = {} /\ outs = <<>> /\ results = <<>>
  /\ dispatched = {} /\ toExpand = {} /\ failure = "none" /\ cloud = "none"
  /\ preview = FALSE /\ sent = {}

Next ==
  \/ Planner \/ PlanValidate
  \/ TopoRound \/ Dispatch
  \/ \E i \in layer : CallEnds(i)
  \/ Gathered
  \/ \E s \in toExpand : Expand(s)
  \/ Expanded
  \/ Synthesizer
  \/ CreateDoc \/ CreateDocRaises
  \/ AppendBlocks \/ AppendBlocksRaises
  \/ Save \/ SaveFails \/ SaveRaises

Spec == Init /\ [][Next]_vars

\* The event loop runs a ready coroutine; every call of the SDK, of the model
\* and of Feishu has a timeout.
FairSpec == Spec /\ WF_vars(Next)

-----------------------------------------------------------------------------
(***************************************************************************)
(* Properties                                                              *)
(***************************************************************************)

TypeOK ==
  /\ pc \in {"planner", "validate", "dispatch", "pick", "gather", "expand",
             "synthesizer", "create", "append", "save", "done", "failed"}
  /\ mode \in Modes
  /\ dag \in Seq({t \in Tasks : t.agent \in Agents /\ t.action \in Actions})
  /\ Placed \subseteq Ids(dag) /\ layer \subseteq Ids(dag)
  /\ DOMAIN outs \subseteq layer
  /\ DOMAIN results \subseteq Ids(dag) /\ dispatched \subseteq Ids(dag)
  /\ failure \in Failures
  /\ cloud \in {"none", "empty", "full"}
  /\ preview \in BOOLEAN
  /\ sent \subseteq Ids(dag)

\* The fetches that search s has led to.
FetchesOf(s) == {t \in ToSet(dag) : t.auto /\ s \in t.deps}

\* No id names two tasks, however the DAG grew (dispatcher.py:100-106): by_id,
\* results and the synthesizer's dag_by_id are keyed by it.
IdsUnique == Cardinality(Ids(dag)) = Len(dag)

\* A plan that passed the planner keeps passing.  The rules fail only on a resource
\* they were given (planner.py:341), and a DAG that grows between two layers does
\* not become cyclic: one that is came so from the model (dispatcher.py:33).
PlansStaySound ==
  /\ failure # "validate"
  /\ failure = "rules" => \E t \in ToSet(dag) : t.resource = Unfit
  /\ failure = "cycle" => \E t \in ToSet(dag) : ~ t.auto /\ t.id \in t.deps

\* The DAG that the dispatcher extends between two layers stays one: ids name one
\* task each, and nothing becomes cyclic that was not (dispatcher.py:33-110).
GraphSound == IdsUnique /\ PlansStaySound

\* A task is sent only when everything it needs has answered: its dependencies
\* but the documents, which doc_writer writes at the end, and the fetches that
\* the searches among them have led to (dispatcher.py:7-8, 195-204).
InputsFirst ==
  \A t \in ToSet(dag) : t.id \in sent =>
     \A i \in {j \in t.deps : ~ IsDoc(j)} :
        /\ i \in DOMAIN results
        /\ t.auto \/ \A f \in FetchesOf(i) : f.id \in DOMAIN results

\* A layer consists of tasks that were never sent: the loop computes its layers
\* anew from a DAG in which ids, dependencies and length have changed.
SentOnce ==
  [][pc = "pick" /\ pc' = "gather" => layer' \cap sent = {}]_vars

\* A search that answered has led to fetches of its safe links, each once, as many
\* as its fetch_top_k allows and there are (dispatcher.py:69-97).
LinksFollowed ==
  \A t \in ToSet(dag) :
     LET safe == ToSet(results[t.id].hits) \cap SafeLinks
         followed == {f.resource : f \in FetchesOf(t.id)}
     IN  t.action = "web.search" /\ t.id \in DOMAIN results /\ t.id \notin toExpand
         /\ failure = "none" =>
           /\ followed \subseteq safe
           /\ Cardinality(FetchesOf(t.id)) = Cardinality(followed)
           /\ Cardinality(followed) = Min({t.top_k, Cardinality(safe)})

\* What depends on a search runs after the pages that the search has led to, and a
\* search leads to the pages it is to (dispatcher.py:69-110, 195-204).
InOrder == InputsFirst /\ LinksFollowed

\* Every task but the documents has a result, an error only if the dispatcher
\* added it.
TasksDone ==
  \A t \in ToSet(dag) :
     \/ t.agent = "doc_assistant"
     \/ t.id \in DOMAIN results /\ (results[t.id].ok \/ t.auto)

\* The document is stored with its blocks where the mode says.
DocumentStored == IF mode = "local" THEN preview ELSE cloud = "full"

\* An answer without error means that the work was done: no layer was forgotten
\* while the DAG grew, and the document it names is complete.
AnswerMeansDone == pc = "done" => TasksDone /\ DocumentStored

\* A preview that names a document at Feishu is not ahead of it: GET /docs/{id}
\* shows blocks that the document has (doc_writer.py:201-215).
PreviewIsBacked == preview /\ mode # "local" => cloud = "full"

\* Neither the answer nor the preview promises more than was done, whichever of the
\* document's writes fails (doc_writer.py:150-215).
AnswersBacked == AnswerMeansDone /\ PreviewIsBacked

\* Every request that has a plan ends, although each layer may add tasks to those
\* that are left.
RequestEnds == pc \notin {"planner", "create"} ~> pc \in {"done", "failed"}

\* What planner.py:10-12 says of an invalid DAG of the model: the rules are used
\* instead.  So no request ends because a DAG has a cycle.
InvalidPlanFallsBack == failure # "cycle"
=============================================================================
