------------------------ MODULE DocAssistant_proofs -------------------------
(***************************************************************************)
(* Theorems about DocAssistant: the planner's rules, the loop that sends,  *)
(* and the document.                                                       *)
(***************************************************************************)
EXTENDS DocAssistant, NaturalsInduction, WellFoundedInduction, FiniteSetTheorems,
        TLAPS

-----------------------------------------------------------------------------
(***************************************************************************)
(* The plans                                                               *)
(***************************************************************************)

\* Two numbers give two ids.
LEMMA IdsDiffer == \A m, n \in Int : TId(m) = TId(n) => m = n
  BY DEF TId

\* What validate_dag asks of the list itself, whatever its resources are.
Shaped(d) ==
  \A n \in 1..Len(d) :
     LET before == {d[m].id : m \in 1..(n - 1)}
     IN  /\ d[n].id \notin before
         /\ d[n].agent \in Agents
         /\ d[n].action \in Actions
         /\ d[n].deps \subseteq before \cup {d[n].id}

Fit(d) == \A n \in 1..Len(d) : d[n].resource # Unfit

\* The rest are the resources (planner.py:44-61).
LEMMA ValidParts == \A d : ValidDag(d) <=> Shaped(d) /\ Fit(d)
  BY DEF ValidDag, Shaped, Fit

\* The list that the rules make is in order whatever was selected (planner.py:178-235):
\* its ids are distinct and the document depends on tasks that come before it.
LEMMA RulePlanIsShaped ==
  ASSUME NEW sources \in Nat, NEW team \in BOOLEAN, NEW research \in BOOLEAN, NEW unfit
  PROVE  LET plan == RulePlan(sources, team, research, unfit)
         IN  /\ Shaped(plan)
             /\ ToSet(plan) = {plan[i] : i \in 1..Len(plan)}
             /\ \A i \in 1..Len(plan) : plan[i].resource = Unfit <=>
                   i \in unfit /\ i <= sources + (IF team THEN 1 ELSE 0)
             /\ 1..(sources + (IF team THEN 1 ELSE 0)) \subseteq 1..Len(plan)
<1> DEFINE reads == sources + (IF team THEN 1 ELSE 0)
           n == reads + (IF research \/ reads = 0 THEN 1 ELSE 0)
           plan == RulePlan(sources, team, research, unfit)
<1>1. reads \in Nat /\ n \in Nat /\ reads <= n
  <2>1. reads \in Nat
    <3>1. CASE team
      BY <3>1
    <3>2. CASE ~ team
      BY <3>2
    <3> QED
      BY <3>1, <3>2
  <2>2. n = reads \/ n = reads + 1
    OBVIOUS
  <2> HIDE DEF reads, n
  <2> QED
    BY <2>1, <2>2
<1>2. plan = [i \in 1..(n + 1) |->
         IF i <= reads
         THEN [Task(TId(i), "data_agent", "read", {}) EXCEPT
                 !.resource = IF i \in unfit THEN Unfit ELSE NoLink]
         ELSE IF i <= n
         THEN [Task(TId(i), "web_agent", "web.search", {}) EXCEPT !.top_k = 2]
         ELSE Task(TId(i), "doc_assistant", "feishu.doc.write",
                   {TId(j) : j \in 1..n})]
  BY DEF RulePlan
<1> HIDE DEF reads, n, plan
<1>3. Len(plan) = n + 1 /\ DOMAIN plan = 1..(n + 1)
  BY <1>1, <1>2
<1>4. ASSUME NEW i \in 1..(n + 1)
      PROVE  /\ plan[i].id = TId(i)
             /\ plan[i].agent \in Agents /\ plan[i].action \in Actions
             /\ plan[i].deps \subseteq {TId(j) : j \in 1..(i - 1)}
  <2>1. CASE i <= reads
    BY <1>2, <2>1 DEF Task, Agents, Actions
  <2>2. CASE ~ (i <= reads) /\ i <= n
    BY <1>2, <2>2 DEF Task, Agents, Actions
  <2>3. CASE ~ (i <= reads) /\ ~ (i <= n)
    <3>1. i = n + 1
      BY <1>1, <2>3
    <3>2. plan[i] = Task(TId(i), "doc_assistant", "feishu.doc.write",
                         {TId(j) : j \in 1..n})
      BY <1>2, <2>3
    <3>3. i - 1 = n
      BY <1>1, <3>1
    <3> QED
      BY <3>2, <3>3 DEF Task, Agents, Actions
  <2> QED
    BY <2>1, <2>2, <2>3
<1>5. ASSUME NEW i \in 1..(n + 1)
      PROVE  {plan[m].id : m \in 1..(i - 1)} = {TId(m) : m \in 1..(i - 1)}
  <2>1. \A m \in 1..(i - 1) : plan[m].id = TId(m)
    BY <1>1, <1>4
  <2> QED
    BY <2>1
<1>6. ASSUME NEW i \in 1..(n + 1)
      PROVE  plan[i].id \notin {plan[m].id : m \in 1..(i - 1)}
  <2>1. \A m \in 1..(i - 1) : TId(m) # TId(i)
    BY <1>1, IdsDiffer
  <2>2. plan[i].id = TId(i)
    BY <1>4
  <2>3. TId(i) \notin {TId(m) : m \in 1..(i - 1)}
    BY <2>1
  <2> QED
    BY <1>5, <2>2, <2>3
<1>7. Shaped(plan)
  BY <1>3, <1>4, <1>5, <1>6 DEF Shaped
<1>8. ToSet(plan) = {plan[i] : i \in 1..Len(plan)}
  BY <1>3 DEF ToSet
<1>9. ASSUME NEW i \in 1..(n + 1)
      PROVE  plan[i].resource = Unfit <=> i \in unfit /\ i <= reads
  <2>1. NoLink # Unfit
    BY DocAssumption DEF DocAssumption
  <2>2. CASE i <= reads
    BY <1>2, <2>1, <2>2 DEF Task
  <2>3. CASE ~ (i <= reads) /\ i <= n
    BY <1>2, <2>1, <2>3 DEF Task
  <2>4. CASE ~ (i <= reads) /\ ~ (i <= n)
    BY <1>2, <2>1, <2>4 DEF Task
  <2> QED
    BY <2>2, <2>3, <2>4
<1>10. 1..reads \subseteq 1..(n + 1)
  BY <1>1
<1> QED
  BY <1>3, <1>7, <1>8, <1>9, <1>10 DEF plan, reads

\* The plan of the rules passes validate_dag just if the resources do that it was
\* given, however many sources were selected and whatever the prompt asks for
\* (planner.py:44-61, 178-236).
THEOREM RulePlanIsValid ==
  ASSUME NEW sources \in Nat, NEW team \in BOOLEAN, NEW research \in BOOLEAN, NEW unfit
  PROVE  ValidDag(RulePlan(sources, team, research, unfit)) <=>
           unfit \cap 1..(sources + (IF team THEN 1 ELSE 0)) = {}
<1> DEFINE plan == RulePlan(sources, team, research, unfit)
           reads == sources + (IF team THEN 1 ELSE 0)
<1>1. /\ Shaped(plan)
      /\ \A i \in 1..Len(plan) : plan[i].resource = Unfit <=> i \in unfit /\ i <= reads
      /\ 1..reads \subseteq 1..Len(plan)
  BY RulePlanIsShaped
<1>2. reads \in Nat
  BY RulePlanIsShaped
<1> HIDE DEF plan, reads
<1>3. Fit(plan) <=> unfit \cap 1..reads = {}
  <2>1. \A i \in 1..Len(plan) : i \in Nat /\ i >= 1
    BY DEF plan
  <2>2. \A i \in 1..Len(plan) : i <= reads <=> i \in 1..reads
    BY <1>2, <2>1
  <2> QED
    BY <1>1, <2>2 DEF Fit
<1>4. ValidDag(plan) <=> Shaped(plan) /\ Fit(plan)
  BY ValidParts
<1> QED
  BY <1>1, <1>3, <1>4 DEF plan, reads

-----------------------------------------------------------------------------
(***************************************************************************)
(* The inductive invariant                                                 *)
(***************************************************************************)

\* Only valid plans reach plan_validate, and the rules fail on a resource only.
PlanInv ==
  /\ pc = "validate" => ValidDag(dag)
  /\ failure # "validate"
  /\ failure = "rules" => pc = "failed" /\ \E t \in ToSet(dag) : t.resource = Unfit

\* What was sent is dispatched, or in the layer whose calls are gathered.
SentInv ==
  /\ pc = "gather" => sent \subseteq dispatched \cup layer
  /\ pc \notin {"gather", "failed"} => sent \subseteq dispatched

\* The writes of the document and of its preview come in this order.
DocumentInv ==
  /\ preview \in BOOLEAN
  /\ pc = "save" => mode = "local" \/ cloud = "full"
  /\ preview => pc = "done"
  /\ pc = "done" => DocumentStored

Inv == PlanInv /\ SentInv /\ DocumentInv

\* It holds of a request that begins,
LEMMA InitInv == Init => Inv
  BY DEF Init, Inv, PlanInv, SentInv, DocumentInv, DocumentStored

\* after the planner,
LEMMA PlannerInv == Inv /\ Planner => Inv'
<1> SUFFICES ASSUME Inv, Planner PROVE Inv'
  OBVIOUS
<1>1. PICK sources \in 0..MaxSources :
         \/ PlanByRule(sources)
         \/ sources = 0 /\ (PlanRaises \/ \E p \in Proposals : PlanByModel(p))
  BY DEF Planner
<1>2. pc = "planner" /\ UNCHANGED <<mode, cloud, preview, loopVars>>
  BY DEF Planner
<1>3. PlanInv'
  <2>1. CASE PlanByRule(sources)
    <3>1. sources \in Nat
      BY DocAssumption DEF DocAssumption
    <3>2. PICK team \in BOOLEAN, research \in BOOLEAN, unfit \in SUBSET (1..(sources + 1)) :
             dag' = RulePlan(sources, team, research, unfit)
      BY <2>1 DEF PlanByRule
    <3>3. Shaped(dag') /\ ToSet(dag') = {dag'[i] : i \in 1..Len(dag')}
      BY <3>1, <3>2, RulePlanIsShaped
    <3>4. CASE ValidDag(dag')
      <4>1. pc' = "validate" /\ failure' = failure
        BY <2>1, <3>4 DEF PlanByRule
      <4>2. ValidDag(dag)'
        BY <3>4 DEF ValidDag
      <4> QED
        BY <1>2, <4>1, <4>2 DEF Inv, PlanInv
    <3>5. CASE ~ ValidDag(dag')
      <4>1. pc' = "failed" /\ failure' = "rules"
        BY <2>1, <3>5 DEF PlanByRule
      <4>2. \E t \in ToSet(dag') : t.resource = Unfit
        BY <3>3, <3>5, ValidParts DEF Fit
      <4>3. (\E t \in ToSet(dag) : t.resource = Unfit)'
        BY <4>2
      <4> QED
        BY <4>1, <4>3 DEF PlanInv
    <3> QED
      BY <3>4, <3>5
  <2>2. CASE PlanRaises
    BY <2>2 DEF PlanRaises, PlanInv
  <2>3. ASSUME NEW p \in Proposals, PlanByModel(p)
        PROVE  PlanInv'
    <3>1. ValidDag(dag)'
      BY <2>3 DEF PlanByModel, ValidDag
    <3> QED
      BY <1>2, <2>3, <3>1 DEF PlanByModel, Inv, PlanInv
  <2> QED
    BY <1>1, <2>1, <2>2, <2>3
<1>4. pc' \in {"validate", "failed"}
  BY <1>1 DEF PlanByRule, PlanRaises, PlanByModel
<1>5. SentInv'
  BY <1>2, <1>4 DEF Inv, SentInv, loopVars
<1>6. DocumentInv'
  BY <1>2, <1>4 DEF Inv, DocumentInv, DocumentStored
<1> QED
  BY <1>3, <1>5, <1>6 DEF Inv

\* in the dispatcher's loop,
LEMMA LoopInv ==
  ASSUME Inv,
         \/ TopoRound \/ Dispatch \/ Gathered \/ Expanded
         \/ (\E i \in layer : CallEnds(i)) \/ (\E s \in toExpand : Expand(s))
  PROVE  Inv'
<1>1. CASE TopoRound
  BY <1>1 DEF TopoRound, Inv, PlanInv, SentInv, DocumentInv, DocumentStored
<1>2. CASE Dispatch
  BY <1>2 DEF Dispatch, Inv, PlanInv, SentInv, DocumentInv, DocumentStored
<1>3. CASE Gathered
  BY <1>3 DEF Gathered, Settled, Inv, PlanInv, SentInv, DocumentInv, DocumentStored
<1>4. CASE Expanded
  BY <1>4 DEF Expanded, loopVars, Inv, PlanInv, SentInv, DocumentInv, DocumentStored
<1>5. ASSUME NEW i \in layer, CallEnds(i)
      PROVE  Inv'
  BY <1>5 DEF CallEnds, Inv, PlanInv, SentInv, DocumentInv, DocumentStored
<1>6. ASSUME NEW s \in toExpand, Expand(s)
      PROVE  Inv'
  BY <1>6 DEF Expand, Inv, PlanInv, SentInv, DocumentInv, DocumentStored
<1> QED
  BY <1>1, <1>2, <1>3, <1>4, <1>5, <1>6

\* and in the nodes after it.
LEMMA DocumentSteps ==
  ASSUME Inv,
         \/ PlanValidate \/ Synthesizer \/ CreateDoc \/ CreateDocRaises
         \/ AppendBlocks \/ AppendBlocksRaises \/ Save \/ SaveFails \/ SaveRaises
  PROVE  Inv'
<1>1. CASE PlanValidate
  BY <1>1 DEF PlanValidate, loopVars, Inv, PlanInv, SentInv, DocumentInv, DocumentStored
<1>2. CASE Synthesizer
  BY <1>2 DEF Synthesizer, loopVars, Inv, PlanInv, SentInv, DocumentInv, DocumentStored
<1>3. CASE CreateDoc \/ CreateDocRaises
  BY <1>3 DEF CreateDoc, CreateDocRaises, loopVars, Inv, PlanInv, SentInv,
              DocumentInv, DocumentStored
<1>4. CASE AppendBlocks
  BY <1>4 DEF AppendBlocks, loopVars, Inv, PlanInv, SentInv, DocumentInv, DocumentStored
<1>5. CASE AppendBlocksRaises
  BY <1>5 DEF AppendBlocksRaises, loopVars, Inv, PlanInv, SentInv, DocumentInv,
              DocumentStored
<1>6. CASE Save
  BY <1>6 DEF Save, loopVars, Inv, PlanInv, SentInv, DocumentInv, DocumentStored
<1>7. CASE SaveFails \/ SaveRaises
  BY <1>7 DEF SaveFails, SaveRaises, loopVars, Inv, PlanInv, SentInv, DocumentInv,
              DocumentStored
<1> QED
  BY <1>1, <1>2, <1>3, <1>4, <1>5, <1>6, <1>7

\* So every step keeps it.
LEMMA StepInv == Inv /\ [Next]_vars => Inv'
<1> SUFFICES ASSUME Inv, [Next]_vars PROVE Inv'
  OBVIOUS
<1>1. CASE UNCHANGED vars
  BY <1>1 DEF vars, Inv, PlanInv, SentInv, DocumentInv, DocumentStored, ValidDag
<1>2. CASE Next
  BY <1>2, PlannerInv, LoopInv, DocumentSteps DEF Next
<1> QED
  BY <1>1, <1>2

\* The invariant holds in every state of every request.
THEOREM InductiveInvariant == Spec => []Inv
  BY InitInv, StepInv, PTL DEF Spec

-----------------------------------------------------------------------------
(***************************************************************************)
(* The invariant of the graph, of the loop and of what it sends            *)
(***************************************************************************)

\* The list is one of tasks, of which no two have one id.
IsList(d) ==
  /\ d \in Seq(Tasks)
  /\ \A m, n \in 1..Len(d) : d[m].id = d[n].id => m = n

\* What the dispatcher added is a fetch, which needs one search of the plan.
FetchesNameSearches(d) ==
  \A n \in 1..Len(d) : d[n].auto =>
     /\ d[n].agent = "web_agent" /\ d[n].action = "web.fetch"
     /\ \E k \in 1..Len(d) :
           ~ d[k].auto /\ d[k].action = "web.search" /\ d[n].deps = {d[k].id}

\* A task of the plan needs earlier tasks of the plan, or itself, and fetches for the
\* earlier ones, which come later in the list: the order in which only a task that
\* needs itself is cyclic.
Ordered(d) ==
  \A n \in 1..Len(d) : ~ d[n].auto =>
     \A i \in d[n].deps :
        \E m \in 1..Len(d) :
           /\ d[m].id = i
           /\ IF d[m].auto THEN \E k \in 1..(n - 1) : ~ d[k].auto /\ d[m].deps = {d[k].id}
              ELSE m <= n

\* No task of the plan needs itself.
Loopless(d) == \A n \in 1..Len(d) : ~ d[n].auto => d[n].id \notin d[n].deps

\* A cycle that ended a request came with the plan.
CycleInv ==
  failure = "cycle" => pc = "failed" /\ \E t \in ToSet(dag) : ~ t.auto /\ t.id \in t.deps

\* The graph, in every state.
GraphInv == IsList(dag) /\ FetchesNameSearches(dag) /\ Ordered(dag)

\* What a layer needs is in the layers before it.
LayersInv ==
  /\ layers \in Seq(SUBSET Ids(dag))
  /\ \A n \in 1..Len(layers) : \A i \in layers[n] :
        ById(dag, i).deps \subseteq UNION {layers[m] : m \in 1..(n - 1)}
  /\ pc \in {"planner", "validate", "gather", "expand"} => layers = <<>>
  /\ pc = "pick" => Placed = Ids(dag)

\* What a call may end with.
Replies == [ok : BOOLEAN, hits : HitLists \cup {<<>>}]

\* An answer is there, and the pages that it led to are in the list.
Heard(i) == i \in DOMAIN results /\ i \notin toExpand

\* Everything that a task needs, but the documents, has an answer.
HasInputs(i) == \A j \in ById(dag, i).deps : IsDoc(j) \/ Heard(j)

\* What is in the layer has not been sent before; what is dispatched has a result
\* or is a document; and nothing is either before what it needs has an answer.
CallsInv ==
  /\ layer \subseteq sent /\ sent \subseteq Ids(dag) /\ dispatched \subseteq Ids(dag)
  /\ layer \cap dispatched = {}
  /\ pc # "gather" => layer = {}
  /\ pc = "planner" => dispatched = {} /\ sent = {}
  /\ \A i \in layer : ~ IsDoc(i)
  /\ DOMAIN outs \subseteq layer
  /\ \A i \in DOMAIN outs : outs[i] \in Replies
  /\ DOMAIN results \subseteq dispatched
  /\ \A i \in dispatched : IsDoc(i) \/ i \in DOMAIN results
  /\ \A i \in DOMAIN results :
        results[i] \in Replies /\ (results[i].ok \/ ById(dag, i).auto)
  /\ \A i \in toExpand :
        i \in DOMAIN results /\ ~ IsDoc(i) /\ ById(dag, i).action = "web.search"
  /\ pc \notin {"expand", "failed"} => toExpand = {}
  /\ \A i \in dispatched \cup sent : HasInputs(i)

\* A fetch is for a search that has been expanded, and whatever needs the search
\* needs the fetch.
FetchesInv ==
  /\ \A t \in ToSet(dag) : t.auto => \A s \in t.deps : Heard(s)
  /\ \A t, f \in ToSet(dag) :
        ~ t.auto /\ f.auto /\ f.deps \subseteq t.deps => f.id \in t.deps

\* The loop ends when nothing is left to be sent.
LoopEnds ==
  pc \in {"synthesizer", "create", "append", "save", "done"} =>
     \A t \in ToSet(dag) : t.agent = "doc_assistant" \/ t.id \in DOMAIN results

\* The rest of the state.
StateTypes ==
  /\ pc \in {"planner", "validate", "dispatch", "pick", "gather", "expand",
             "synthesizer", "create", "append", "save", "done", "failed"}
  /\ mode \in Modes
  /\ \A t \in ToSet(dag) : t.agent \in Agents /\ t.action \in Actions
  /\ failure \in Failures
  /\ cloud \in {"none", "empty", "full"}
  /\ preview \in BOOLEAN

\* The inductive invariant, with Inv.
IInv ==
  /\ StateTypes /\ GraphInv /\ LayersInv /\ CallsInv /\ FetchesInv /\ LoopEnds
  /\ CycleInv /\ LinksFollowed

-----------------------------------------------------------------------------
(***************************************************************************)
(* Numbers, and lists of tasks                                             *)
(***************************************************************************)

\* Of some numbers one is the least.
LEMMA LeastOf ==
  ASSUME NEW T \in SUBSET Nat, T # {}
  PROVE  \E x \in T : \A y \in T : x <= y
<1>1. IsWellFoundedOn({ss \in Nat \X Nat : ss[1] < ss[2]}, Nat)
  BY NatLessThanWellFounded, Zenon DEF OpToRel
<1> PICK R : R = {ss \in Nat \X Nat : ss[1] < ss[2]}
  OBVIOUS
<1>2. \E x \in T : \A y \in T : ~ (<<y, x>> \in R)
  BY <1>1, WFMin
<1>3. \A x, y \in Nat : y < x => <<y, x>> \in R
  OBVIOUS
<1>4. PICK x \in T : \A y \in T : ~ (y < x)
  BY <1>2, <1>3
<1> QED
  BY <1>4

\* It is what Min yields.
LEMMA MinIs ==
  ASSUME NEW T \in SUBSET Nat, T # {}
  PROVE  Min(T) \in T /\ \A y \in T : Min(T) <= y
  BY LeastOf DEF Min

\* Of some numbers up to n one is the greatest.
LEMMA MaxIs ==
  ASSUME NEW n \in Nat, NEW T \in SUBSET (0..n), T # {}
  PROVE  Max(T) \in T /\ \A y \in T : y <= Max(T)
<1> DEFINE U == {b \in 0..n : \A y \in T : y <= b}
<1>1. n \in U /\ U \in SUBSET Nat
  OBVIOUS
<1>2. PICK b \in U : \A y \in U : b <= y
  <2> HIDE DEF U
  <2> QED
    BY <1>1, LeastOf
<1>3. b \in 0..n /\ \A y \in T : y <= b
  OBVIOUS
<1>4. b \in T
  <2> SUFFICES ASSUME b \notin T PROVE FALSE
    OBVIOUS
  <2>1. \A y \in T : y <= b - 1
    <3> SUFFICES ASSUME NEW y \in T PROVE y <= b - 1
      OBVIOUS
    <3>1. y \in Int /\ b \in Int /\ y <= b /\ y # b
      BY <1>3
    <3> QED
      BY <3>1
  <2>2. b - 1 \in 0..n
    <3>1. PICK y \in T : y \in 0..n
      OBVIOUS
    <3> QED
      BY <1>3, <2>1, <3>1
  <2>3. b - 1 \in U
    BY <2>1, <2>2
  <2> QED
    BY <1>2, <1>3, <2>3
<1> QED
  BY <1>3, <1>4 DEF Max

\* What a list of tasks consists of.
LEMMA ListParts ==
  ASSUME NEW d \in Seq(Tasks)
  PROVE  /\ Len(d) \in Nat
         /\ \A n \in 1..Len(d) : d[n] \in Tasks
         /\ ToSet(d) = {d[n] : n \in 1..Len(d)}
         /\ Ids(d) = {d[n].id : n \in 1..Len(d)}
<1>1. DOMAIN d = 1..Len(d) /\ Len(d) \in Nat /\ \A n \in 1..Len(d) : d[n] \in Tasks
  OBVIOUS
<1>2. ToSet(d) = {d[n] : n \in 1..Len(d)}
  BY <1>1 DEF ToSet
<1>3. Ids(d) = {d[n].id : n \in 1..Len(d)}
  BY <1>2 DEF Ids
<1> QED
  BY <1>1, <1>2, <1>3

\* What a task consists of.
LEMMA TaskFields ==
  \A t \in Tasks : /\ t.id \in TaskIds /\ t.deps \in SUBSET TaskIds /\ t.top_k \in Nat \cup {IllTyped}
                   /\ t.auto \in BOOLEAN /\ t.resource \in SafeLinks \cup {NoLink, Unfit}
  BY DEF Tasks

\* Of a list in which no id names two tasks, by_id has every task.
LEMMA ByIdIs ==
  ASSUME NEW d, IsList(d), NEW n \in 1..Len(d)
  PROVE  ById(d, d[n].id) = d[n]
<1>1. {m \in 1..Len(d) : d[m].id = d[n].id} = {n}
  BY DEF IsList
<1>2. n \in Int
  BY ListParts DEF IsList
<1>3. Max({n}) = n
  BY <1>2 DEF Max
<1> QED
  BY <1>1, <1>3 DEF ById

\* The same, told of tasks and of ids.
LEMMA ByIdInSet ==
  ASSUME NEW d, IsList(d)
  PROVE  /\ \A t \in ToSet(d) : ById(d, t.id) = t /\ t.id \in Ids(d) /\ t \in Tasks
         /\ \A i \in Ids(d) : ById(d, i) \in ToSet(d) /\ ById(d, i).id = i
<1>1. d \in Seq(Tasks)
  BY DEF IsList
<1> QED
  BY <1>1, ByIdIs, ListParts

\* A function that tells K numbers apart has K values.
LEMMA ValuesCount ==
  ASSUME NEW K \in Nat, NEW T, NEW g \in [1..K -> T],
         \A u \in T : \E n \in 1..K : g[n] = u,
         \A m, n \in 1..K : g[m] = g[n] => m = n
  PROVE  Cardinality(T) = K
<1>1. g \in Bijection(1..K, T)
  BY DEF Bijection, Injection, IsInjective, Surjection
<1>2. ExistsBijection(1..K, T)
  BY <1>1 DEF ExistsBijection
<1> QED
  BY <1>2, FS_CountingElements

\* Such a list has as many ids as tasks.
LEMMA ListCounts ==
  ASSUME NEW d, IsList(d)
  PROVE  Cardinality(Ids(d)) = Len(d)
<1>1. d \in Seq(Tasks) /\ Len(d) \in Nat /\ Ids(d) = {d[n].id : n \in 1..Len(d)}
  BY ListParts DEF IsList
<1> DEFINE g == [n \in 1..Len(d) |-> d[n].id]
<1>2. g \in [1..Len(d) -> Ids(d)] /\ \A u \in Ids(d) : \E n \in 1..Len(d) : g[n] = u
  BY <1>1
<1>3. \A m, n \in 1..Len(d) : g[m] = g[n] => m = n
  BY DEF IsList
<1> HIDE DEF g
<1> QED
  BY <1>1, <1>2, <1>3, ValuesCount

-----------------------------------------------------------------------------
(***************************************************************************)
(* The graph                                                               *)
(***************************************************************************)

\* A plan that is in order is such a graph.
LEMMA ValidIsGraph ==
  ASSUME NEW d \in Seq({t \in Tasks : ~ t.auto}), Shaped(d)
  PROVE  /\ IsList(d) /\ FetchesNameSearches(d) /\ Ordered(d)
         /\ \A n \in 1..Len(d) : ~ d[n].auto
<1>1. /\ d \in Seq(Tasks) /\ Len(d) \in Nat
      /\ \A n \in 1..Len(d) : ~ d[n].auto
  OBVIOUS
<1>2. \A n \in 1..Len(d) : /\ d[n].id \notin {d[m].id : m \in 1..(n - 1)}
                           /\ d[n].deps \subseteq {d[m].id : m \in 1..(n - 1)} \cup {d[n].id}
  BY DEF Shaped
<1>3. ASSUME NEW m \in 1..Len(d), NEW n \in 1..Len(d), m < n
      PROVE  d[m].id # d[n].id
  <2>1. m \in 1..(n - 1)
    BY <1>1, <1>3
  <2> QED
    BY <1>2, <2>1
<1>4. \A m, n \in 1..Len(d) : m = n \/ m < n \/ n < m
  BY <1>1
<1>5. IsList(d)
  BY <1>1, <1>3, <1>4 DEF IsList
<1>6. ASSUME NEW n \in 1..Len(d), NEW i \in d[n].deps
      PROVE  \E m \in 1..Len(d) : d[m].id = i /\ m <= n
  <2>1. CASE i = d[n].id
    BY <1>1, <2>1
  <2>2. CASE i # d[n].id
    <3>1. PICK m \in 1..(n - 1) : d[m].id = i
      BY <1>2, <2>2
    <3>2. m \in 1..Len(d) /\ m <= n
      BY <1>1
    <3> QED
      BY <3>1, <3>2
  <2> QED
    BY <2>1, <2>2
<1>7. Ordered(d)
  BY <1>1, <1>6 DEF Ordered
<1> QED
  BY <1>1, <1>5, <1>7 DEF FetchesNameSearches

\* As long as ids are left out of P, one of them needs nothing else that is left.
LEMMA SomethingIsReady ==
  ASSUME NEW d, IsList(d), FetchesNameSearches(d), Ordered(d), Loopless(d),
         NEW P, Ids(d) \ P # {}
  PROVE  \E i \in Ids(d) \ P : ById(d, i).deps \subseteq P
<1> SUFFICES ASSUME \A i \in Ids(d) \ P : ~ (ById(d, i).deps \subseteq P)
             PROVE  FALSE
  OBVIOUS
<1>1. Len(d) \in Nat /\ Ids(d) = {d[n].id : n \in 1..Len(d)}
  BY ListParts DEF IsList
<1>2. ASSUME NEW n \in 1..Len(d), d[n].deps \subseteq P PROVE d[n].id \in P
  BY <1>1, <1>2, ByIdIs
<1> DEFINE Q == {n \in 1..Len(d) : ~ d[n].auto /\ d[n].id \notin P}
<1>3. ASSUME NEW m \in 1..Len(d), NEW k \in 1..Len(d), d[m].deps = {d[k].id},
             ~ d[k].auto, k \notin Q
      PROVE  d[m].id \in P
  BY <1>2, <1>3
<1>4. Q # {}
  <2> SUFFICES ASSUME Q = {} PROVE FALSE
    OBVIOUS
  <2>1. PICK n \in 1..Len(d) : d[n].id \notin P
    BY <1>1
  <2>2. PICK k \in 1..Len(d) : ~ d[k].auto /\ d[n].deps = {d[k].id}
    BY <2>1 DEF FetchesNameSearches
  <2> QED
    BY <1>3, <2>1, <2>2
<1>5. PICK n \in Q : \A k \in Q : n <= k
  <2>1. Q \in SUBSET Nat
    BY <1>1
  <2> HIDE DEF Q
  <2> QED
    BY <1>4, <2>1, LeastOf
<1>6. n \in 1..Len(d) /\ ~ d[n].auto /\ d[n].id \notin P
  BY <1>5
<1>7. ASSUME NEW k \in 1..Len(d), k < n PROVE k \notin Q
  BY <1>1, <1>5, <1>6, <1>7
<1>8. ASSUME NEW i \in d[n].deps PROVE i \in P
  <2>1. PICK m \in 1..Len(d) :
           /\ d[m].id = i
           /\ IF d[m].auto THEN \E k \in 1..(n - 1) : ~ d[k].auto /\ d[m].deps = {d[k].id}
              ELSE m <= n
    BY <1>6 DEF Ordered
  <2>2. CASE d[m].auto
    <3>1. PICK k \in 1..(n - 1) : ~ d[k].auto /\ d[m].deps = {d[k].id}
      BY <2>1, <2>2
    <3>2. k \in 1..Len(d) /\ k < n
      BY <1>1, <1>6
    <3>3. k \notin Q
      BY <1>7, <3>2
    <3> QED
      BY <1>3, <2>1, <3>1, <3>2, <3>3
  <2>3. CASE ~ d[m].auto
    <3>1. m # n
      BY <1>6, <2>1 DEF Loopless
    <3>2. m < n
      BY <1>1, <1>6, <2>1, <2>3, <3>1
    <3> QED
      BY <1>7, <2>1, <2>3, <3>2
  <2> QED
    BY <2>2, <2>3
<1> QED
  BY <1>2, <1>6, <1>8

\* The rules' plans are lists of the planner's tasks,
LEMMA RulePlanIsList ==
  ASSUME NEW sources \in Nat, NEW team \in BOOLEAN, NEW research \in BOOLEAN, NEW unfit
  PROVE  RulePlan(sources, team, research, unfit) \in Seq({t \in Tasks : ~ t.auto})
<1> DEFINE reads == sources + (IF team THEN 1 ELSE 0)
           n == reads + (IF research \/ reads = 0 THEN 1 ELSE 0)
           P == {t \in Tasks : ~ t.auto}
<1>1. n \in Nat
  OBVIOUS
<1>2. \A i \in Nat : TId(i) \in TaskIds
  BY DEF TId, TaskIds
<1>3. \A i \in Nat, deps \in SUBSET TaskIds :
         /\ \A u \in {NoLink, Unfit} :
              [Task(TId(i), "data_agent", "read", deps) EXCEPT !.resource = u] \in P
         /\ Task(TId(i), "doc_assistant", "feishu.doc.write", deps) \in P
         /\ [Task(TId(i), "web_agent", "web.search", deps) EXCEPT !.top_k = 2] \in P
  BY ZenonT(30), <1>2 DEF Task, Tasks, Agents, Actions
<1>4. {} \in SUBSET TaskIds /\ {TId(j) : j \in 1..n} \in SUBSET TaskIds
  BY <1>1, <1>2
<1>5. RulePlan(sources, team, research, unfit) =
        [i \in 1..(n + 1) |->
         IF i <= reads
         THEN [Task(TId(i), "data_agent", "read", {}) EXCEPT
                 !.resource = IF i \in unfit THEN Unfit ELSE NoLink]
         ELSE IF i <= n
         THEN [Task(TId(i), "web_agent", "web.search", {}) EXCEPT !.top_k = 2]
         ELSE Task(TId(i), "doc_assistant", "feishu.doc.write",
                   {TId(j) : j \in 1..n})]
  BY DEF RulePlan
<1> HIDE DEF reads, n, P
<1>6. RulePlan(sources, team, research, unfit) \in [1..(n + 1) -> P]
  <2>1. ASSUME NEW i \in 1..(n + 1)
        PROVE  /\ [Task(TId(i), "data_agent", "read", {}) EXCEPT
                      !.resource = IF i \in unfit THEN Unfit ELSE NoLink] \in P
               /\ [Task(TId(i), "web_agent", "web.search", {}) EXCEPT !.top_k = 2] \in P
               /\ Task(TId(i), "doc_assistant", "feishu.doc.write",
                       {TId(j) : j \in 1..n}) \in P
    <3>1. i \in Nat
      BY <1>1
    <3>2. \A deps \in SUBSET TaskIds, u \in {NoLink, Unfit} :
            [Task(TId(i), "data_agent", "read", deps) EXCEPT !.resource = u] \in P
      BY <1>3, <3>1
    <3>3. \A deps \in SUBSET TaskIds :
            Task(TId(i), "doc_assistant", "feishu.doc.write", deps) \in P
      BY <1>3, <3>1
    <3>4. \A deps \in SUBSET TaskIds :
            [Task(TId(i), "web_agent", "web.search", deps) EXCEPT !.top_k = 2] \in P
      BY <1>3, <3>1
    <3> QED
      BY <1>4, <3>2, <3>3, <3>4
  <2>2. ASSUME NEW i \in 1..(n + 1)
        PROVE  RulePlan(sources, team, research, unfit)[i] \in P
    <3>1. CASE i <= reads
      BY <1>5, <2>1, <3>1
    <3>2. CASE ~ (i <= reads) /\ i <= n
      BY <1>5, <2>1, <3>2
    <3>3. CASE ~ (i <= reads) /\ ~ (i <= n)
      BY <1>5, <2>1, <3>3
    <3> QED
      BY <3>1, <3>2, <3>3
  <2>3. RulePlan(sources, team, research, unfit) =
          [i \in 1..(n + 1) |-> RulePlan(sources, team, research, unfit)[i]]
    BY <1>5
  <2> QED
    BY <2>2, <2>3
<1>7. n + 1 \in Nat
  BY <1>1
<1>8. RulePlan(sources, team, research, unfit) \in Seq(P)
  BY <1>6, <1>7
<1> QED
  BY <1>8 DEF P

\* and so are the model's, with the document.
LEMMA ReplyIsList ==
  ASSUME NEW p \in Proposals
  PROVE  WithDocument(p) \in Seq({t \in Tasks : ~ t.auto})
<1>1. p \in Seq({t \in Tasks : ~ t.auto}) /\ p \in Seq(Tasks)
  <2>1. p \in Seq({t \in Tasks : ~ t.auto /\ t.resource \in {NoLink, Unfit}})
    BY ReplyAssumption DEF ReplyAssumption
  <2> QED
    BY <2>1
<1>2. Ids(p) \in SUBSET TaskIds
  BY <1>1, ListParts, TaskFields
<1>3. Len(p) + 1 \in Nat
  BY <1>1
<1>4. Task(TId(Len(p) + 1), "doc_assistant", "feishu.doc.write", Ids(p)) \in {t \in Tasks : ~ t.auto}
  BY <1>2, <1>3 DEF Task, Tasks, TId, TaskIds, Agents, Actions
<1> QED
  BY <1>1, <1>4 DEF WithDocument
-----------------------------------------------------------------------------
(***************************************************************************)
(* The steps                                                               *)
(***************************************************************************)

\* The invariant holds of a request that begins,
LEMMA InitIInv == Init => IInv
<1> SUFFICES ASSUME Init PROVE IInv
  OBVIOUS
<1>1. /\ dag = <<>> /\ layers = <<>> /\ layer = {} /\ outs = <<>> /\ results = <<>>
      /\ dispatched = {} /\ toExpand = {} /\ failure = "none" /\ cloud = "none"
      /\ preview = FALSE /\ sent = {} /\ mode \in Modes
      /\ pc \in {"planner", "create"}
  BY DEF Init
<1>2. dag \in Seq(Tasks) /\ Len(dag) = 0
  BY <1>1
<1>3. ToSet(dag) = {} /\ Ids(dag) = {}
  <2>1. 1..Len(dag) = {}
    BY <1>2
  <2> QED
    BY <1>2, <2>1, ListParts
<1>4. DOMAIN outs = {} /\ DOMAIN results = {} /\ Len(layers) = 0
  BY <1>1
<1>5. GraphInv
  BY <1>2 DEF GraphInv, IsList, FetchesNameSearches, Ordered
<1>6. LayersInv
  BY <1>1, <1>4 DEF LayersInv
<1>7. CallsInv
  BY <1>1, <1>4 DEF CallsInv
<1> QED
  BY <1>1, <1>3, <1>5, <1>6, <1>7 DEF IInv, StateTypes, FetchesInv, LoopEnds,
    LinksFollowed, CycleInv, Failures

\* A node that leaves the graph and the loop alone.
LEMMA QuietStep ==
  ASSUME IInv, StateTypes', UNCHANGED <<dag, loopVars>>,
         pc \notin {"gather", "pick"},
         \/ pc' = "failed"
         \/ pc' = "dispatch" /\ toExpand = {}
         \/ pc' \in {"synthesizer", "create", "append", "save", "done"}
            /\ pc \in {"synthesizer", "create", "append", "save", "done"},
         failure' # "cycle", failure' = "none" => failure = "none"
  PROVE  IInv'
<1>1. /\ layers' = layers /\ layer' = layer /\ outs' = outs /\ results' = results
      /\ dispatched' = dispatched /\ toExpand' = toExpand /\ sent' = sent
      /\ dag' = dag
  BY DEF loopVars
<1>2. GraphInv'
  BY <1>1 DEF IInv, GraphInv
<1>3. LayersInv'
  BY <1>1 DEF IInv, LayersInv, Placed
<1>4. CallsInv'
  BY <1>1 DEF IInv, CallsInv, IsDoc, HasInputs, Heard
<1>5. FetchesInv'
  BY <1>1 DEF IInv, FetchesInv, Heard
<1>6. LoopEnds'
  BY <1>1 DEF IInv, LoopEnds
<1>7. LinksFollowed'
  BY <1>1 DEF IInv, LinksFollowed, FetchesOf
<1> QED
  BY <1>2, <1>3, <1>4, <1>5, <1>6, <1>7 DEF IInv, CycleInv

\* A plan that is made, valid or not.
LEMMA PlannedStep ==
  ASSUME IInv, pc = "planner", pc' \in {"validate", "failed"}, failure' \in {failure, "rules"},
         dag' \in Seq({t \in Tasks : ~ t.auto}), Shaped(dag'),
         UNCHANGED <<mode, cloud, preview, loopVars>>
  PROVE  IInv'
<1>1. /\ layers' = layers /\ layer' = layer /\ outs' = outs /\ results' = results
      /\ dispatched' = dispatched /\ toExpand' = toExpand /\ sent' = sent
  BY DEF loopVars
<1>2. /\ layers = <<>> /\ layer = {} /\ dispatched = {} /\ sent = {} /\ toExpand = {}
      /\ DOMAIN results = {} /\ DOMAIN outs = {}
  BY DEF IInv, LayersInv, CallsInv
<1>3. /\ IsList(dag') /\ FetchesNameSearches(dag') /\ Ordered(dag')
      /\ \A n \in 1..Len(dag') : ~ dag'[n].auto
  BY ValidIsGraph
<1>4. GraphInv'
  BY <1>3 DEF GraphInv, IsList, FetchesNameSearches, Ordered
<1>5. ToSet(dag') = {dag'[n] : n \in 1..Len(dag')}
  BY <1>3, ListParts DEF IsList
<1>6. StateTypes'
  <2>1. \A n \in 1..Len(dag') : dag'[n].agent \in Agents /\ dag'[n].action \in Actions
    BY DEF Shaped
  <2> QED
    BY <1>5, <2>1 DEF IInv, StateTypes, Failures
<1>7. \A t \in ToSet(dag') : ~ t.auto
  BY <1>3, <1>5
<1>8. LayersInv'
  BY <1>1, <1>2 DEF LayersInv, Placed
<1>9. CallsInv'
  BY <1>1, <1>2 DEF CallsInv
<1>10. FetchesInv'
  BY <1>7 DEF FetchesInv
<1>11. LoopEnds' /\ LinksFollowed' /\ CycleInv'
  BY <1>1, <1>2 DEF LoopEnds, LinksFollowed, IInv, CycleInv
<1> QED
  BY <1>4, <1>6, <1>8, <1>9, <1>10, <1>11 DEF IInv

\* So the planner keeps the invariant, by the rules, with a reply or with an error.
LEMMA PlannerIInv == IInv /\ Planner => IInv'
<1> SUFFICES ASSUME IInv, Planner PROVE IInv'
  OBVIOUS
<1>1. PICK sources \in 0..MaxSources :
         \/ PlanByRule(sources)
         \/ sources = 0 /\ (PlanRaises \/ \E p \in Proposals : PlanByModel(p))
  BY DEF Planner
<1>2. pc = "planner" /\ UNCHANGED <<mode, cloud, preview, loopVars>>
  BY DEF Planner
<1>3. CASE PlanByRule(sources)
  <2>1. sources \in Nat
    BY DocAssumption DEF DocAssumption
  <2>2. PICK team \in BOOLEAN, research \in BOOLEAN, unfit \in SUBSET (1..(sources + 1)) :
           dag' = RulePlan(sources, team, research, unfit)
    BY <1>3 DEF PlanByRule
  <2>3. Shaped(dag') /\ dag' \in Seq({t \in Tasks : ~ t.auto})
    BY <2>1, <2>2, RulePlanIsShaped, RulePlanIsList
  <2>4. pc' \in {"validate", "failed"} /\ failure' \in {failure, "rules"}
    BY <1>3 DEF PlanByRule
  <2> QED
    BY <1>2, <2>3, <2>4, PlannedStep
<1>4. CASE PlanRaises
  <2>1. StateTypes'
    BY <1>2, <1>4 DEF PlanRaises, IInv, StateTypes, Failures
  <2> QED
    BY <1>2, <1>4, <2>1, QuietStep DEF PlanRaises
<1>5. ASSUME NEW p \in Proposals, PlanByModel(p)
      PROVE  IInv'
  <2>1. dag' = WithDocument(p) /\ Shaped(dag') /\ pc' = "validate" /\ failure' = failure
    BY <1>5, ValidParts DEF PlanByModel
  <2>2. dag' \in Seq({t \in Tasks : ~ t.auto})
    BY <2>1, ReplyIsList
  <2> QED
    BY <1>2, <2>1, <2>2, PlannedStep
<1> QED
  BY <1>1, <1>3, <1>4, <1>5

\* The nodes around the loop.
LEMMA NodesIInv ==
  ASSUME Inv, IInv,
         \/ PlanValidate \/ Expanded \/ Synthesizer \/ CreateDoc \/ CreateDocRaises
         \/ AppendBlocks \/ AppendBlocksRaises \/ Save \/ SaveFails \/ SaveRaises
  PROVE  IInv'
<1>1. dag' = dag /\ UNCHANGED loopVars
  <2>1. CASE Expanded
    BY <2>1 DEF Expanded
  <2> QED
    BY <2>1 DEF PlanValidate, Synthesizer, CreateDoc, CreateDocRaises, AppendBlocks,
         AppendBlocksRaises, Save, SaveFails, SaveRaises
<1>2. /\ pc \notin {"gather", "pick", "planner", "failed"}
      /\ \/ pc' = "failed"
         \/ pc' = "dispatch" /\ toExpand = {}
         \/ pc' \in {"synthesizer", "create", "append", "save", "done"}
            /\ pc \in {"synthesizer", "create", "append", "save", "done"}
      /\ failure' \in {failure, "validate", "create", "append", "save"}
  BY DEF PlanValidate, Expanded, Synthesizer, CreateDoc, CreateDocRaises, AppendBlocks,
         AppendBlocksRaises, Save, SaveFails, SaveRaises, IInv, CallsInv
<1>3. StateTypes'
  BY <1>1 DEF PlanValidate, Expanded, Synthesizer, CreateDoc, CreateDocRaises, AppendBlocks,
         AppendBlocksRaises, Save, SaveFails, SaveRaises, IInv, StateTypes, Failures
<1>4. failure' # "cycle" /\ (failure' = "none" => failure = "none")
  BY <1>2 DEF IInv, CycleInv
<1> QED
  BY <1>1, <1>2, <1>3, <1>4, QuietStep
\* What the layers hold is in the list that they are made of.
LEMMA PlacedIs ==
  ASSUME NEW S, layers \in Seq(SUBSET S)
  PROVE  /\ Placed = UNION {layers[n] : n \in 1..Len(layers)}
         /\ Placed \subseteq S /\ Len(layers) \in Nat
         /\ \A n \in 1..Len(layers) : layers[n] \subseteq S
<1>1. DOMAIN layers = 1..Len(layers) /\ Len(layers) \in Nat
      /\ \A n \in 1..Len(layers) : layers[n] \in SUBSET S
  OBVIOUS
<1>2. ToSet(layers) = {layers[n] : n \in 1..Len(layers)}
  BY <1>1 DEF ToSet
<1> QED
  BY <1>1, <1>2 DEF Placed

\* A round of _topo_layers finds a layer as long as ids are left, unless a task of the
\* plan needs itself.
LEMMA TopoIInv ==
  ASSUME IInv, TopoRound
  PROVE  IInv'
<1> DEFINE rest == Ids(dag) \ Placed
           ready == {i \in rest : ById(dag, i).deps \subseteq Placed}
<1>1. /\ pc = "dispatch"
      /\ \/ rest = {} /\ pc' = "pick" /\ UNCHANGED <<layers, failure>>
         \/ rest # {} /\ ready = {} /\ pc' = "failed" /\ failure' = "cycle"
            /\ UNCHANGED layers
         \/ rest # {} /\ ready # {} /\ layers' = Append(layers, ready)
            /\ UNCHANGED <<pc, failure>>
      /\ UNCHANGED <<mode, dag, layer, outs, results, dispatched, toExpand, cloud,
                     preview, sent>>
  BY DEF TopoRound
<1>2. layers \in Seq(SUBSET Ids(dag)) /\ toExpand = {} /\ layer = {}
  BY <1>1 DEF IInv, LayersInv, CallsInv
<1>3. rest # {} /\ ready = {} => \E t \in ToSet(dag) : ~ t.auto /\ t.id \in t.deps
  <2> HIDE DEF rest, ready
  <2> SUFFICES ASSUME rest # {}, ready = {} PROVE \E t \in ToSet(dag) : ~ t.auto /\ t.id \in t.deps
    OBVIOUS
  <2>1. ~ \E i \in Ids(dag) \ Placed : ById(dag, i).deps \subseteq Placed
    BY DEF rest, ready
  <2>2. ~ Loopless(dag)
    BY <2>1, SomethingIsReady DEF IInv, GraphInv, rest
  <2>3. ToSet(dag) = {dag[n] : n \in 1..Len(dag)}
    BY ListParts DEF IInv, GraphInv, IsList
  <2> QED
    BY <2>2, <2>3 DEF Loopless
<1>4. LayersInv'
  <2>1. CASE rest = {}
    <3>1. Placed = Ids(dag)
      BY <1>2, <2>1, PlacedIs
    <3> QED
      BY <1>1, <2>1, <3>1 DEF IInv, LayersInv, Placed
  <2>2. CASE rest # {} /\ ready = {}
    BY <1>1, <2>2 DEF IInv, LayersInv, Placed
  <2>3. CASE rest # {} /\ ready # {}
    <3> DEFINE N == Len(layers)
    <3>1. layers' = Append(layers, ready) /\ pc' = "dispatch" /\ dag' = dag
      BY <1>1, <2>3
    <3>2. ready \in SUBSET Ids(dag) /\ \A i \in ready : ById(dag, i).deps \subseteq Placed
      OBVIOUS
    <3> HIDE DEF ready, rest
    <3>3. N \in Nat /\ Placed = UNION {layers[m] : m \in 1..N}
      BY <1>2, PlacedIs
    <3>4. /\ layers' \in Seq(SUBSET Ids(dag)) /\ Len(layers') = N + 1
          /\ layers'[N + 1] = ready /\ \A m \in 1..N : layers'[m] = layers[m]
      BY <1>2, <3>1, <3>2
    <3>5. ASSUME NEW n \in 1..(N + 1), NEW i \in layers'[n]
          PROVE  ById(dag, i).deps \subseteq UNION {layers'[m] : m \in 1..(n - 1)}
      <4>1. {layers'[m] : m \in 1..(n - 1)} = {layers[m] : m \in 1..(n - 1)}
        <5>1. \A m \in 1..(n - 1) : m \in 1..N
          BY <3>3
        <5> QED
          BY <3>4, <5>1
      <4>2. CASE n = N + 1
        <5>1. n - 1 = N
          BY <3>3, <4>2
        <5> QED
          BY <3>2, <3>3, <3>4, <4>1, <4>2, <5>1
      <4>3. CASE n # N + 1
        <5>1. n \in 1..N
          BY <3>3, <4>3
        <5>2. i \in layers[n]
          BY <3>4, <5>1
        <5> QED
          BY <4>1, <5>1, <5>2 DEF IInv, LayersInv
      <4> QED
        BY <4>2, <4>3
    <3> QED
      BY <3>1, <3>4, <3>5 DEF LayersInv
  <2> QED
    BY <2>1, <2>2, <2>3
<1> HIDE DEF rest, ready
<1>5. GraphInv'
  BY <1>1 DEF IInv, GraphInv
<1>6. pc' \in {"pick", "dispatch", "failed"} /\ failure' \in {failure, "cycle"}
  BY <1>1
<1>8. CycleInv'
  BY <1>1, <1>3 DEF IInv, CycleInv
<1>7. failure' = "none" => failure = "none"
  BY <1>1
<1>9. CallsInv'
  BY <1>1, <1>2, <1>6 DEF IInv, CallsInv, IsDoc, HasInputs, Heard
<1>10. FetchesInv' /\ LinksFollowed' /\ LoopEnds' /\ StateTypes'
  BY <1>1, <1>6, <1>7 DEF IInv, FetchesInv, Heard, LinksFollowed, FetchesOf, LoopEnds,
       StateTypes, Failures
<1> QED
  BY <1>4, <1>5, <1>8, <1>9, <1>10 DEF IInv

\* What Dispatch takes: the layers before have nothing to be sent.
LEMMA FirstPendingIs ==
  ASSUME layers \in Seq(SUBSET Ids(dag))
  PROVE  /\ FirstPending \in 1..(Len(layers) + 1)
         /\ \A n \in 1..Len(layers) : n < FirstPending => Pending(layers[n]) = {}
<1> DEFINE T == {n \in 1..Len(layers) : Pending(layers[n]) # {}} \cup {Len(layers) + 1}
<1>1. Len(layers) \in Nat
  BY PlacedIs
<1>2. T \in SUBSET Nat /\ T # {} /\ T \subseteq 1..(Len(layers) + 1)
  BY <1>1
<1>3. FirstPending = Min(T)
  BY DEF FirstPending
<1>4. \A n \in 1..Len(layers) : Pending(layers[n]) # {} => n \in T
  OBVIOUS
<1> HIDE DEF T
<1>5. Min(T) \in T /\ \A y \in T : Min(T) <= y
  BY <1>2, MinIs
<1>6. \A n \in 1..Len(layers) : n < Min(T) => n \notin T
  <2> SUFFICES ASSUME NEW n \in 1..Len(layers), n < Min(T), n \in T PROVE FALSE
    OBVIOUS
  <2>1. Min(T) \in Nat /\ n \in Nat /\ Min(T) <= n
    BY <1>2, <1>5
  <2> QED
    BY <2>1
<1> QED
  BY <1>2, <1>3, <1>4, <1>5, <1>6

\* A layer is sent that was not sent before and whose inputs are there, or everything
\* has been.
LEMMA DispatchIInv ==
  ASSUME IInv, Dispatch
  PROVE  IInv'
<1> DEFINE F == FirstPending
           N == Len(layers)
<1>1. /\ pc = "pick"
      /\ dispatched' = dispatched \cup PassedDocs
      /\ layers' = <<>>
      /\ \/ F > N /\ pc' = "synthesizer" /\ UNCHANGED <<layer, sent>>
         \/ ~ (F > N) /\ pc' = "gather" /\ layer' = NextLayer /\ sent' = sent \cup NextLayer
      /\ UNCHANGED <<mode, dag, outs, results, toExpand, failure, cloud, preview>>
  BY DEF Dispatch
<1>2. layers \in Seq(SUBSET Ids(dag)) /\ toExpand = {} /\ layer = {} /\ Placed = Ids(dag)
      /\ DOMAIN outs = {}
  BY <1>1 DEF IInv, LayersInv, CallsInv
<1>3. /\ N \in Nat /\ Ids(dag) = UNION {layers[n] : n \in 1..N}
      /\ \A n \in 1..N : layers[n] \subseteq Ids(dag)
  BY <1>2, PlacedIs
<1>4. F \in 1..(N + 1) /\ \A n \in 1..N : n < F => Pending(layers[n]) = {}
  BY <1>2, FirstPendingIs
<1> HIDE DEF F, N
<1>5. ASSUME NEW n \in 1..N, n < F, NEW i \in layers[n]
      PROVE  IsDoc(i) \/ i \in DOMAIN results
  <2>1. i \in dispatched \/ IsDoc(i)
    BY <1>4, <1>5 DEF Pending
  <2> QED
    BY <2>1 DEF IInv, CallsInv
<1>6. ASSUME NEW n \in 1..N, n <= F, NEW i \in layers[n]
      PROVE  HasInputs(i)
  <2> SUFFICES ASSUME NEW j \in ById(dag, i).deps PROVE IsDoc(j) \/ Heard(j)
    BY DEF HasInputs
  <2>1. PICK m \in 1..(n - 1) : j \in layers[m]
    BY <1>6 DEF IInv, LayersInv, N
  <2>2. m \in 1..N /\ m < F
    BY <1>3, <1>4, <1>6
  <2> QED
    BY <1>2, <1>5, <2>1, <2>2 DEF Heard
<1>7. ASSUME NEW i \in PassedDocs
      PROVE  IsDoc(i) /\ HasInputs(i) /\ i \in Ids(dag)
  <2>1. PICK n \in 1..(F - 1) : i \in layers[n] /\ IsDoc(i)
    BY DEF PassedDocs, F
  <2>2. n \in 1..N /\ n <= F
    BY <1>3, <1>4
  <2> QED
    BY <1>3, <1>6, <2>1, <2>2
<1>8. ASSUME ~ (F > N), NEW i \in NextLayer
      PROVE  i \in Ids(dag) \ dispatched /\ ~ IsDoc(i) /\ HasInputs(i)
  <2>1. F \in 1..N
    BY <1>3, <1>4, <1>8
  <2>2. i \in layers[F] \ dispatched /\ ~ IsDoc(i)
    BY DEF NextLayer, Pending, F
  <2>3. F <= F
    BY <2>1, <1>3
  <2> QED
    BY <1>3, <1>6, <2>1, <2>2, <2>3
<1>9. \A i : IsDoc(i)' = IsDoc(i) /\ HasInputs(i)' = HasInputs(i) /\ Heard(i)' = Heard(i)
  BY <1>1 DEF IsDoc, HasInputs, Heard
<1>10. CallsInv'
  <2>1. /\ layer' \subseteq sent' /\ sent' \subseteq Ids(dag)' /\ dispatched' \subseteq Ids(dag)'
        /\ layer' \cap dispatched' = {}
        /\ \A i \in layer' : ~ IsDoc(i)'
    BY <1>1, <1>2, <1>7, <1>8, <1>9 DEF IInv, CallsInv
  <2>2. (pc # "gather" => layer = {})' /\ (pc = "planner" => dispatched = {} /\ sent = {})'
        /\ (DOMAIN outs \subseteq layer)' /\ toExpand' = {} /\ outs' = outs
    BY <1>1, <1>2
  <2>3. \A i \in dispatched' : IsDoc(i)' \/ i \in DOMAIN results'
    BY <1>1, <1>7, <1>9 DEF IInv, CallsInv
  <2>4. \A i \in (dispatched \cup sent)' : HasInputs(i)'
    BY <1>1, <1>7, <1>8, <1>9 DEF IInv, CallsInv
  <2>5. DOMAIN results' \subseteq dispatched' /\ results' = results /\ dag' = dag
    BY <1>1 DEF IInv, CallsInv
  <2>6. \A i \in DOMAIN results' :
           results'[i] \in Replies /\ (results'[i].ok \/ ById(dag', i).auto)
    BY <2>5 DEF IInv, CallsInv
  <2> QED
    BY <1>2, <2>1, <2>2, <2>3, <2>4, <2>5, <2>6 DEF CallsInv
<1>11. LoopEnds'
  <2> SUFFICES ASSUME F > N, NEW t \in ToSet(dag)
               PROVE  t.agent = "doc_assistant" \/ t.id \in DOMAIN results
    BY <1>1 DEF LoopEnds
  <2>1. t.id \in Ids(dag) /\ ById(dag, t.id) = t
    BY ByIdInSet DEF IInv, GraphInv
  <2>2. PICK n \in 1..N : t.id \in layers[n]
    BY <1>3, <2>1
  <2>3. n < F
    BY <1>3, <1>4
  <2> QED
    BY <1>5, <2>1, <2>2, <2>3 DEF IsDoc
<1>12. LayersInv'
  BY <1>1 DEF LayersInv
<1>13. GraphInv'
  BY <1>1 DEF IInv, GraphInv
<1>14. FetchesInv' /\ LinksFollowed'
  BY <1>1 DEF IInv, FetchesInv, Heard, LinksFollowed, FetchesOf
<1>15. StateTypes' /\ CycleInv'
  BY <1>1 DEF IInv, StateTypes, CycleInv
<1> QED
  BY <1>10, <1>11, <1>12, <1>13, <1>14, <1>15 DEF IInv
\* One call of the layer ends.
LEMMA CallEndsIInv ==
  ASSUME IInv, NEW i \in layer, CallEnds(i)
  PROVE  IInv'
<1>1. PICK out \in Outcomes(i) :
         outs' = [j \in DOMAIN outs \cup {i} |-> IF j = i THEN out ELSE outs[j]]
  BY DEF CallEnds
<1>2. /\ pc = "gather"
      /\ UNCHANGED <<pc, mode, dag, layers, layer, results, dispatched, toExpand,
                     failure, cloud, preview, sent>>
  BY DEF CallEnds
<1>3. out \in Replies
  <2>1. Raised \in Replies
    BY DEF Replies, Raised
  <2>2. \A h \in HitLists \cup {<<>>} : Found(h) \in Replies
    BY DEF Replies, Found
  <2>3. \E h \in HitLists \cup {<<>>} : out \in {Raised, Found(h)}
    BY DEF Outcomes
  <2> QED
    BY <2>1, <2>2, <2>3
<1>4. /\ DOMAIN outs' = DOMAIN outs \cup {i}
      /\ \A j \in DOMAIN outs' : outs'[j] = IF j = i THEN out ELSE outs[j]
  BY <1>1
<1>5. (\A j \in DOMAIN outs : outs[j] \in Replies)'
  BY <1>3, <1>4 DEF IInv, CallsInv
<1>6. CallsInv'
  BY <1>2, <1>4, <1>5 DEF IInv, CallsInv, IsDoc, HasInputs, Heard
<1>7. GraphInv' /\ LayersInv'
  BY <1>2 DEF IInv, GraphInv, LayersInv, Placed
<1>8. FetchesInv' /\ LinksFollowed' /\ LoopEnds' /\ StateTypes'
  BY <1>2 DEF IInv, FetchesInv, Heard, LinksFollowed, FetchesOf, LoopEnds, StateTypes
<1> QED
  BY <1>2, <1>6, <1>7, <1>8 DEF IInv, CycleInv

\* The layer ends, with results or with the request.
LEMMA GatheredIInv ==
  ASSUME IInv, Gathered
  PROVE  IInv'
<1>1. /\ pc = "gather" /\ layer \subseteq DOMAIN outs
      /\ layer' = {} /\ outs' = <<>>
      /\ UNCHANGED <<mode, dag, layers, cloud, preview, sent>>
  BY DEF Gathered
<1>2. DOMAIN outs = layer /\ toExpand = {} /\ DOMAIN outs' = {}
  <2>1. DOMAIN outs' = {}
    BY <1>1
  <2> QED
    BY <1>1, <2>1 DEF IInv, CallsInv
<1>3. GraphInv'
  BY <1>1 DEF IInv, GraphInv
<1>4. pc' \in {"failed", "expand"} /\ failure' \in {"call", failure}
  BY DEF Gathered
<1>5. LayersInv' /\ LoopEnds' /\ StateTypes' /\ CycleInv'
  BY <1>1, <1>4 DEF IInv, LayersInv, LoopEnds, StateTypes, Failures, CycleInv
<1>6. CASE Fatal # {}
  <2>1. /\ pc' = "failed" /\ failure' = "call"
        /\ UNCHANGED <<results, dispatched, toExpand>>
    BY <1>6 DEF Gathered
  <2>2. CallsInv'
    BY <1>1, <1>2, <2>1 DEF IInv, CallsInv, IsDoc, HasInputs, Heard
  <2>3. FetchesInv' /\ LinksFollowed'
    BY <1>1, <2>1 DEF IInv, FetchesInv, Heard, LinksFollowed
  <2> QED
    BY <1>3, <1>5, <2>2, <2>3 DEF IInv
<1>7. CASE Fatal = {}
  <2>1. /\ pc' = "expand" /\ failure' = failure
        /\ results' = [i \in DOMAIN results \cup layer |->
                         IF i \in layer THEN outs[i] ELSE results[i]]
        /\ dispatched' = dispatched \cup layer
        /\ toExpand' = {i \in layer : ById(dag, i).action = "web.search"}
    BY <1>7 DEF Gathered, Settled
  <2>2. /\ DOMAIN results' = layer \cup DOMAIN results
        /\ \A i \in layer : results'[i] = outs[i]
        /\ \A i \in DOMAIN results : i \notin layer /\ results'[i] = results[i]
    BY <1>2, <2>1 DEF IInv, CallsInv
  <2>3. \A i : Heard(i) => Heard(i)'
    BY <1>2, <2>1, <2>2 DEF Heard
  <2>4. \A i : IsDoc(i)' = IsDoc(i)
    BY <1>1 DEF IsDoc
  <2>5. \A i : HasInputs(i) => HasInputs(i)'
    BY <1>1, <2>3, <2>4 DEF HasInputs
  <2>6. \A i \in DOMAIN results' :
          results'[i] \in Replies /\ (results'[i].ok \/ ById(dag', i).auto)
    BY <1>1, <1>2, <1>7, <2>2 DEF IInv, CallsInv, Fatal
  <2>7. CallsInv'
    <3>1. \A i \in (dispatched \cup sent)' : HasInputs(i)'
      BY <1>1, <2>1, <2>5 DEF IInv, CallsInv
    <3>2. /\ DOMAIN results' \subseteq dispatched'
          /\ \A i \in dispatched' : IsDoc(i)' \/ i \in DOMAIN results'
      BY <2>1, <2>2, <2>4 DEF IInv, CallsInv
    <3>3. /\ layer' \subseteq sent' /\ sent' \subseteq Ids(dag)' /\ dispatched' \subseteq Ids(dag)'
          /\ layer' \cap dispatched' = {} /\ layer' = {}
      BY <1>1, <2>1 DEF IInv, CallsInv
    <3>4. \A i \in toExpand' : i \in DOMAIN results' /\ ~ IsDoc(i)'
                                /\ ById(dag', i).action = "web.search"
      BY <1>1, <2>1, <2>2, <2>4 DEF IInv, CallsInv
    <3> QED
      BY <1>2, <2>1, <2>6, <3>1, <3>2, <3>3, <3>4 DEF CallsInv
  <2>8. FetchesInv'
    BY <1>1, <2>3 DEF IInv, FetchesInv
  <2>9. LinksFollowed'
    <3> SUFFICES ASSUME NEW t \in ToSet(dag),
                        t.action = "web.search", t.id \in DOMAIN results',
                        t.id \notin toExpand', failure = "none"
                 PROVE  /\ t.id \in DOMAIN results /\ t.id \notin toExpand
                        /\ results'[t.id] = results[t.id]
      BY <1>1, <2>1 DEF IInv, LinksFollowed, FetchesOf
    <3>1. ById(dag, t.id) = t
      BY ByIdInSet DEF IInv, GraphInv
    <3>2. t.id \notin layer
      BY <2>1, <3>1
    <3> QED
      BY <1>2, <2>2, <3>2
  <2> QED
    BY <1>3, <1>5, <2>7, <2>8, <2>9 DEF IInv
<1> QED
  BY <1>6, <1>7
-----------------------------------------------------------------------------
(***************************************************************************)
(* The links that are followed                                             *)
(***************************************************************************)

\* How many positions are not behind a position tells the positions apart.
LEMMA RankGrows ==
  ASSUME NEW N \in Nat, NEW S \in SUBSET (1..N), NEW p \in S, NEW q \in S, p < q
  PROVE  Cardinality({m \in S : m <= p}) < Cardinality({m \in S : m <= q})
<1> DEFINE A == {m \in S : m <= p}
           B == {m \in S : m <= q}
<1>0. \A m \in S : m \in Int
  OBVIOUS
<1>1. A \subseteq B /\ q \in B /\ q \notin A
  <2>1. p \in Int /\ q \in Int
    BY <1>0
  <2>2. \A m \in Int : m <= p => m <= q
    BY <2>1
  <2>3. q <= q /\ ~ (q <= p)
    BY <2>1
  <2> QED
    BY <1>0, <2>2, <2>3
<1>2. IsFiniteSet(S) /\ B \in SUBSET S
  <2>1. IsFiniteSet(1..N)
    BY FS_Interval
  <2> QED
    BY <2>1, FS_Subset
<1> HIDE DEF A, B
<1>3. IsFiniteSet(B)
  BY <1>2, FS_Subset
<1>4. /\ IsFiniteSet(A) /\ Cardinality(A) <= Cardinality(B)
      /\ Cardinality(A) = Cardinality(B) => B = A
  BY <1>1, <1>3, FS_Subset
<1>5. Cardinality(A) \in Nat /\ Cardinality(B) \in Nat
  BY <1>3, <1>4, FS_CardinalityType
<1>6. Cardinality(A) # Cardinality(B)
  BY <1>1, <1>4
<1>7. Cardinality(A) < Cardinality(B)
  BY <1>4, <1>5, <1>6
<1> QED
  BY <1>7 DEF A, B

\* So they are numbered by it.
LEMMA RankOf ==
  ASSUME NEW N \in Nat, NEW S \in SUBSET (1..N)
  PROVE  /\ IsFiniteSet(S) /\ Cardinality(S) \in Nat
         /\ \A n \in 1..Cardinality(S) : \E p \in S : Cardinality({m \in S : m <= p}) = n
<1> DEFINE C == Cardinality(S)
           r == [p \in S |-> Cardinality({m \in S : m <= p})]
<1>1. IsFiniteSet(S) /\ C \in Nat
  <2>1. IsFiniteSet(1..N)
    BY FS_Interval
  <2>2. IsFiniteSet(S)
    BY <2>1, FS_Subset
  <2> QED
    BY <2>2, FS_CardinalityType
<1>2. ASSUME NEW p \in S
      PROVE  Cardinality({m \in S : m <= p}) \in 1..C
  <2> DEFINE A == {m \in S : m <= p}
  <2>1. A \in SUBSET S /\ p \in A
    OBVIOUS
  <2> HIDE DEF A
  <2>2. IsFiniteSet(A) /\ Cardinality(A) <= C
    BY <1>1, <2>1, FS_Subset
  <2>3. Cardinality(A) \in Nat /\ Cardinality(A) # 0
    BY <2>1, <2>2, FS_CardinalityType, FS_EmptySet
  <2>4. Cardinality(A) \in 1..C
    BY <1>1, <2>2, <2>3
  <2> QED
    BY <2>4 DEF A
<1>3. r \in [S -> 1..C]
  BY <1>2
<1>4. ASSUME NEW p \in S, NEW q \in S, p # q
      PROVE  r[p] # r[q]
  <2>1. p \in Int /\ q \in Int
    OBVIOUS
  <2>2. p < q \/ q < p
    BY <1>4, <2>1
  <2>3. r[p] \in Int /\ r[q] \in Int
    BY <1>1, <1>3
  <2>4. p < q => r[p] < r[q]
    BY RankGrows
  <2>5. q < p => r[q] < r[p]
    BY RankGrows
  <2> HIDE DEF r
  <2> QED
    BY <2>2, <2>3, <2>4, <2>5
<1>5. r \in Injection(S, 1..C)
  BY <1>3, <1>4 DEF Injection, IsInjective
<1>6. IsFiniteSet(1..C) /\ Cardinality(1..C) = C
  <2>1. C = 0 \/ C >= 1
    BY <1>1
  <2> HIDE DEF C
  <2> QED
    BY <1>1, <2>1, FS_Interval
<1>7. r \in Surjection(S, 1..C)
  <2> HIDE DEF r
  <2> QED
    BY <1>5, <1>6, FS_Injection
<1>8. \A n \in 1..C : \E p \in S : r[p] = n
  BY <1>7 DEF Surjection
<1> QED
  BY <1>1, <1>8

\* The links that are taken are as many safe links as top_k allows and there are,
\* each once.
TakenWell(hits, k) ==
  LET safe == ToSet(hits) \cap SafeLinks
      L == TakenLinks(hits, k)
      K == Min({k, Cardinality(safe)})
  IN  /\ K \in Nat /\ Len(L) = K
      /\ \A n \in 1..K : L[n] \in safe
      /\ \A m, n \in 1..K : L[m] = L[n] => m = n

\* The links that are taken have all of it.
LEMMA TakenAre ==
  ASSUME NEW hits, hits \in Seq(ToSet(hits)), NEW k \in Nat
  PROVE  TakenWell(hits, k)
<1> PICK safe : safe = ToSet(hits) \cap SafeLinks
  OBVIOUS
<1> PICK L : L = TakenLinks(hits, k)
  OBVIOUS
<1> PICK K : K = Min({k, Cardinality(safe)})
  OBVIOUS
<1> DEFINE N == Len(hits)
           S == Firsts(hits)
           C == Cardinality(S)
           Rank(p) == Cardinality({m \in S : m <= p})
           At(n) == CHOOSE p \in S : Rank(p) = n
<1>1. /\ N \in Nat /\ DOMAIN hits = 1..N /\ ToSet(hits) = {hits[n] : n \in 1..N}
  BY DEF ToSet
<1>2. S = {n \in 1..N : hits[n] \in SafeLinks /\ \A m \in 1..(n - 1) : hits[m] # hits[n]}
      /\ S \in SUBSET (1..N)
  BY DEF Firsts
<1>3. L = [n \in 1..Min({k, C}) |-> hits[At(n)]]
  BY DEF TakenLinks
<1> HIDE DEF S, N
<1>4. IsFiniteSet(S) /\ C \in Nat /\ \A n \in 1..C : \E p \in S : Rank(p) = n
  BY <1>1, <1>2, RankOf
<1>5. ASSUME NEW n \in 1..C PROVE At(n) \in S /\ Rank(At(n)) = n
  BY <1>4
<1>6. ASSUME NEW p \in S, NEW q \in S, hits[p] = hits[q] PROVE p = q
  <2>1. p \in 1..N /\ q \in 1..N
    BY <1>2
  <2>2. ~ (p < q)
    <3> SUFFICES ASSUME p < q PROVE FALSE
      OBVIOUS
    <3>1. p \in 1..(q - 1)
      BY <1>1, <2>1
    <3> QED
      BY <1>2, <1>6, <3>1
  <2>3. ~ (q < p)
    <3> SUFFICES ASSUME q < p PROVE FALSE
      OBVIOUS
    <3>1. q \in 1..(p - 1)
      BY <1>1, <2>1
    <3> QED
      BY <1>2, <1>6, <3>1
  <2> QED
    BY <1>1, <2>1, <2>2, <2>3
<1>7. ASSUME NEW u \in safe PROVE \E p \in S : hits[p] = u
  <2> DEFINE T == {n \in 1..N : hits[n] = u}
  <2>1. T # {} /\ T \in SUBSET Nat
    BY <1>1
  <2>2. PICK p \in T : \A y \in T : p <= y
    <3> HIDE DEF T
    <3> QED
      BY <2>1, LeastOf
  <2>3. \A m \in 1..(p - 1) : hits[m] # hits[p]
    <3> SUFFICES ASSUME NEW m \in 1..(p - 1), hits[m] = hits[p] PROVE FALSE
      OBVIOUS
    <3>1. m \in 1..N /\ m < p
      BY <1>1
    <3>2. m \in T
      BY <3>1
    <3>3. p <= m
      BY <2>2, <3>2
    <3> QED
      BY <1>1, <3>1, <3>3
  <2> QED
    BY <1>2, <2>3
<1>8. \A p \in S : hits[p] \in safe
  BY <1>1, <1>2
<1>9. Cardinality(safe) = C
  <2> DEFINE g == [p \in S |-> hits[p]]
  <2>1. g \in Bijection(S, safe)
    BY <1>6, <1>7, <1>8 DEF Bijection, Injection, IsInjective, Surjection
  <2>2. ExistsBijection(S, safe)
    BY <2>1 DEF ExistsBijection
  <2> HIDE DEF C
  <2> QED
    BY <1>4, <2>2, FS_Bijection DEF C
<1> HIDE DEF C
<1>10. K \in Nat /\ K <= C /\ K = Min({k, C})
  <2>1. {k, C} \in SUBSET Nat /\ {k, C} # {}
    BY <1>4
  <2>2. Min({k, C}) \in {k, C} /\ \A y \in {k, C} : Min({k, C}) <= y
    BY <2>1, MinIs
  <2> QED
    BY <1>4, <1>9, <2>2
<1>11. ASSUME NEW n \in 1..K PROVE n \in 1..C
  BY <1>4, <1>10
<1>12. L = [n \in 1..K |-> hits[At(n)]]
  BY <1>3, <1>10
<1>13. ASSUME NEW m \in 1..K, NEW n \in 1..K, L[m] = L[n] PROVE m = n
  <2>1. At(m) = At(n)
    <3> HIDE DEF At
    <3> QED
      BY <1>5, <1>6, <1>11, <1>12, <1>13
  <2> HIDE DEF At, Rank
  <2> QED
    BY <1>5, <1>11, <2>1
<1>14. \A n \in 1..K : L[n] \in safe
  <2> HIDE DEF At, Rank
  <2> QED
    BY <1>5, <1>8, <1>11, <1>12
<1>15. Len(L) = K
  <2> HIDE DEF At
  <2> QED
    BY <1>10, <1>12
<1> QED
  BY <1>10, <1>13, <1>14, <1>15 DEF TakenWell
-----------------------------------------------------------------------------
(***************************************************************************)
(* The growth of the list                                                  *)
(***************************************************************************)

\* A bound of two numbers.
LEMMA AddsUp ==
  \A x, b, c \in Nat : b + c \in Nat /\ c <= b + c /\ (x <= b => x <= b + c)
  OBVIOUS

\* Two lists in a row.
LEMMA RowIs ==
  ASSUME NEW S, NEW a \in Seq(S), NEW b \in Seq(S)
  PROVE  /\ a \o b \in Seq(S) /\ Len(a \o b) = Len(a) + Len(b)
         /\ \A n \in 1..Len(a) : (a \o b)[n] = a[n]
         /\ \A n \in 1..Len(b) : (a \o b)[Len(a) + n] = b[n]
<1>1. a \o b \in Seq(S) /\ Len(a \o b) = Len(a) + Len(b)
  OBVIOUS
<1>2. \A n \in 1..Len(a) : (a \o b)[n] = a[n]
  OBVIOUS
<1>3. ASSUME NEW n \in 1..Len(b) PROVE (a \o b)[Len(a) + n] = b[n]
  <2>1. /\ Len(a) + n \in 1..(Len(a) + Len(b)) /\ Len(a) + n > Len(a)
        /\ (Len(a) + n) - Len(a) = n
    OBVIOUS
  <2> QED
    BY <2>1
<1> QED
  BY <1>1, <1>2, <1>3

\* The ids of the fetches are greater than all that there are.
LEMMA SeedIsFresh ==
  ASSUME dag \in Seq(Tasks)
  PROVE  /\ NextIdSeed \in Nat
         /\ \A i \in Ids(dag) : i[1] = "t" => i[2] < NextIdSeed
<1> DEFINE N == Len(dag)
           T == {0} \cup {i[2] : i \in {j \in Ids(dag) : j[1] = "t"}}
<1>1. /\ N \in Nat /\ Ids(dag) = {dag[n].id : n \in 1..N}
      /\ \A n \in 1..N : dag[n].id[2] \in Nat
  BY ListParts, TaskFields DEF TaskIds
<1>2. \E b \in Nat : \A n \in 1..N : dag[n].id[2] <= b
  <2> DEFINE Bounds(x) == {b \in Nat : \A n \in 1..x : dag[n].id[2] <= b}
             U == {x \in 0..N : Bounds(x) = {}}
  <2>1. U = {}
    <3> SUFFICES ASSUME U # {} PROVE FALSE
      OBVIOUS
    <3>1. U \in SUBSET Nat
      BY <1>1
    <3>2. PICK x \in U : \A y \in U : x <= y
      <4> HIDE DEF U
      <4> QED
        BY <3>1, LeastOf
    <3>3. x \in 0..N /\ Bounds(x) = {}
      BY <3>2
    <3>4. x # 0
      <4> SUFFICES ASSUME x = 0 PROVE FALSE
        OBVIOUS
      <4>1. 0 \in Bounds(0)
        OBVIOUS
      <4> QED
        BY <3>3, <4>1
    <3>5. x - 1 \in 0..N /\ x \in 1..N /\ ~ (x <= x - 1)
      BY <1>1, <3>3, <3>4
    <3>6. x - 1 \notin U
      BY <3>2, <3>5
    <3>7. PICK b \in Nat : \A n \in 1..(x - 1) : dag[n].id[2] <= b
      BY <3>5, <3>6
    <3>8. PICK c \in Nat : c = dag[x].id[2]
      BY <1>1, <3>5
    <3>9. ASSUME NEW n \in 1..x PROVE dag[n].id[2] <= b + c
      <4>1. CASE n = x
        BY <3>7, <3>8, <4>1, AddsUp
      <4>2. CASE n # x
        <5>1. n \in 1..(x - 1)
          BY <3>3, <4>2
        <5>2. n \in 1..N
          BY <1>1, <3>3
        <5>3. dag[n].id[2] \in Nat /\ dag[n].id[2] <= b
          BY <1>1, <3>7, <5>1, <5>2
        <5> HIDE DEF U
        <5> QED
          BY <3>8, <5>3, AddsUp
      <4> QED
        BY <4>1, <4>2
    <3>10. b + c \in Bounds(x)
      BY <3>9
    <3> QED
      BY <3>3, <3>10
  <2>2. N \in 0..N /\ N \notin U
    BY <1>1, <2>1
  <2>3. Bounds(N) # {}
    BY <2>2
  <2> QED
    BY <2>3
<1>3. PICK b \in Nat : \A n \in 1..N : dag[n].id[2] <= b
  BY <1>2
<1>4. T \in SUBSET (0..b) /\ T # {}
  BY <1>1, <1>3
<1>5. \A i \in Ids(dag) : i[1] = "t" => i[2] \in T
  OBVIOUS
<1>6. NextIdSeed = 1 + Max(T)
  BY DEF NextIdSeed
<1> HIDE DEF T
<1>7. Max(T) \in T /\ \A y \in T : y <= Max(T)
  BY <1>4, MaxIs
<1>8. Max(T) \in Nat
  <2>1. \A y \in 0..b : y \in Nat
    BY <1>3
  <2> QED
    BY <1>4, <1>7, <2>1
<1>9. \A y \in T : y \in Nat /\ y < 1 + Max(T)
  BY <1>4, <1>7, <1>8
<1> QED
  BY <1>5, <1>6, <1>8, <1>9

\* The list G after the fetches of the first links were added for a search s.
HasGrown(G, s, L) ==
  LET N == Len(dag)
      new == {G[N + m].id : m \in 1..Len(L)}
  IN  /\ G \in Seq(Tasks) /\ Len(G) = N + Len(L)
      /\ \A n \in 1..N :
            /\ G[n].id = dag[n].id /\ G[n].agent = dag[n].agent
            /\ G[n].action = dag[n].action /\ G[n].top_k = dag[n].top_k
            /\ G[n].auto = dag[n].auto /\ G[n].resource = dag[n].resource
            /\ G[n].deps = IF dag[n].id \notin dispatched /\ s \in dag[n].deps
                           THEN dag[n].deps \cup new ELSE dag[n].deps
            /\ ~ (dag[n].id \notin dispatched /\ s \in dag[n].deps) => G[n] = dag[n]
      /\ \A n \in 1..Len(L) :
            /\ G[N + n].agent = "web_agent" /\ G[N + n].action = "web.fetch"
            /\ G[N + n].deps = {s} /\ G[N + n].auto /\ G[N + n].resource = L[n]
            /\ G[N + n].id \notin Ids(dag)
            /\ \A m \in 1..Len(L) : G[N + m].id = G[N + n].id => m = n

\* What a task is that the dispatcher adds,
LEMMA FetchIs ==
  ASSUME NEW s \in TaskIds, NEW i \in Nat, NEW u \in SafeLinks
  PROVE  /\ Fetch(s, i, u) \in Tasks /\ Fetch(s, i, u).id = TId(i)
         /\ Fetch(s, i, u).agent = "web_agent" /\ Fetch(s, i, u).action = "web.fetch"
         /\ Fetch(s, i, u).deps = {s} /\ Fetch(s, i, u).auto /\ Fetch(s, i, u).resource = u
<1>1. Fetch(s, i, u) =
        [id |-> TId(i), agent |-> "web_agent", action |-> "web.fetch",
         deps |-> {s}, top_k |-> 0, auto |-> TRUE, resource |-> u]
  <2> DEFINE t == [id |-> TId(i), agent |-> "web_agent", action |-> "web.fetch",
                   deps |-> {s}, top_k |-> 0, auto |-> FALSE, resource |-> NoLink]
  <2>1. Fetch(s, i, u) = [t EXCEPT !.auto = TRUE, !.resource = u]
    BY DEF Task, Fetch
  <2> QED
    BY <2>1
<1>2. TId(i) \in TaskIds
  BY DEF TId, TaskIds
<1>3. "web_agent" \in Agents \cup {"unknown"} /\ "web.fetch" \in Actions \cup {"unknown"}
  BY DEF Agents, Actions
<1>4. {s} \in SUBSET TaskIds /\ 0 \in Nat \cup {IllTyped} /\ u \in SafeLinks \cup {NoLink}
  OBVIOUS
<1> QED
  BY <1>1, <1>2, <1>3, <1>4 DEF Tasks

\* and what one is whose dependencies it patches.
LEMMA PatchedIs ==
  ASSUME NEW t \in Tasks, NEW new \in SUBSET TaskIds
  PROVE  /\ Patched(t, new) \in Tasks
         /\ Patched(t, new).id = t.id /\ Patched(t, new).agent = t.agent
         /\ Patched(t, new).action = t.action /\ Patched(t, new).top_k = t.top_k
         /\ Patched(t, new).auto = t.auto /\ Patched(t, new).resource = t.resource
         /\ Patched(t, new).deps = t.deps \cup new
  BY DEF Tasks, Patched

\* That is what Grown yields.
LEMMA GrownIs ==
  ASSUME IsList(dag), NEW s \in Ids(dag),
         NEW L, L = TakenLinks(results[s].hits, ById(dag, s).top_k),
         Len(L) \in Nat, \A n \in 1..Len(L) : L[n] \in SafeLinks
  PROVE  HasGrown(Grown(s), s, L)
<1> DEFINE N == Len(dag)
           K == Len(L)
           F == FetchTasks(s)
           I == Inject(dag, s, Ids(F))
           G == Grown(s)
<1>1. /\ N \in Nat /\ Ids(dag) = {dag[n].id : n \in 1..N} /\ dag \in Seq(Tasks)
      /\ \A n \in 1..N : dag[n] \in Tasks
  BY ListParts DEF IsList
<1>2. s \in TaskIds
  BY <1>1, TaskFields
<1>3. PICK seed \in Nat : /\ seed = NextIdSeed
                          /\ \A i \in Ids(dag) : i[1] = "t" => i[2] < seed
  BY <1>1, SeedIsFresh
<1>4. F = [n \in 1..K |-> Fetch(s, seed + n - 1, L[n])]
  BY <1>3 DEF FetchTasks
<1>5. ASSUME NEW n \in 1..K
      PROVE  /\ F[n] \in Tasks /\ F[n].id = TId(seed + n - 1) /\ F[n].agent = "web_agent"
             /\ F[n].action = "web.fetch" /\ F[n].deps = {s} /\ F[n].auto
             /\ F[n].resource = L[n]
  <2>1. seed + n - 1 \in Nat /\ L[n] \in SafeLinks
    BY <1>3
  <2>2. F[n] = Fetch(s, seed + n - 1, L[n])
    BY <1>4
  <2> HIDE DEF F, K
  <2>3. ASSUME NEW i \in Nat, NEW u \in SafeLinks, F[n] = Fetch(s, i, u)
        PROVE  /\ F[n] \in Tasks /\ F[n].id = TId(i) /\ F[n].agent = "web_agent"
               /\ F[n].action = "web.fetch" /\ F[n].deps = {s} /\ F[n].auto
               /\ F[n].resource = u
    BY <1>2, <2>3, FetchIs
  <2> QED
    BY <2>1, <2>2, <2>3
<1>6. K \in Nat
  OBVIOUS
<1>7. Len(F) = K /\ F \in Seq(Tasks)
  <2>1. DOMAIN F = 1..K /\ F = [n \in 1..K |-> F[n]]
    BY <1>4
  <2> HIDE DEF F, K
  <2> QED
    BY <1>5, <1>6, <2>1
<1>8. Ids(F) = {F[n].id : n \in 1..K} /\ Ids(F) \in SUBSET TaskIds
  <2> HIDE DEF F, K
  <2> QED
    BY <1>7, ListParts, TaskFields
<1>9. I = [n \in 1..N |-> IF dag[n].id \notin dispatched /\ s \in dag[n].deps
                          THEN Patched(dag[n], Ids(F)) ELSE dag[n]]
  BY DEF Inject
<1>10. ASSUME NEW n \in 1..N
       PROVE  /\ I[n] \in Tasks
              /\ I[n].id = dag[n].id /\ I[n].agent = dag[n].agent
              /\ I[n].action = dag[n].action /\ I[n].top_k = dag[n].top_k
              /\ I[n].auto = dag[n].auto /\ I[n].resource = dag[n].resource
              /\ I[n].deps = IF dag[n].id \notin dispatched /\ s \in dag[n].deps
                             THEN dag[n].deps \cup Ids(F) ELSE dag[n].deps
              /\ ~ (dag[n].id \notin dispatched /\ s \in dag[n].deps) => I[n] = dag[n]
  <2> HIDE DEF F
  <2>1. CASE dag[n].id \notin dispatched /\ s \in dag[n].deps
    <3>1. I[n] = Patched(dag[n], Ids(F))
      BY <1>9, <2>1
    <3> HIDE DEF I
    <3> QED
      BY <1>1, <1>8, <2>1, <3>1, PatchedIs
  <2>2. CASE ~ (dag[n].id \notin dispatched /\ s \in dag[n].deps)
    <3>1. I[n] = dag[n]
      BY <1>9, <2>2
    <3> HIDE DEF I
    <3> QED
      BY <1>1, <2>2, <3>1
  <2> QED
    BY <2>1, <2>2
<1>11. I \in Seq(Tasks) /\ Len(I) = N
  <2>1. DOMAIN I = 1..N /\ I = [n \in 1..N |-> I[n]]
    BY <1>9
  <2>2. \A n \in 1..N : I[n] \in Tasks
    BY <1>10
  <2> HIDE DEF F, I, N
  <2> QED
    BY <1>1, <2>1, <2>2
<1>12. G = I \o F
  BY DEF Grown
<1> HIDE DEF F, I, G, N, K
<1>13. /\ G \in Seq(Tasks) /\ Len(G) = N + K
       /\ \A n \in 1..N : G[n] = I[n]
       /\ \A n \in 1..K : G[N + n] = F[n]
  <2>1. /\ I \o F \in Seq(Tasks) /\ Len(I \o F) = Len(I) + Len(F)
        /\ \A n \in 1..Len(I) : (I \o F)[n] = I[n]
        /\ \A n \in 1..Len(F) : (I \o F)[Len(I) + n] = F[n]
    <3>1. I \in Seq(Tasks) /\ F \in Seq(Tasks)
      BY <1>7, <1>11
    <3> QED
      BY <3>1, RowIs
  <2> QED
    BY <1>7, <1>11, <1>12, <2>1
<1>14. {G[N + m].id : m \in 1..K} = Ids(F)
  BY <1>8, <1>13
<1>15. ASSUME NEW n \in 1..K
       PROVE  /\ TId(seed + n - 1) \notin Ids(dag)
              /\ \A m \in 1..K : TId(seed + m - 1) = TId(seed + n - 1) => m = n
  <2>1. TId(seed + n - 1)[1] = "t" /\ TId(seed + n - 1)[2] = seed + n - 1
    BY DEF TId
  <2>2. ~ (seed + n - 1 < seed)
    BY <1>3, <1>6
  <2>3. TId(seed + n - 1) \notin Ids(dag)
    BY <1>3, <2>1, <2>2
  <2>4. ASSUME NEW m \in 1..K, TId(seed + m - 1) = TId(seed + n - 1)
        PROVE  m = n
    <3>1. seed + m - 1 = seed + n - 1
      BY <1>3, <1>6, <2>4, IdsDiffer
    <3> QED
      BY <1>3, <1>6, <3>1
  <2> QED
    BY <2>3, <2>4
<1>16. \A n \in 1..N :
         /\ G[n].id = dag[n].id /\ G[n].agent = dag[n].agent
         /\ G[n].action = dag[n].action /\ G[n].top_k = dag[n].top_k
         /\ G[n].auto = dag[n].auto /\ G[n].resource = dag[n].resource
         /\ G[n].deps = IF dag[n].id \notin dispatched /\ s \in dag[n].deps
                        THEN dag[n].deps \cup Ids(F) ELSE dag[n].deps
         /\ ~ (dag[n].id \notin dispatched /\ s \in dag[n].deps) => G[n] = dag[n]
  <2> SUFFICES ASSUME NEW n \in 1..N PROVE
         /\ G[n].id = dag[n].id /\ G[n].agent = dag[n].agent
         /\ G[n].action = dag[n].action /\ G[n].top_k = dag[n].top_k
         /\ G[n].auto = dag[n].auto /\ G[n].resource = dag[n].resource
         /\ G[n].deps = IF dag[n].id \notin dispatched /\ s \in dag[n].deps
                        THEN dag[n].deps \cup Ids(F) ELSE dag[n].deps
         /\ ~ (dag[n].id \notin dispatched /\ s \in dag[n].deps) => G[n] = dag[n]
    OBVIOUS
  <2>1. G[n] = I[n]
    BY <1>13
  <2> QED
    BY <1>10, <2>1
<1>17. \A n \in 1..K :
         /\ G[N + n].agent = "web_agent" /\ G[N + n].action = "web.fetch"
         /\ G[N + n].deps = {s} /\ G[N + n].auto /\ G[N + n].resource = L[n]
         /\ G[N + n].id \notin Ids(dag)
         /\ \A m \in 1..K : G[N + m].id = G[N + n].id => m = n
  <2> SUFFICES ASSUME NEW n \in 1..K PROVE
         /\ G[N + n].agent = "web_agent" /\ G[N + n].action = "web.fetch"
         /\ G[N + n].deps = {s} /\ G[N + n].auto /\ G[N + n].resource = L[n]
         /\ G[N + n].id \notin Ids(dag)
         /\ \A m \in 1..K : G[N + m].id = G[N + n].id => m = n
    OBVIOUS
  <2>1. \A m \in 1..K : G[N + m].id = TId(seed + m - 1)
    BY <1>5, <1>13
  <2>2. G[N + n] = F[n]
    BY <1>13
  <2>3. G[N + n].id \notin Ids(dag) /\ \A m \in 1..K : G[N + m].id = G[N + n].id => m = n
    BY <1>15, <2>1
  <2> QED
    BY <1>5, <2>2, <2>3
<1> QED
  BY ZenonT(30), <1>13, <1>14, <1>16, <1>17 DEF HasGrown, N, K, G
-----------------------------------------------------------------------------
(***************************************************************************)
(* The step that expands a search                                          *)
(***************************************************************************)

\* Everything that a task needs is in the list.
LEMMA InputsListed ==
  ASSUME GraphInv
  PROVE  \A t \in ToSet(dag) : t.deps \subseteq Ids(dag)
<1>1. /\ Ids(dag) = {dag[n].id : n \in 1..Len(dag)}
      /\ ToSet(dag) = {dag[n] : n \in 1..Len(dag)}
  BY ListParts DEF GraphInv, IsList
<1>2. ASSUME NEW n \in 1..Len(dag) PROVE dag[n].deps \subseteq Ids(dag)
  <2>1. CASE dag[n].auto
    BY <1>1, <2>1 DEF GraphInv, FetchesNameSearches
  <2>2. CASE ~ dag[n].auto
    BY <1>1, <2>2 DEF GraphInv, Ordered
  <2> QED
    BY <2>1, <2>2
<1> QED
  BY <1>1, <1>2

\* The search that is expanded has no fetches yet.
LEMMA ExpandedOnce ==
  ASSUME IInv, NEW s \in toExpand
  PROVE  /\ s \in Ids(dag) /\ ~ ById(dag, s).auto /\ s \in DOMAIN results
         /\ ById(dag, s).action = "web.search" /\ ~ IsDoc(s)
         /\ \A t \in ToSet(dag) : t.auto => s \notin t.deps
         /\ s \notin ById(dag, s).deps
         /\ \A i \in dispatched : s \notin ById(dag, i).deps
<1>1. /\ s \in DOMAIN results /\ ~ IsDoc(s) /\ ById(dag, s).action = "web.search"
      /\ s \in Ids(dag)
  BY DEF IInv, CallsInv
<1>2. ~ Heard(s)
  BY DEF Heard
<1>3. \A t \in ToSet(dag) : t.auto => s \notin t.deps
  BY <1>2 DEF IInv, FetchesInv
<1>4. \A i \in dispatched : s \notin ById(dag, i).deps
  BY <1>1, <1>2 DEF IInv, CallsInv, HasInputs
<1>5. ~ ById(dag, s).auto
  <2>1. PICK n \in 1..Len(dag) : dag[n].id = s
    BY <1>1, ListParts DEF IInv, GraphInv, IsList
  <2>2. ById(dag, s) = dag[n]
    BY <2>1, ByIdIs DEF IInv, GraphInv
  <2>3. dag[n].auto => dag[n].action = "web.fetch"
    BY DEF IInv, GraphInv, FetchesNameSearches
  <2> QED
    BY <1>1, <2>2, <2>3
<1>6. s \notin ById(dag, s).deps
  BY <1>1, <1>4 DEF IInv, CallsInv
<1> QED
  BY <1>1, <1>3, <1>4, <1>5, <1>6

\* What an expanded list still has: the graph.
LEMMA GrownGraph ==
  ASSUME IInv, NEW s \in toExpand, NEW L, Len(L) \in Nat, HasGrown(dag', s, L)
  PROVE  GraphInv'
<1> DEFINE N == Len(dag)
           K == Len(L)
           G == dag'
           new == {G[N + m].id : m \in 1..K}
<1>1. /\ N \in Nat /\ Ids(dag) = {dag[n].id : n \in 1..N}
      /\ ToSet(dag) = {dag[n] : n \in 1..N} /\ K \in Nat
  BY ListParts DEF IInv, GraphInv, IsList
<1>2. /\ G \in Seq(Tasks) /\ Len(G) = N + K
      /\ \A n \in 1..N :
            /\ G[n].id = dag[n].id /\ G[n].agent = dag[n].agent
            /\ G[n].action = dag[n].action /\ G[n].auto = dag[n].auto
            /\ G[n].deps \subseteq dag[n].deps \cup (IF s \in dag[n].deps THEN new ELSE {})
            /\ s \notin dag[n].deps => G[n] = dag[n]
      /\ \A n \in 1..K :
            /\ G[N + n].agent = "web_agent" /\ G[N + n].action = "web.fetch"
            /\ G[N + n].deps = {s} /\ G[N + n].auto
            /\ G[N + n].id \notin Ids(dag)
            /\ \A m \in 1..K : G[N + m].id = G[N + n].id => m = n
  BY DEF HasGrown
<1> HIDE DEF G, N, K
<1>3. ASSUME NEW n \in 1..(N + K) PROVE n \in 1..N \/ \E j \in 1..K : n = N + j
  <2>1. CASE n <= N
    BY <1>1, <2>1
  <2>2. CASE ~ (n <= N)
    <3>1. n - N \in 1..K /\ n = N + (n - N)
      BY <1>1, <2>2
    <3> QED
      BY <3>1
  <2> QED
    BY <2>1, <2>2
<1>4. PICK k \in 1..N : dag[k].id = s /\ ~ dag[k].auto /\ dag[k].action = "web.search"
  <2>1. PICK k \in 1..N : dag[k].id = s
    BY <1>1, ExpandedOnce
  <2>2. ById(dag, s) = dag[k]
    BY <2>1, ByIdIs DEF IInv, GraphInv, N
  <2> QED
    BY <2>1, <2>2, ExpandedOnce
<1>5. \A n \in 1..N : dag[n].auto => G[n] = dag[n]
  BY <1>1, <1>2, ExpandedOnce
<1>6. 1..N \subseteq 1..(N + K) /\ \A j \in 1..K : N + j \in 1..(N + K)
  BY <1>1
<1>7. IsList(G)
  <2>1. ASSUME NEW m \in 1..(N + K), NEW n \in 1..(N + K), G[m].id = G[n].id
        PROVE  m = n
    <3>1. CASE m \in 1..N /\ n \in 1..N
      BY <1>2, <2>1, <3>1 DEF IInv, GraphInv, IsList, N
    <3>2. ASSUME NEW i \in 1..N, NEW j \in 1..K PROVE G[i].id # G[N + j].id
      <4>1. G[i].id = dag[i].id
        BY <1>2
      <4>2. dag[i].id \in Ids(dag)
        BY <1>1
      <4>3. G[N + j].id \notin Ids(dag)
        BY <1>2
      <4> QED
        BY <4>1, <4>2, <4>3
    <3>3. ASSUME NEW i \in 1..K, NEW j \in 1..K, m = N + i, n = N + j PROVE m = n
      <4>1. i = j
        BY <1>2, <2>1, <3>3
      <4> QED
        BY <3>3, <4>1
    <3> QED
      BY <1>3, <2>1, <3>1, <3>2, <3>3
  <2> QED
    BY <1>2, <2>1 DEF IsList
<1>8. FetchesNameSearches(G)
  <2> SUFFICES ASSUME NEW n \in 1..(N + K), G[n].auto
               PROVE  /\ G[n].agent = "web_agent" /\ G[n].action = "web.fetch"
                      /\ \E i \in 1..(N + K) :
                           ~ G[i].auto /\ G[i].action = "web.search" /\ G[n].deps = {G[i].id}
    BY <1>2 DEF FetchesNameSearches
  <2>1. CASE n \in 1..N
    <3>1. dag[n].auto /\ G[n] = dag[n]
      BY <1>2, <1>5, <2>1
    <3>2. /\ dag[n].agent = "web_agent" /\ dag[n].action = "web.fetch"
          /\ \E i \in 1..N :
               ~ dag[i].auto /\ dag[i].action = "web.search" /\ dag[n].deps = {dag[i].id}
      BY <2>1, <3>1 DEF IInv, GraphInv, FetchesNameSearches, N
    <3> QED
      BY <1>2, <1>6, <3>1, <3>2
  <2>2. ASSUME NEW j \in 1..K, n = N + j
        PROVE  /\ G[n].agent = "web_agent" /\ G[n].action = "web.fetch"
               /\ G[n].deps = {s}
    BY <1>2, <2>2
  <2>3. k \in 1..(N + K) /\ ~ G[k].auto /\ G[k].action = "web.search" /\ G[k].id = s
    BY <1>2, <1>4, <1>6
  <2> QED
    BY <1>3, <2>1, <2>2, <2>3
<1>9. Ordered(G)
  <2>0. Len(G) = N + K
    BY <1>2
  <2> SUFFICES ASSUME NEW n \in 1..(N + K), ~ G[n].auto, NEW i \in G[n].deps
               PROVE  \E m \in 1..(N + K) :
                        /\ G[m].id = i
                        /\ IF G[m].auto
                           THEN \E j \in 1..(n - 1) : ~ G[j].auto /\ G[m].deps = {G[j].id}
                           ELSE m <= n
    BY <2>0, Zenon DEF Ordered
  <2>1. n \in 1..N /\ ~ dag[n].auto
    BY <1>2, <1>3
  <2>2. \A j \in 1..(n - 1) : j \in 1..N
    BY <1>1, <2>1
  <2>3. CASE i \in dag[n].deps
    <3>1. PICK m \in 1..N :
            /\ dag[m].id = i
            /\ IF dag[m].auto
               THEN \E j \in 1..(n - 1) : ~ dag[j].auto /\ dag[m].deps = {dag[j].id}
               ELSE m <= n
      BY <2>1, <2>3 DEF IInv, GraphInv, Ordered, N
    <3>2. m \in 1..(N + K) /\ G[m].id = i /\ G[m].auto = dag[m].auto
      BY <1>2, <1>6, <3>1
    <3>3. CASE dag[m].auto
      <4>1. PICK j \in 1..(n - 1) : ~ dag[j].auto /\ dag[m].deps = {dag[j].id}
        BY <3>1, <3>3
      <4>2. ~ G[j].auto /\ G[m].deps = {G[j].id}
        BY <1>2, <1>5, <2>2, <3>3, <4>1
      <4> QED
        BY <3>2, <3>3, <4>2
    <3>4. CASE ~ dag[m].auto
      BY <3>1, <3>2, <3>4
    <3> QED
      BY <3>3, <3>4
  <2>4. CASE i \notin dag[n].deps
    <3>1. s \in dag[n].deps /\ i \in new
      BY <1>2, <2>1, <2>4
    <3>2. PICK m \in 1..K : G[N + m].id = i
      BY <3>1
    <3>3. PICK p \in 1..N : /\ dag[p].id = s
                            /\ ~ dag[p].auto => p <= n
      BY <2>1, <3>1 DEF IInv, GraphInv, Ordered, N
    <3>4. p = k
      BY <1>4, <3>3 DEF IInv, GraphInv, IsList, N
    <3>5. k \in 1..(n - 1)
      <4>1. k # n
        BY <1>4, <3>1, ExpandedOnce, ByIdIs DEF IInv, GraphInv, N
      <4> QED
        BY <1>1, <1>4, <2>1, <3>3, <3>4, <4>1
    <3>6. ~ G[k].auto /\ G[N + m].deps = {G[k].id} /\ G[N + m].auto
      BY <1>2, <1>4
    <3>7. N + m \in 1..(N + K)
      BY <1>6
    <3> QED
      BY <3>2, <3>5, <3>6, <3>7
  <2> QED
    BY <2>3, <2>4
<1>10. IsList(dag') /\ FetchesNameSearches(dag') /\ Ordered(dag')
  BY <1>7, <1>8, <1>9 DEF G
<1> QED
  BY <1>10 DEF GraphInv, IsList, FetchesNameSearches, Ordered

\* ... what was sent and answered,
LEMMA GrownCalls ==
  ASSUME Inv, IInv, pc = "expand", NEW s \in toExpand, NEW L, Len(L) \in Nat,
         HasGrown(dag', s, L), GraphInv', toExpand' = toExpand \ {s},
         pc' = "expand", UNCHANGED <<layer, outs, results, dispatched, sent>>
  PROVE  CallsInv'
<1> DEFINE N == Len(dag)
<1>1. /\ N \in Nat /\ Ids(dag) = {dag[n].id : n \in 1..N}
      /\ ToSet(dag) = {dag[n] : n \in 1..N}
  BY ListParts DEF IInv, GraphInv, IsList
<1>2. /\ Len(dag') = N + Len(L)
      /\ \A n \in 1..N :
            /\ dag'[n].id = dag[n].id /\ dag'[n].agent = dag[n].agent
            /\ dag'[n].action = dag[n].action /\ dag'[n].auto = dag[n].auto
            /\ dag[n].id \in dispatched => dag'[n].deps = dag[n].deps
  BY DEF HasGrown
<1>3. ASSUME NEW i \in Ids(dag)
      PROVE  /\ i \in Ids(dag') /\ ById(dag', i).agent = ById(dag, i).agent
             /\ ById(dag', i).action = ById(dag, i).action
             /\ ById(dag', i).auto = ById(dag, i).auto
             /\ i \in dispatched => ById(dag', i).deps = ById(dag, i).deps
  <2>1. PICK n \in 1..N : dag[n].id = i
    BY <1>1
  <2>2. n \in 1..Len(dag')
    BY <1>1, <1>2
  <2>3. ById(dag, i) = dag[n]
    BY <2>1, ByIdIs DEF IInv, GraphInv
  <2>4. IsList(dag') /\ dag'[n].id = i
    BY <1>2, <2>1 DEF GraphInv, IsList
  <2>5. ById(dag', i) = dag'[n]
    BY <2>2, <2>4, ByIdIs
  <2>6. i \in Ids(dag')
    BY <2>2, <2>4, ListParts DEF IsList
  <2> QED
    BY <1>2, <2>1, <2>3, <2>5, <2>6
<1>4. \A i \in Ids(dag) : IsDoc(i)' = IsDoc(i)
  BY <1>3 DEF IsDoc
<1>5. \A i : Heard(i) => Heard(i)'
  BY DEF Heard
<1>6. sent \subseteq dispatched /\ layer = {} /\ DOMAIN outs = {}
  BY DEF Inv, SentInv, IInv, CallsInv
<1>7. dispatched \subseteq Ids(dag) /\ DOMAIN results \subseteq dispatched
  BY DEF IInv, CallsInv
<1>8. ASSUME NEW i \in dispatched PROVE HasInputs(i)'
  <2> SUFFICES ASSUME NEW j \in ById(dag', i).deps PROVE IsDoc(j)' \/ Heard(j)'
    BY DEF HasInputs
  <2>1. j \in ById(dag, i).deps
    BY <1>3, <1>7
  <2>2. IsDoc(j) \/ Heard(j)
    BY <2>1 DEF IInv, CallsInv, HasInputs
  <2>3. j \in Ids(dag)
    BY <1>7, <2>1, ByIdInSet, InputsListed DEF IInv, GraphInv
  <2> QED
    BY <1>4, <1>5, <2>2, <2>3
<1>9. \A i \in DOMAIN results : results[i] \in Replies /\ (results[i].ok \/ ById(dag', i).auto)
  BY <1>3, <1>7 DEF IInv, CallsInv
<1>10. \A i \in dispatched : IsDoc(i)' \/ i \in DOMAIN results
  BY <1>4, <1>7 DEF IInv, CallsInv
<1>11. \A i \in toExpand \ {s} :
          i \in DOMAIN results /\ ~ IsDoc(i)' /\ ById(dag', i).action = "web.search"
  BY <1>3, <1>4, <1>7 DEF IInv, CallsInv
<1>12. dispatched \subseteq Ids(dag') /\ sent \subseteq Ids(dag')
  BY <1>3, <1>6, <1>7
<1> QED
  BY <1>6, <1>7, <1>8, <1>9, <1>10, <1>11, <1>12 DEF CallsInv

\* ... the fetches and what needs them,
LEMMA GrownFetches ==
  ASSUME IInv, NEW s \in toExpand, NEW L, Len(L) \in Nat, HasGrown(dag', s, L), GraphInv',
         toExpand' = toExpand \ {s}, UNCHANGED results
  PROVE  FetchesInv'
<1> DEFINE N == Len(dag)
           K == Len(L)
           G == dag'
           new == {G[N + m].id : m \in 1..K}
<1>1. /\ N \in Nat /\ Ids(dag) = {dag[n].id : n \in 1..N}
      /\ ToSet(dag) = {dag[n] : n \in 1..N} /\ K \in Nat
  BY ListParts DEF IInv, GraphInv, IsList
<1>2. /\ G \in Seq(Tasks) /\ Len(G) = N + K
      /\ \A n \in 1..N :
            /\ G[n].id = dag[n].id /\ G[n].auto = dag[n].auto
            /\ G[n].deps = IF dag[n].id \notin dispatched /\ s \in dag[n].deps
                           THEN dag[n].deps \cup new ELSE dag[n].deps
            /\ s \notin dag[n].deps => G[n] = dag[n]
      /\ \A n \in 1..K :
            /\ G[N + n].deps = {s} /\ G[N + n].auto
            /\ G[N + n].id \notin Ids(dag)
  BY DEF HasGrown
<1>3. ToSet(G) = {G[n] : n \in 1..(N + K)}
  BY <1>2, ListParts
<1> HIDE DEF G, N, K
<1>4. ASSUME NEW n \in 1..(N + K) PROVE n \in 1..N \/ \E j \in 1..K : n = N + j
  <2>1. CASE n <= N
    BY <1>1, <2>1
  <2>2. CASE ~ (n <= N)
    <3>1. n - N \in 1..K /\ n = N + (n - N)
      BY <1>1, <2>2
    <3> QED
      BY <3>1
  <2> QED
    BY <2>1, <2>2
<1>5. \A t \in ToSet(G) : (\E n \in 1..N : t = G[n]) \/ (\E j \in 1..K : t = G[N + j])
  BY <1>3, <1>4
<1>6. \A n \in 1..N : dag[n].auto => G[n] = dag[n]
  BY ZenonT(30), <1>1, <1>2, ExpandedOnce
<1>7. \A i : Heard(i) => Heard(i)'
  BY DEF Heard
<1>8. Heard(s)'
  BY ExpandedOnce DEF Heard
<1>9. ASSUME NEW t \in ToSet(G), t.auto, NEW i \in t.deps PROVE Heard(i)'
  <2>1. ASSUME NEW n \in 1..N, t = G[n] PROVE Heard(i)'
    <3>1. dag[n].auto /\ i \in dag[n].deps
      BY <1>2, <1>6, <1>9, <2>1
    <3>2. Heard(i)
      BY <1>1, <3>1 DEF IInv, FetchesInv
    <3> QED
      BY <1>7, <3>2
  <2>2. ASSUME NEW j \in 1..K, t = G[N + j] PROVE Heard(i)'
    BY <1>2, <1>8, <1>9, <2>2
  <2> QED
    BY <1>5, <2>1, <2>2
<1>10. ASSUME NEW t \in ToSet(G), NEW f \in ToSet(G), ~ t.auto, f.auto, f.deps \subseteq t.deps
       PROVE  f.id \in t.deps
  <2>1. PICK n \in 1..N : t = G[n] /\ ~ dag[n].auto
    BY ZenonT(30), <1>2, <1>5, <1>10
  <2>2. \A i \in Ids(dag) : i \in t.deps => i \in dag[n].deps
    <3>1. \A i \in new : i \notin Ids(dag)
      BY <1>2
    <3>2. t.deps \subseteq dag[n].deps \cup new
      BY <1>2, <2>1
    <3> QED
      BY <3>1, <3>2
  <2>3. ASSUME NEW m \in 1..N, f = G[m] PROVE f.id \in t.deps
    <3>1. dag[m].auto /\ f = dag[m]
      BY <1>2, <1>6, <1>10, <2>3
    <3>2. f.deps \subseteq Ids(dag)
      BY <1>1, <3>1, InputsListed DEF IInv
    <3>3. f.deps \subseteq dag[n].deps
      BY <1>10, <2>2, <3>2
    <3>4. f.id \in dag[n].deps
      BY <1>1, <1>10, <2>1, <3>1, <3>3 DEF IInv, FetchesInv
    <3> QED
      BY <1>2, <2>1, <3>4
  <2>4. ASSUME NEW j \in 1..K, f = G[N + j] PROVE f.id \in t.deps
    <3>1. f.deps = {s} /\ f.id \in new
      BY <1>2, <2>4
    <3>2. s \in dag[n].deps
      BY <1>10, <2>2, <3>1, ExpandedOnce
    <3>3. dag[n].id \notin dispatched
      <4>1. ById(dag, dag[n].id) = dag[n]
        BY <2>1, ByIdIs DEF IInv, GraphInv, N
      <4> QED
        BY <3>2, <4>1, ExpandedOnce
    <3> QED
      BY <1>2, <2>1, <3>1, <3>2, <3>3
  <2> QED
    BY <1>5, <2>3, <2>4
<1> QED
  BY <1>9, <1>10 DEF FetchesInv, G

\* ... and that the links were followed that are to be.
LEMMA GrownLinks ==
  ASSUME IInv, NEW s \in toExpand, NEW L, L = TakenLinks(results[s].hits, ById(dag, s).top_k),
         Len(L) \in Nat, HasGrown(dag', s, L), GraphInv',
         ById(dag, s).top_k \in Nat,
         toExpand' = toExpand \ {s}, UNCHANGED <<results, failure>>
  PROVE  LinksFollowed'
<1> DEFINE N == Len(dag)
           K == Len(L)
           G == dag'
           Of(i) == {t \in ToSet(G) : t.auto /\ i \in t.deps}
<1>1. /\ N \in Nat /\ Ids(dag) = {dag[n].id : n \in 1..N}
      /\ ToSet(dag) = {dag[n] : n \in 1..N} /\ K \in Nat
  BY ListParts DEF IInv, GraphInv, IsList
<1>2. /\ G \in Seq(Tasks) /\ Len(G) = N + K
      /\ \A n \in 1..N :
            /\ G[n].id = dag[n].id /\ G[n].auto = dag[n].auto
            /\ G[n].action = dag[n].action /\ G[n].top_k = dag[n].top_k
            /\ s \notin dag[n].deps => G[n] = dag[n]
      /\ \A n \in 1..K :
            /\ G[N + n].deps = {s} /\ G[N + n].auto /\ G[N + n].action = "web.fetch"
            /\ G[N + n].resource = L[n]
            /\ \A m \in 1..K : G[N + m].id = G[N + n].id => m = n
  BY DEF HasGrown
<1>3. ToSet(G) = {G[n] : n \in 1..(N + K)}
  BY <1>2, ListParts
<1>4. results' = results /\ failure' = failure
  OBVIOUS
<1>5. \A t \in ToSet(G) : (\E n \in 1..N : t = G[n]) \/ (\E j \in 1..K : t = G[N + j])
  <2> HIDE DEF G, N, K
  <2>1. ASSUME NEW n \in 1..(N + K) PROVE n \in 1..N \/ \E j \in 1..K : n = N + j
    <3>1. CASE n <= N
      BY <1>1, <3>1
    <3>2. CASE ~ (n <= N)
      <4>1. n - N \in 1..K /\ n = N + (n - N)
        BY <1>1, <3>2
      <4> QED
        BY <4>1
    <3> QED
      BY <3>1, <3>2
  <2> QED
    BY <1>3, <2>1
<1>6. (\A n \in 1..N : G[n] \in ToSet(G)) /\ (\A j \in 1..K : G[N + j] \in ToSet(G))
  <2>1. \A n \in 1..N : n \in 1..(N + K)
    BY <1>1
  <2>2. \A j \in 1..K : N + j \in 1..(N + K)
    BY <1>1
  <2> HIDE DEF G, N, K
  <2> QED
    BY <1>3, <2>1, <2>2
<1> HIDE DEF G, N, K
<1>7. \A n \in 1..N : dag[n].auto => G[n] = dag[n] /\ s \notin dag[n].deps
  BY <1>1, <1>2, ExpandedOnce
<1>8. Of(s) = {G[N + j] : j \in 1..K}
  <2>1. ASSUME NEW t \in Of(s) PROVE \E j \in 1..K : t = G[N + j]
    BY <1>2, <1>5, <1>7, <2>1
  <2>2. \A j \in 1..K : G[N + j] \in Of(s)
    BY <1>2, <1>6
  <2> HIDE DEF Of
  <2> QED
    BY <2>1, <2>2
<1>9. ASSUME NEW i, i # s PROVE Of(i) = FetchesOf(i)
  <2>1. ASSUME NEW t \in Of(i) PROVE t \in FetchesOf(i)
    <3>1. \A j \in 1..K : t # G[N + j]
      BY <1>2, <1>9
    <3>2. PICK n \in 1..N : t = G[n]
      BY <1>5, <3>1
    <3>3. t = dag[n]
      BY <1>2, <1>7, <3>2
    <3> QED
      BY <1>1, <3>3 DEF FetchesOf
  <2>2. ASSUME NEW t \in FetchesOf(i) PROVE t \in Of(i)
    <3>1. PICK n \in 1..N : t = dag[n]
      BY <1>1 DEF FetchesOf
    <3>2. t = G[n]
      BY <1>7, <3>1 DEF FetchesOf
    <3> QED
      BY <1>6, <3>2 DEF FetchesOf
  <2> QED
    BY <2>1, <2>2
<1> DEFINE hits == results[s].hits
           safe == ToSet(hits) \cap SafeLinks
           followed == {f.resource : f \in Of(s)}
<1>10. /\ K = Min({ById(dag, s).top_k, Cardinality(safe)})
       /\ \A n \in 1..K : L[n] \in safe
       /\ \A m, n \in 1..K : L[m] = L[n] => m = n
  <2>1. hits \in HitLists \cup {<<>>}
    BY ExpandedOnce DEF IInv, CallsInv, Replies
  <2>2. hits \in Seq(ToSet(hits))
    <3>1. CASE hits = <<>>
      BY <3>1
    <3>2. CASE hits \in HitLists
      BY <3>2, ReplyAssumption DEF ReplyAssumption
    <3> QED
      BY <2>1, <3>1, <3>2
  <2>3. TakenWell(hits, ById(dag, s).top_k)
    <3> HIDE DEF hits
    <3> QED
      BY <2>2, TakenAre
  <2> QED
    BY <2>3 DEF TakenWell, K
<1> HIDE DEF hits
<1>11. followed = {L[n] : n \in 1..K}
  BY <1>2, <1>8
<1>12. Cardinality(Of(s)) = K
  <2> DEFINE g == [n \in 1..K |-> G[N + n]]
  <2>1. \A m, n \in 1..K : g[m] = g[n] => m = n
    BY <1>2
  <2>2. g \in [1..K -> Of(s)] /\ \A u \in Of(s) : \E n \in 1..K : g[n] = u
    <3> HIDE DEF Of
    <3> QED
      BY <1>8
  <2> HIDE DEF g, Of
  <2> QED
    BY <1>1, <2>1, <2>2, ValuesCount
<1>13. Cardinality(followed) = K
  <2> DEFINE g == [n \in 1..K |-> L[n]]
  <2>1. \A m, n \in 1..K : g[m] = g[n] => m = n
    BY <1>10
  <2>2. g \in [1..K -> followed] /\ \A u \in followed : \E n \in 1..K : g[n] = u
    <3> HIDE DEF followed
    <3> QED
      BY <1>11
  <2> HIDE DEF g, followed
  <2> QED
    BY <1>1, <2>1, <2>2, ValuesCount
<1>14. followed \subseteq safe
  <2> HIDE DEF followed, safe
  <2> QED
    BY SMTT(30), <1>10, <1>11
<1>15. ASSUME NEW t \in ToSet(G), t.action = "web.search", t.id \in DOMAIN results,
              t.id \notin toExpand \ {s}, failure = "none"
       PROVE  /\ {f.resource : f \in Of(t.id)} \subseteq ToSet(results[t.id].hits) \cap SafeLinks
              /\ Cardinality(Of(t.id)) = Cardinality({f.resource : f \in Of(t.id)})
              /\ Cardinality({f.resource : f \in Of(t.id)}) =
                   Min({t.top_k, Cardinality(ToSet(results[t.id].hits) \cap SafeLinks)})
  <2>1. PICK n \in 1..N : t = G[n]
    BY <1>2, <1>5, <1>15
  <2>2. t.id = dag[n].id /\ t.top_k = dag[n].top_k /\ dag[n].action = "web.search"
    BY <1>2, <1>15, <2>1
  <2>3. CASE t.id = s
    <3>1. ById(dag, s) = dag[n]
      BY <2>2, <2>3, ByIdIs DEF IInv, GraphInv, N
    <3>2. Min({t.top_k, Cardinality(safe)}) = K
      BY <1>10, <2>2, <3>1
    <3> QED
      BY <1>12, <1>13, <1>14, <2>3, <3>2 DEF hits
  <2>4. CASE t.id # s
    <3>1. Of(t.id) = FetchesOf(t.id)
      BY <1>9, <2>4
    <3>2. dag[n] \in ToSet(dag) /\ dag[n].id = t.id /\ t.id \notin toExpand
      BY <1>1, <1>15, <2>2, <2>4
    <3> HIDE DEF Of
    <3> QED
      BY <1>15, <2>2, <3>1, <3>2 DEF IInv, LinksFollowed
  <2> QED
    BY <2>3, <2>4
<1> QED
  BY <1>4, <1>15 DEF LinksFollowed, FetchesOf, G

\* So expanding a search keeps the invariant, and so does the error of a value that is
\* no number.
LEMMA ExpandIInv ==
  ASSUME Inv, IInv, NEW s \in toExpand, Expand(s)
  PROVE  IInv'
<1>1. /\ pc = "expand" /\ toExpand' = toExpand \ {s}
      /\ \/ /\ ById(dag, s).top_k = IllTyped
            /\ pc' = "failed" /\ failure' = "expand" /\ UNCHANGED dag
         \/ /\ ById(dag, s).top_k # IllTyped
            /\ dag' = Grown(s) /\ UNCHANGED <<pc, failure>>
      /\ UNCHANGED <<mode, layers, layer, outs, results, dispatched, cloud, preview, sent>>
  BY DEF Expand
<1>2. layers' = <<>> /\ layers = <<>>
  BY <1>1 DEF IInv, LayersInv
<1>3. CASE UNCHANGED dag /\ pc' = "failed" /\ failure' = "expand"
  <2>1. GraphInv'
    BY <1>3 DEF IInv, GraphInv
  <2>2. CallsInv'
    BY <1>1, <1>3 DEF IInv, CallsInv, IsDoc, HasInputs, Heard
  <2>3. FetchesInv' /\ LinksFollowed' /\ LoopEnds' /\ StateTypes' /\ LayersInv'
    BY <1>1, <1>2, <1>3 DEF IInv, FetchesInv, Heard, LinksFollowed, LoopEnds, StateTypes,
         Failures, LayersInv
  <2> QED
    BY <1>3, <2>1, <2>2, <2>3 DEF IInv, CycleInv
<1>4. CASE ById(dag, s).top_k # IllTyped /\ dag' = Grown(s) /\ UNCHANGED <<pc, failure>>
  <2> DEFINE L == TakenLinks(results[s].hits, ById(dag, s).top_k)
             safe == ToSet(results[s].hits) \cap SafeLinks
  <2>1. ById(dag, s).top_k \in Nat
    <3>1. ById(dag, s) \in Tasks
      BY ExpandedOnce, ByIdInSet DEF IInv, GraphInv
    <3> QED
      BY <1>4, <3>1, TaskFields
  <2>2. results[s].hits \in Seq(ToSet(results[s].hits))
    <3>1. results[s].hits \in HitLists \cup {<<>>}
      BY ExpandedOnce DEF IInv, CallsInv, Replies
    <3>2. CASE results[s].hits = <<>>
      BY <3>2
    <3>3. CASE results[s].hits \in HitLists
      BY <3>3, ReplyAssumption DEF ReplyAssumption
    <3> QED
      BY <3>1, <3>2, <3>3
  <2>3. Len(L) \in Nat /\ \A n \in 1..Len(L) : L[n] \in safe
    <3>1. TakenWell(results[s].hits, ById(dag, s).top_k)
      BY <2>1, <2>2, TakenAre
    <3> QED
      BY <3>1 DEF TakenWell
  <2>4. \A n \in 1..Len(L) : L[n] \in SafeLinks
    BY <2>3
  <2> HIDE DEF L
  <2>5. s \in Ids(dag) /\ IsList(dag)
    BY ExpandedOnce DEF IInv, GraphInv
  <2>6. HasGrown(dag', s, L)
    BY <1>4, <2>3, <2>4, <2>5, GrownIs DEF L
  <2>7. GraphInv'
    BY <2>3, <2>6, GrownGraph
  <2>8. CallsInv'
    BY <1>1, <1>4, <2>3, <2>6, <2>7, GrownCalls
  <2>9. FetchesInv'
    BY <1>1, <2>3, <2>6, <2>7, GrownFetches
  <2>10. LinksFollowed'
    BY <1>1, <1>4, <2>1, <2>3, <2>6, <2>7, GrownLinks DEF L
  <2>11. LoopEnds' /\ LayersInv' /\ CycleInv'
    BY <1>1, <1>2, <1>4 DEF LoopEnds, LayersInv, IInv, CycleInv
  <2>12. StateTypes'
    <3>1. \A n \in 1..Len(dag') : dag'[n].agent \in Agents /\ dag'[n].action \in Actions
      <4>1. ASSUME NEW n \in 1..Len(dag')
            PROVE  n \in 1..Len(dag) \/ \E j \in 1..Len(L) : n = Len(dag) + j
        <5>1. Len(dag) \in Nat /\ Len(dag') = Len(dag) + Len(L)
          BY <2>5, <2>6, ListParts DEF IsList, HasGrown
        <5>2. CASE n <= Len(dag)
          BY <5>1, <5>2
        <5>3. CASE ~ (n <= Len(dag))
          <6>1. n - Len(dag) \in 1..Len(L) /\ n = Len(dag) + (n - Len(dag))
            BY <2>3, <5>1, <5>3
          <6> QED
            BY <6>1
        <5> QED
          BY <5>2, <5>3
      <4>2. \A n \in 1..Len(dag) : dag[n].agent \in Agents /\ dag[n].action \in Actions
        BY <2>5, ListParts DEF IInv, StateTypes, IsList
      <4>3. \A n \in 1..Len(dag) : dag'[n].agent \in Agents /\ dag'[n].action \in Actions
        BY <2>6, <4>2 DEF HasGrown
      <4>4. \A j \in 1..Len(L) : /\ dag'[Len(dag) + j].agent \in Agents
                                 /\ dag'[Len(dag) + j].action \in Actions
        BY <2>6 DEF HasGrown, Agents, Actions
      <4> QED
        BY <4>1, <4>3, <4>4
    <3>2. ToSet(dag') = {dag'[n] : n \in 1..Len(dag')}
      BY <2>6, ListParts DEF HasGrown
    <3> QED
      BY <1>1, <1>4, <3>1, <3>2 DEF IInv, StateTypes
  <2> QED
    BY <2>7, <2>8, <2>9, <2>10, <2>11, <2>12 DEF IInv
<1> QED
  BY <1>1, <1>3, <1>4

\* Every step keeps it.
LEMMA StepIInv == Inv /\ IInv /\ [Next]_vars => IInv'
<1> SUFFICES ASSUME Inv, IInv, [Next]_vars PROVE IInv'
  OBVIOUS
<1>1. CASE UNCHANGED vars
  <2>1. /\ dag' = dag /\ layers' = layers /\ layer' = layer /\ outs' = outs
        /\ results' = results /\ dispatched' = dispatched /\ toExpand' = toExpand
        /\ sent' = sent /\ pc' = pc /\ mode' = mode /\ failure' = failure
        /\ cloud' = cloud /\ preview' = preview
    BY <1>1 DEF vars
  <2>2. GraphInv' /\ StateTypes' /\ LoopEnds' /\ CycleInv'
    BY <2>1 DEF IInv, GraphInv, StateTypes, LoopEnds, CycleInv
  <2>3. LayersInv' /\ FetchesInv'
    BY <2>1 DEF IInv, LayersInv, Placed, FetchesInv, Heard
  <2>5. LinksFollowed'
    BY <2>1 DEF IInv, LinksFollowed, FetchesOf
  <2>4. CallsInv'
    BY <2>1 DEF IInv, CallsInv, IsDoc, HasInputs, Heard
  <2> QED
    BY <2>2, <2>3, <2>4, <2>5 DEF IInv
<1>2. CASE Next
  BY <1>2, PlannerIInv, NodesIInv, TopoIInv, DispatchIInv, CallEndsIInv, GatheredIInv,
     ExpandIInv DEF Next
<1> QED
  BY <1>1, <1>2

\* Both hold in every state of every request.
LEMMA RequestInvariant == Spec => [](Inv /\ IInv)
  BY InitInv, InitIInv, StepInv, StepIInv, PTL DEF Spec

-----------------------------------------------------------------------------
(***************************************************************************)
(* What follows from it                                                    *)
(***************************************************************************)

PlansAreValid ==
  /\ failure # "validate"
  /\ failure = "rules" => \E t \in ToSet(dag) : t.resource = Unfit

\* No request ends because a plan that the planner made is not valid, unless a resource
\* that the rules were given is unfit: all else in the rules' plans is as validate_dag
\* wants it, and what the model replied was tested (planner.py:334-342).
THEOREM PlansAreValidHolds == Spec => []PlansAreValid
<1>1. Inv => PlansAreValid
  BY DEF Inv, PlanInv, PlansAreValid
<1> QED
  BY <1>1, InductiveInvariant, PTL

\* A preview in the local store never shows what the document at Feishu does not
\* have, whichever call fails and whichever answer is lost (doc_writer.py:191-215).
THEOREM PreviewHolds == Spec => []PreviewIsBacked
<1>1. Inv => PreviewIsBacked
  BY DEF Inv, DocumentInv, DocumentStored, PreviewIsBacked
<1> QED
  BY <1>1, InductiveInvariant, PTL

\* No call is made twice for a task, for every plan and everything a search may
\* find: what the loop sends next was not sent before (dispatcher.py:119-172).
THEOREM SentOnceHolds == Spec => SentOnce
<1>1. Inv /\ [Next]_vars =>
        [pc = "pick" /\ pc' = "gather" => layer' \cap sent = {}]_vars
  <2> SUFFICES ASSUME Inv, Next, pc = "pick", pc' = "gather"
               PROVE  layer' \cap sent = {}
    BY DEF vars
  <2>1. Dispatch
    BY DEF Next, Planner, PlanValidate, TopoRound, CallEnds, Gathered, Expand,
           Expanded, Synthesizer, CreateDoc, CreateDocRaises, AppendBlocks,
           AppendBlocksRaises, Save, SaveFails, SaveRaises
  <2>2. layer' = NextLayer
    BY <2>1 DEF Dispatch
  <2>3. NextLayer \cap dispatched = {}
    BY DEF NextLayer, Pending
  <2>4. sent \subseteq dispatched
    BY DEF Inv, SentInv
  <2> QED
    BY <2>2, <2>3, <2>4
<1> QED
  BY <1>1, InductiveInvariant, PTL DEF Spec, SentOnce

\* The state of a request, whatever it asks for (graph.py:17-50).
THEOREM TypeCorrect == Spec => []TypeOK
<1>1. IInv => TypeOK
  <2> SUFFICES ASSUME IInv PROVE TypeOK
    OBVIOUS
  <2>1. /\ dag \in Seq(Tasks) /\ ToSet(dag) = {dag[n] : n \in 1..Len(dag)}
    BY ListParts DEF IInv, GraphInv, IsList
  <2>2. dag \in Seq({t \in Tasks : t.agent \in Agents /\ t.action \in Actions})
    <3>1. \A n \in 1..Len(dag) : dag[n] \in {t \in Tasks : t.agent \in Agents /\ t.action \in Actions}
      BY <2>1 DEF IInv, StateTypes
    <3> QED
      BY <2>1, <3>1
  <2>3. Placed \subseteq Ids(dag)
    BY PlacedIs DEF IInv, LayersInv
  <2> QED
    BY <2>2, <2>3 DEF IInv, StateTypes, CallsInv, TypeOK
<1> QED
  BY <1>1, RequestInvariant, PTL

\* However the DAG grows between two layers, no id names two tasks in it and it is only
\* cyclic if a task of the plan needs itself, for every plan that a model may reply with and whatever its
\* searches find (dispatcher.py:23-40, 100-110).
THEOREM GraphSoundHolds == Spec => []GraphSound
<1>1. Inv /\ IInv => GraphSound
  BY ListCounts DEF IInv, GraphInv, Inv, PlanInv, GraphSound, IdsUnique, PlansStaySound,
       CycleInv
<1> QED
  BY <1>1, RequestInvariant, PTL

\* Whatever depends on a search is sent only when the pages have answered that the
\* search has led to, and every search leads to as many of its safe links, each once,
\* as its fetch_top_k allows (dispatcher.py:69-110, 119-204).
THEOREM InOrderHolds == Spec => []InOrder
<1>1. IInv => InputsFirst
  <2> SUFFICES ASSUME IInv, NEW t \in ToSet(dag), t.id \in sent,
                      NEW i \in t.deps, ~ IsDoc(i)
               PROVE  /\ i \in DOMAIN results
                      /\ t.auto \/ \A f \in FetchesOf(i) : f.id \in DOMAIN results
    BY DEF InputsFirst
  <2>1. HasInputs(t.id) /\ ById(dag, t.id) = t
    BY ByIdInSet DEF IInv, GraphInv, CallsInv
  <2>2. i \in DOMAIN results
    BY <2>1 DEF HasInputs, Heard
  <2>3. ASSUME ~ t.auto, NEW f \in FetchesOf(i) PROVE f.id \in DOMAIN results
    <3>1. f \in ToSet(dag) /\ f.auto /\ i \in f.deps
      BY DEF FetchesOf
    <3>2. ToSet(dag) = {dag[n] : n \in 1..Len(dag)}
      BY ListParts DEF IInv, GraphInv, IsList
    <3>3. f.agent = "web_agent" /\ f.deps = {i}
      BY <3>1, <3>2 DEF IInv, GraphInv, FetchesNameSearches
    <3>4. f.id \in t.deps
      BY <2>3, <3>1, <3>3 DEF IInv, FetchesInv
    <3>5. ~ IsDoc(f.id)
      BY <3>1, <3>3, ByIdInSet DEF IsDoc, IInv, GraphInv
    <3> QED
      BY <2>1, <3>4, <3>5 DEF HasInputs, Heard
  <2> QED
    BY <2>2, <2>3
<1>2. IInv => InOrder
  BY <1>1 DEF IInv, InOrder
<1> QED
  BY <1>2, RequestInvariant, PTL

\* An answer without error means that every task but the documents has a result, an
\* error only for what the dispatcher added, and that the document with its preview is
\* where the answer says (dispatcher.py:119-222, doc_writer.py:150-215).
THEOREM AnswersBackedHolds == Spec => []AnswersBacked
<1>1. Inv /\ IInv => AnswersBacked
  <2> SUFFICES ASSUME Inv, IInv PROVE AnswersBacked
    OBVIOUS
  <2>1. PreviewIsBacked
    BY DEF Inv, DocumentInv, DocumentStored, PreviewIsBacked
  <2>2. ASSUME pc = "done" PROVE TasksDone
    <3> SUFFICES ASSUME NEW t \in ToSet(dag), t.agent # "doc_assistant"
                 PROVE  t.id \in DOMAIN results /\ (results[t.id].ok \/ t.auto)
      BY DEF TasksDone
    <3>1. t.id \in DOMAIN results /\ ById(dag, t.id) = t
      BY <2>2, ByIdInSet DEF IInv, LoopEnds, GraphInv
    <3> QED
      BY <3>1 DEF IInv, CallsInv
  <2> QED
    BY <2>1, <2>2 DEF Inv, DocumentInv, AnswersBacked, AnswerMeansDone
<1> QED
  BY <1>1, RequestInvariant, PTL
=============================================================================
