------------------------------ MODULE PlanExec ------------------------------
(***************************************************************************)
(* The gateway's plan executor (infra/gateway/routes/plan.py).             *)
(*                                                                         *)
(* POST /a2a/plan/submit stores a record under the caller's plan_id in the *)
(* module-level dictionary _plans and starts _execute_dag as a background  *)
(* task.  The executor runs the DAG wave by wave: every task whose         *)
(* dependencies have completed becomes a coroutine (_run_task), and the    *)
(* next wave starts when all of them are over.                             *)
(*                                                                         *)
(* Executor and coroutines find their record through _plans[plan_id]: the  *)
(* executor once, when it first runs, a coroutine when it first runs.  A   *)
(* record is identified here by the submission that created it, so that    *)
(* two submissions with one plan_id are two records under one key.         *)
(*                                                                         *)
(* A step is the code between two awaits.  Tasks of a submission are a set *)
(* (ids are unique within it); the order in which a list is walked shows   *)
(* only when a walk is cut short by an exception, and is then arbitrary.   *)
(***************************************************************************)
EXTENDS Integers, FiniteSets

CONSTANTS
  Subs,      \* accepted submissions
  PlanIds,   \* plan ids
  NoPlan,    \* the plan id of a submission that has not come yet
  TaskIds,   \* task ids
  TasksOf,   \* TasksOf[s]: ids of the submitted tasks
  DepsOf,    \* DepsOf[s][t]: depends_on of task t, any ids
  NoSub      \* stands for a missing _plans entry

ASSUME PlanAssumption ==
  /\ TasksOf \in [Subs -> SUBSET TaskIds]
  /\ DepsOf \in [Subs -> [TaskIds -> SUBSET TaskIds]]
  /\ NoSub \notin Subs /\ NoPlan \notin PlanIds

VARIABLES
  planId,     \* body["plan_id"] of each submission, or the fresh id it was given
  plans,      \* _plans: plan id -> the submission whose record it holds
  planStatus, \* plan["status"] of each record
  taskStatus, \* plan["tasks"][t]["status"] of each record
  exec,       \* the _execute_dag of each submission
  record,     \* its local variable plan
  remaining,  \* its local variable remaining
  completed,  \* its local variable completed
  step,       \* the _run_task coroutines of its current wave
  claims,     \* the submission's token claims: "live" until they expire
  sent        \* history: <<s, t>> handed to call_upstream, with the number of times

vars == <<planId, plans, planStatus, taskStatus, exec, record, remaining,
          completed, step, claims, sent>>

ExecSteps == {"none", "created", "gather", "done", "crashed"}
Coroutine == {"none", "created", "authz", "call", "ok", "error"}
Statuses == {"pending", "running", "completed", "failed"}

TypeOK ==
  /\ planId \in [Subs -> PlanIds \cup {NoPlan}]
  /\ plans \in [PlanIds -> Subs \cup {NoSub}]
  /\ planStatus \in [Subs -> {"none", "running", "completed", "failed"}]
  /\ taskStatus \in [Subs -> [TaskIds -> Statuses]]
  /\ exec \in [Subs -> ExecSteps]
  /\ record \in [Subs -> Subs \cup {NoSub}]
  /\ remaining \in [Subs -> SUBSET TaskIds]
  /\ completed \in [Subs -> SUBSET TaskIds]
  /\ step \in [Subs -> [TaskIds -> Coroutine]]
  /\ claims \in [Subs -> {"live", "expired"}]
  /\ sent \in [Subs -> [TaskIds -> Nat]]

AllTasks(v) == [t \in TaskIds |-> v]

Init ==
  /\ planId = [s \in Subs |-> NoPlan]
  /\ plans = [p \in PlanIds |-> NoSub]
  /\ planStatus = [s \in Subs |-> "none"]
  /\ taskStatus = [s \in Subs |-> AllTasks("pending")]
  /\ exec = [s \in Subs |-> "none"]
  /\ record = [s \in Subs |-> NoSub]
  /\ remaining = [s \in Subs |-> {}]
  /\ completed = [s \in Subs |-> {}]
  /\ step = [s \in Subs |-> AllTasks("none")]
  /\ claims = [s \in Subs |-> "live"]
  /\ sent = [s \in Subs |-> AllTasks(0)]

-----------------------------------------------------------------------------
\* plan_submit after the token is consumed: the record replaces whatever the
\* key held, and the executor is scheduled.
Submit(s, p) ==
  /\ exec[s] = "none"
  /\ planId' = [planId EXCEPT ![s] = p]
  /\ plans' = [plans EXCEPT ![p] = s]
  /\ planStatus' = [planStatus EXCEPT ![s] = "running"]
  /\ exec' = [exec EXCEPT ![s] = "created"]
  /\ remaining' = [remaining EXCEPT ![s] = TasksOf[s]]
  /\ UNCHANGED <<taskStatus, record, completed, step, claims, sent>>

-----------------------------------------------------------------------------
(***************************************************************************)
(* The head of the executor's loop, with the values its locals have then:  *)
(* stop when nothing remains or something failed, or when no task is       *)
(* ready; otherwise start the ready tasks.                                 *)
(***************************************************************************)
\* Faulty variant: a dependency counts as met when it is no longer waiting.
ReadyIfNotWaiting(s, rem, done) == {t \in rem : DepsOf[s][t] \cap rem = {}}

Ready(s, rem, done) == {t \in rem : DepsOf[s][t] \subseteq done}

\* Faulty variant: a failure in the last wave is overlooked.
VerdictByRemaining(rem, failed) == IF rem # {} THEN "failed" ELSE "completed"

Verdict(rem, failed) ==
  IF failed \/ rem # {} THEN "failed" ELSE "completed"

Loop(s, rec, rem, done, failed) ==
  LET ready == IF failed THEN {} ELSE Ready(s, rem, done) IN
  /\ remaining' = [remaining EXCEPT ![s] = rem]
  /\ completed' = [completed EXCEPT ![s] = done]
  /\ step' = [step EXCEPT ![s] =
                [t \in TaskIds |-> IF t \in ready THEN "created" ELSE "none"]]
  /\ \/ /\ ready # {}
        /\ exec' = [exec EXCEPT ![s] = "gather"]
        /\ UNCHANGED planStatus
     \/ /\ ready = {}
        /\ exec' = [exec EXCEPT ![s] = "done"]
        /\ planStatus' = [planStatus EXCEPT ![rec] = Verdict(rem, failed)]

\* The executor runs for the first time.
Begin(s) ==
  /\ exec[s] = "created"
  /\ record' = [record EXCEPT ![s] = plans[planId[s]]]
  /\ Loop(s, plans[planId[s]], TasksOf[s], {}, FALSE)
  /\ UNCHANGED <<planId, plans, taskStatus, claims, sent>>

Wave(s) == {t \in TaskIds : step[s][t] # "none"}

WaveOver(s) == \A t \in Wave(s) : step[s][t] \in {"ok", "error"}

\* The results of a wave enter the record.  A task the record does not know
\* is a KeyError that ends the executor, wherever in the list it stands.
Settle(s, tasks) ==
  taskStatus' = [taskStatus EXCEPT ![record[s]] =
    [t \in TaskIds |->
       IF t \notin tasks THEN @[t]
       ELSE IF step[s][t] = "ok" THEN "completed" ELSE "failed"]]

GatherDone(s) ==
  /\ exec[s] = "gather"
  /\ WaveOver(s)
  /\ \/ /\ Wave(s) \subseteq TasksOf[record[s]]
        /\ Settle(s, Wave(s))
        /\ LET ok == {t \in Wave(s) : step[s][t] = "ok"} IN
           Loop(s, record[s], remaining[s] \ Wave(s), completed[s] \cup ok,
                ok # Wave(s))
     \/ /\ ~(Wave(s) \subseteq TasksOf[record[s]])
        /\ \E walked \in SUBSET (Wave(s) \cap TasksOf[record[s]]) :
             Settle(s, walked)
        /\ exec' = [exec EXCEPT ![s] = "crashed"]
        /\ step' = [step EXCEPT ![s] = AllTasks("none")]
        /\ UNCHANGED <<planStatus, remaining, completed>>
  /\ UNCHANGED <<planId, plans, record, claims, sent>>

-----------------------------------------------------------------------------
(***************************************************************************)
(* _run_task.                                                              *)
(***************************************************************************)
Move(s, t, from, to) ==
  /\ step[s][t] = from
  /\ step' = [step EXCEPT ![s][t] = to]
  /\ UNCHANGED <<planId, plans, planStatus, exec, record, remaining, completed,
                 claims>>

\* Up to the OPA call: the task is marked running in the record now stored
\* under the plan id; a record without the task is a KeyError; an invalid
\* intent or delegation chain raises after the marking.
TaskStart(s, t) ==
  LET rec == plans[planId[s]] IN
  /\ step[s][t] = "created"
  /\ \/ /\ t \in TasksOf[rec]
        /\ Move(s, t, "created", "authz") \/ Move(s, t, "created", "error")
        /\ taskStatus' = [taskStatus EXCEPT ![rec][t] = "running"]
     \/ /\ t \notin TasksOf[rec]
        /\ Move(s, t, "created", "error")
        /\ UNCHANGED taskStatus
  /\ UNCHANGED sent

\* OPA's verdict, its audit record, and the registry lookup.  Expired claims
\* are never allowed; a deny or an unknown agent raises.
TaskAuthz(s, t) ==
  /\ \/ /\ claims[s] = "live"
        /\ Move(s, t, "authz", "call")
        /\ sent' = [sent EXCEPT ![s][t] = @ + 1]
     \/ /\ Move(s, t, "authz", "error")
        /\ UNCHANGED sent
  /\ UNCHANGED taskStatus

\* call_upstream returns; an exception, a status >= 400 or an unreadable body
\* makes the result an exception.
TaskAnswer(s, t) ==
  /\ Move(s, t, "call", "ok") \/ Move(s, t, "call", "error")
  /\ UNCHANGED <<taskStatus, sent>>

-----------------------------------------------------------------------------
\* The environment: the token the plan was submitted with expires.
Expire(s) ==
  /\ claims[s] = "live"
  /\ claims' = [claims EXCEPT ![s] = "expired"]
  /\ UNCHANGED <<planId, plans, planStatus, taskStatus, exec, record, remaining,
                 completed, step, sent>>

RunTask(s, t) == TaskStart(s, t) \/ TaskAuthz(s, t) \/ TaskAnswer(s, t)

Next ==
  \/ \E s \in Subs, p \in PlanIds : Submit(s, p)
  \/ \E s \in Subs : Begin(s) \/ GatherDone(s) \/ Expire(s)
  \/ \E s \in Subs, t \in TaskIds : RunTask(s, t)

Spec == Init /\ [][Next]_vars

\* The event loop runs every ready coroutine, and OPA and upstream calls end
\* within their httpx timeouts.
FairSpec ==
  /\ Spec
  /\ \A s \in Subs : WF_vars(Begin(s)) /\ WF_vars(GatherDone(s))
  /\ \A s \in Subs, t \in TaskIds : WF_vars(RunTask(s, t))

-----------------------------------------------------------------------------
(***************************************************************************)
(* Properties.                                                             *)
(***************************************************************************)

\* A task goes to its agent only after every task it depends on was answered
\* without error in the same execution: also when records are shared, when
\* depends_on names unknown tasks or forms a cycle, and when tasks fail.
DepsFirst ==
  \A s \in Subs : \A t \in TaskIds :
    sent[s][t] > 0 => DepsOf[s][t] \subseteq completed[s]

\* No task is handed to its agent twice by one execution of a plan.
SentOnce == \A s \in Subs : \A t \in TaskIds : sent[s][t] <= 1

\* A plan's tasks reach their agents in an order that its dependencies allow, each
\* at most once, whatever fails and whoever shares the record (plan.py:70-116).
SentInOrder == DepsFirst /\ SentOnce

Unshared(s) == \A q \in Subs \ {s} : planId[q] # planId[s]

\* What a poll of the record of s must find: "completed" with every task
\* completed; "failed" with some task not completed; and no task still running
\* under a final status.
TruthfulRecord(s) ==
  /\ planStatus[s] = "completed" =>
       \A t \in TasksOf[s] : taskStatus[s][t] = "completed"
  /\ planStatus[s] = "failed" =>
       /\ \E t \in TasksOf[s] : taskStatus[s][t] # "completed"
       /\ \A t \in TasksOf[s] : taskStatus[s][t] # "running"

\* The record of a plan whose plan_id nobody else uses is truthful at every
\* moment, whichever of its tasks fail, are refused, or cannot run.  This is what
\* plan.py:118-128 does.  The example in infra/gateway/README.md:170-177, a
\* "completed" record with a "failed" task, is a record that the code never
\* shows: the property rules it out, and code and example disagree.
StatusTruthful == \A s \in Subs : Unshared(s) => TruthfulRecord(s)

\* A plan ends with a final status, unless its plan_id is used again.
PlanEnds ==
  \A s \in Subs :
    exec[s] = "created" ~>
      planStatus[s] \in {"completed", "failed"} \/ ~Unshared(s)
=============================================================================
