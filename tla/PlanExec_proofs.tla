--------------------------- MODULE PlanExec_proofs ---------------------------
(***************************************************************************)
(* Proofs about the plan executor, for any number of submissions, plan ids *)
(* and tasks, and for any dependencies: a cycle, a task that depends on    *)
(* itself and an id that names no task included.                           *)
(***************************************************************************)
EXTENDS PlanExec, TLAPS

-----------------------------------------------------------------------------
(***************************************************************************)
(* The inductive invariant                                                 *)
(***************************************************************************)

\* An accepted submission finds a record under its key, its own or another's.
RecordsKnown ==
  \A s \in Subs :
    /\ exec[s] # "none" => planId[s] \in PlanIds /\ plans[planId[s]] \in Subs
    /\ exec[s] \notin {"none", "created"} => record[s] \in Subs

\* Coroutines exist only while the executor waits for them.
OnlyGathered ==
  \A s \in Subs, t \in TaskIds : step[s][t] # "none" => exec[s] = "gather"

\* A coroutine's task remains, and what it depends on has completed.
WaveReady ==
  \A s \in Subs, t \in TaskIds : step[s][t] # "none" =>
    t \in remaining[s] /\ DepsOf[s][t] \subseteq completed[s]

\* Who has not reached call_upstream was not sent.
Unsent ==
  \A s \in Subs, t \in TaskIds :
    \/ exec[s] \in {"none", "created"}
    \/ step[s][t] \in {"created", "authz"}
    \/ exec[s] = "gather" /\ t \in remaining[s] /\ step[s][t] = "none"
    => sent[s][t] = 0

PlanIInv ==
  TypeOK /\ RecordsKnown /\ OnlyGathered /\ WaveReady /\ Unsent /\ SentInOrder

-----------------------------------------------------------------------------
(***************************************************************************)
(* Each action preserves it                                                *)
(***************************************************************************)

\* A function whose value at one point is replaced by one of its range.
LEMMA ExceptTyped ==
  ASSUME NEW D, NEW R, NEW f \in [D -> R], NEW d, NEW v \in R
  PROVE  [f EXCEPT ![d] = v] \in [D -> R]
  OBVIOUS

\* The same two levels down.
LEMMA ExceptTwiceTyped ==
  ASSUME NEW D, NEW E, NEW R, NEW f \in [D -> [E -> R]], NEW d \in D, NEW e, NEW v \in R
  PROVE  [f EXCEPT ![d][e] = v] \in [D -> [E -> R]]
<1>1. f[d] \in [E -> R]
  OBVIOUS
<1>2. [f[d] EXCEPT ![e] = v] \in [E -> R]
  BY <1>1, ExceptTyped
<1>3. QED
  BY <1>2, ExceptTyped

\* The state that the module starts with (plan.py:28).
LEMMA PlanInit == Init => PlanIInv
  BY PlanAssumption DEF Init, PlanIInv, TypeOK, RecordsKnown, OnlyGathered, WaveReady,
     Unsent, SentInOrder, DepsFirst, SentOnce, AllTasks, ExecSteps, Coroutine, Statuses

\* plan_submit finds nothing of the submission yet (plan.py:32-61).
LEMMA SubmitKeeps ==
  ASSUME PlanIInv, NEW s \in Subs, NEW p \in PlanIds, Submit(s, p)
  PROVE  PlanIInv'
<1>1. TypeOK'
  BY PlanAssumption DEF PlanIInv, TypeOK, Submit, ExecSteps
<1>2. RecordsKnown'
  BY PlanAssumption DEF PlanIInv, TypeOK, RecordsKnown, Submit
<1>3. OnlyGathered' /\ WaveReady'
  BY DEF PlanIInv, TypeOK, OnlyGathered, WaveReady, Submit
<1>4. Unsent' /\ SentInOrder'
  BY DEF PlanIInv, TypeOK, Unsent, OnlyGathered, SentInOrder, DepsFirst, SentOnce, Submit
<1>5. QED
  BY <1>1, <1>2, <1>3, <1>4 DEF PlanIInv

\* What the head of the loop does with the values that its locals have then: it starts
\* the tasks of ready, or writes its verdict into the record rec.
Goes(s, rec, rem, done, ready, verdict, wave) ==
  /\ s \in Subs /\ rec \in Subs /\ rem \subseteq TaskIds /\ done \subseteq TaskIds
  /\ ready \subseteq rem /\ verdict \in {"completed", "failed"}
  /\ wave \in [TaskIds -> {"created", "none"}]
  /\ \A t \in TaskIds : wave[t] = "created" <=> t \in ready
  /\ \A t \in ready : DepsOf[s][t] \subseteq done
  /\ step' = [step EXCEPT ![s] = wave]
  /\ remaining' = [remaining EXCEPT ![s] = rem]
  /\ completed' = [completed EXCEPT ![s] = done]
  /\ \/ ready # {} /\ exec' = [exec EXCEPT ![s] = "gather"] /\ UNCHANGED planStatus
     \/ /\ ready = {} /\ exec' = [exec EXCEPT ![s] = "done"]
        /\ planStatus' = [planStatus EXCEPT ![rec] = verdict]
  /\ record' = [record EXCEPT ![s] = rec]
  /\ UNCHANGED <<planId, plans, claims, sent>>

\* The head of the loop starts tasks that remain, were never sent and have all they
\* depend on (plan.py:98-114).
LEMMA LoopKeeps ==
  ASSUME PlanIInv, NEW s, NEW rec, NEW rem, NEW done, NEW ready, NEW verdict, NEW wave,
         Goes(s, rec, rem, done, ready, verdict, wave),
         exec[s] # "none",
         \A t \in rem : sent[s][t] = 0,
         \A t \in TaskIds : sent[s][t] > 0 => DepsOf[s][t] \subseteq done,
         taskStatus' \in [Subs -> [TaskIds -> Statuses]]
  PROVE  PlanIInv'
<1>1. /\ s \in Subs /\ rec \in Subs /\ rem \subseteq TaskIds /\ done \subseteq TaskIds
      /\ verdict \in {"completed", "failed"}
      /\ record' = [record EXCEPT ![s] = rec]
      /\ UNCHANGED <<planId, plans, claims, sent>>
  BY DEF Goes
<1>2. /\ step' = [step EXCEPT ![s] = wave]
      /\ remaining' = [remaining EXCEPT ![s] = rem]
      /\ completed' = [completed EXCEPT ![s] = done]
  BY DEF Goes
<1>3. \/ ready # {} /\ exec' = [exec EXCEPT ![s] = "gather"] /\ UNCHANGED planStatus
      \/ /\ ready = {} /\ exec' = [exec EXCEPT ![s] = "done"]
         /\ planStatus' = [planStatus EXCEPT ![rec] = verdict]
  BY DEF Goes
<1>4. \A t \in ready : t \in rem /\ DepsOf[s][t] \subseteq done
  BY DEF Goes
<1>5. wave \in [TaskIds -> {"created", "none"}]
  BY DEF Goes
<1>6. \A t \in TaskIds : wave[t] # "none" <=> t \in ready
  BY DEF Goes
<1>7. TypeOK'
  <2>1. step' \in [Subs -> [TaskIds -> Coroutine]]
    <3>1. wave \in [TaskIds -> Coroutine]
      BY <1>5 DEF Coroutine
    <3>2. QED
      BY <1>1, <1>2, <3>1, ExceptTyped DEF PlanIInv, TypeOK
  <2>2. /\ exec' \in [Subs -> ExecSteps]
        /\ planStatus' \in [Subs -> {"none", "running", "completed", "failed"}]
    <3>1. /\ exec \in [Subs -> ExecSteps]
          /\ planStatus \in [Subs -> {"none", "running", "completed", "failed"}]
      BY DEF PlanIInv, TypeOK
    <3>2. {"gather", "done"} \subseteq ExecSteps
      BY DEF ExecSteps
    <3>3. verdict \in {"none", "running", "completed", "failed"}
      BY <1>1
    <3>4. [exec EXCEPT ![s] = "gather"] \in [Subs -> ExecSteps]
          /\ [exec EXCEPT ![s] = "done"] \in [Subs -> ExecSteps]
      BY <3>1, <3>2, ExceptTyped
    <3>5. [planStatus EXCEPT ![rec] = verdict]
             \in [Subs -> {"none", "running", "completed", "failed"}]
      BY <3>1, <3>3, ExceptTyped
    <3>6. QED
      BY <1>3, <3>1, <3>4, <3>5
  <2>3. /\ remaining' \in [Subs -> SUBSET TaskIds]
        /\ completed' \in [Subs -> SUBSET TaskIds]
        /\ record' \in [Subs -> Subs \cup {NoSub}]
    BY <1>1, <1>2 DEF PlanIInv, TypeOK
  <2>4. QED
    BY <1>1, <2>1, <2>2, <2>3 DEF PlanIInv, TypeOK
<1>8. RecordsKnown'
  BY <1>1, <1>3 DEF PlanIInv, TypeOK, RecordsKnown
<1>9. OnlyGathered' /\ WaveReady'
  BY <1>1, <1>2, <1>3, <1>4, <1>6 DEF PlanIInv, TypeOK, OnlyGathered, WaveReady
<1>10. Unsent'
  <2> SUFFICES ASSUME NEW q \in Subs, NEW t \in TaskIds,
                      \/ exec'[q] \in {"none", "created"}
                      \/ step'[q][t] \in {"created", "authz"}
                      \/ /\ exec'[q] = "gather" /\ t \in remaining'[q]
                         /\ step'[q][t] = "none"
               PROVE  sent[q][t] = 0
    BY <1>1 DEF Unsent
  <2>1. CASE q # s
    BY <1>1, <1>2, <1>3, <2>1 DEF PlanIInv, TypeOK, Unsent
  <2>2. CASE q = s
    BY <1>1, <1>2, <1>3, <1>4, <1>5, <1>6, <2>2 DEF PlanIInv, TypeOK
  <2>3. QED
    BY <2>1, <2>2
<1>11. SentInOrder'
  BY <1>1, <1>2 DEF PlanIInv, TypeOK, SentInOrder, DepsFirst, SentOnce
<1>12. QED
  BY <1>7, <1>8, <1>9, <1>10, <1>11 DEF PlanIInv

\* The executor runs for the first time, on the record it finds (plan.py:82-98).
LEMMA BeginKeeps ==
  ASSUME PlanIInv, NEW s \in Subs, Begin(s)
  PROVE  PlanIInv'
<1>1. exec[s] = "created" /\ plans[planId[s]] \in Subs
  BY DEF PlanIInv, RecordsKnown, Begin
<1>2. TasksOf[s] \in SUBSET TaskIds
  BY PlanAssumption
<1>3. \A t \in TaskIds : sent[s][t] = 0
  BY <1>1 DEF PlanIInv, Unsent
<1>4. taskStatus' \in [Subs -> [TaskIds -> Statuses]]
  BY DEF PlanIInv, TypeOK, Begin
<1> DEFINE ready == Ready(s, TasksOf[s], {})
           verdict == Verdict(TasksOf[s], FALSE)
           wave == [t \in TaskIds |-> IF t \in ready THEN "created" ELSE "none"]
<1>5. /\ step' = [step EXCEPT ![s] = wave]
      /\ remaining' = [remaining EXCEPT ![s] = TasksOf[s]]
      /\ completed' = [completed EXCEPT ![s] = {}]
      /\ record' = [record EXCEPT ![s] = plans[planId[s]]]
      /\ UNCHANGED <<planId, plans, claims, sent>>
  BY DEF Begin, Loop
<1>6. \/ ready # {} /\ exec' = [exec EXCEPT ![s] = "gather"] /\ UNCHANGED planStatus
      \/ /\ ready = {} /\ exec' = [exec EXCEPT ![s] = "done"]
         /\ planStatus' = [planStatus EXCEPT ![plans[planId[s]]] = verdict]
  BY DEF Begin, Loop
<1>7. /\ ready \in SUBSET TasksOf[s]
      /\ \A t \in ready : DepsOf[s][t] \subseteq {}
  BY DEF Ready
<1>8. verdict \in {"completed", "failed"}
  BY DEF Verdict
<1>9. /\ wave \in [TaskIds -> {"created", "none"}]
      /\ \A t \in TaskIds : wave[t] = "created" <=> t \in ready
  OBVIOUS
<1>10. /\ {} \in SUBSET TaskIds /\ exec[s] # "none"
       /\ \A t \in TasksOf[s] : sent[s][t] = 0
       /\ \A t \in TaskIds : sent[s][t] > 0 => DepsOf[s][t] \subseteq {}
  BY <1>1, <1>2, <1>3
<1> HIDE DEF ready, verdict, wave
<1>11. Goes(s, plans[planId[s]], TasksOf[s], {}, ready, verdict, wave)
  BY <1>1, <1>2, <1>5, <1>6, <1>7, <1>8, <1>9, <1>10 DEF Goes
<1>12. QED
  BY <1>4, <1>10, <1>11, LoopKeeps

\* What enters a record are statuses (plan.py:115-126).
LEMMA SettleTyped ==
  ASSUME TypeOK, NEW s \in Subs, NEW tasks, record[s] \in Subs, Settle(s, tasks)
  PROVE  taskStatus' \in [Subs -> [TaskIds -> Statuses]]
<1> DEFINE new == [t \in TaskIds |->
                     IF t \notin tasks THEN taskStatus[record[s]][t]
                     ELSE IF step[s][t] = "ok" THEN "completed" ELSE "failed"]
<1>1. new \in [TaskIds -> Statuses]
  BY DEF TypeOK, Statuses
<1>2. taskStatus' = [taskStatus EXCEPT ![record[s]] = new]
  BY DEF Settle
<1> HIDE DEF new
<1>3. QED
  BY <1>1, <1>2 DEF TypeOK

\* The results of a wave are collected: the next wave begins, or a task that the
\* record does not know ends the executor (plan.py:110-128).
LEMMA GatherKeeps ==
  ASSUME PlanIInv, NEW s \in Subs, GatherDone(s)
  PROVE  PlanIInv'
<1>1. exec[s] = "gather" /\ record[s] \in Subs
  BY DEF PlanIInv, RecordsKnown, GatherDone
<1>2. UNCHANGED <<planId, plans, record, claims, sent>>
  BY DEF GatherDone
<1> DEFINE ok == {t \in Wave(s) : step[s][t] = "ok"}
<1>3. CASE /\ Settle(s, Wave(s))
           /\ Loop(s, record[s], remaining[s] \ Wave(s), completed[s] \cup ok,
                   ok # Wave(s))
  <2>1. /\ remaining[s] \ Wave(s) \in SUBSET TaskIds
        /\ completed[s] \cup ok \in SUBSET TaskIds
    BY DEF PlanIInv, TypeOK, Wave
  <2>2. \A t \in remaining[s] \ Wave(s) : sent[s][t] = 0
    BY <1>1 DEF PlanIInv, TypeOK, Unsent, Wave
  <2>3. \A t \in TaskIds : sent[s][t] > 0 => DepsOf[s][t] \subseteq completed[s] \cup ok
    BY DEF PlanIInv, SentInOrder, DepsFirst
  <2>4. taskStatus' \in [Subs -> [TaskIds -> Statuses]]
    BY <1>1, <1>3, SettleTyped DEF PlanIInv
  <2>5. record' = [record EXCEPT ![s] = record[s]]
    BY <1>2 DEF PlanIInv, TypeOK
  <2> DEFINE rem == remaining[s] \ Wave(s)
             done == completed[s] \cup ok
             ready == IF ok # Wave(s) THEN {} ELSE Ready(s, rem, done)
             verdict == Verdict(rem, ok # Wave(s))
             wave == [t \in TaskIds |-> IF t \in ready THEN "created" ELSE "none"]
  <2>6. /\ step' = [step EXCEPT ![s] = wave]
        /\ remaining' = [remaining EXCEPT ![s] = rem]
        /\ completed' = [completed EXCEPT ![s] = done]
    BY <1>3 DEF Loop
  <2>7. \/ ready # {} /\ exec' = [exec EXCEPT ![s] = "gather"] /\ UNCHANGED planStatus
        \/ /\ ready = {} /\ exec' = [exec EXCEPT ![s] = "done"]
           /\ planStatus' = [planStatus EXCEPT ![record[s]] = verdict]
    BY <1>3 DEF Loop
  <2>8. ready \in SUBSET rem /\ \A t \in ready : DepsOf[s][t] \subseteq done
    BY DEF Ready
  <2>9. verdict \in {"completed", "failed"}
    BY DEF Verdict
  <2>10. /\ wave \in [TaskIds -> {"created", "none"}]
         /\ \A t \in TaskIds : wave[t] = "created" <=> t \in ready
    OBVIOUS
  <2>11. exec[s] # "none"
    BY <1>1
  <2> HIDE DEF ok, rem, done, ready, verdict, wave
  <2>12. rem \in SUBSET TaskIds /\ done \in SUBSET TaskIds
    BY <2>1 DEF rem, done
  <2>13. /\ \A t \in rem : sent[s][t] = 0
         /\ \A t \in TaskIds : sent[s][t] > 0 => DepsOf[s][t] \subseteq done
    BY <2>2, <2>3 DEF rem, done
  <2>14. Goes(s, record[s], rem, done, ready, verdict, wave)
    BY <1>1, <1>2, <2>5, <2>6, <2>7, <2>8, <2>9, <2>10, <2>12 DEF Goes
  <2>15. QED
    BY <2>4, <2>11, <2>13, <2>14, LoopKeeps
<1>4. CASE /\ \E walked \in SUBSET (Wave(s) \cap TasksOf[record[s]]) : Settle(s, walked)
           /\ exec' = [exec EXCEPT ![s] = "crashed"]
           /\ step' = [step EXCEPT ![s] = AllTasks("none")]
           /\ UNCHANGED <<planStatus, remaining, completed>>
  <2>1. taskStatus' \in [Subs -> [TaskIds -> Statuses]]
    BY <1>1, <1>4, SettleTyped DEF PlanIInv
  <2>2. TypeOK'
    <3>1. AllTasks("none") \in [TaskIds -> Coroutine]
      BY DEF AllTasks, Coroutine
    <3>2. /\ step' \in [Subs -> [TaskIds -> Coroutine]]
          /\ exec' \in [Subs -> ExecSteps]
      BY <1>4, <3>1 DEF PlanIInv, TypeOK, ExecSteps
    <3>3. QED
      BY <1>2, <1>4, <2>1, <3>2 DEF PlanIInv, TypeOK
  <2>3. RecordsKnown'
    BY <1>1, <1>2, <1>4 DEF PlanIInv, TypeOK, RecordsKnown
  <2>4. OnlyGathered' /\ WaveReady'
    BY <1>4 DEF PlanIInv, TypeOK, OnlyGathered, WaveReady, AllTasks
  <2>5. Unsent' /\ SentInOrder'
    BY <1>2, <1>4 DEF PlanIInv, TypeOK, Unsent, SentInOrder, DepsFirst, SentOnce, AllTasks
  <2>6. QED
    BY <2>2, <2>3, <2>4, <2>5 DEF PlanIInv
<1>5. QED
  BY <1>3, <1>4 DEF GatherDone

-----------------------------------------------------------------------------
\* A coroutine goes on within its wave: only the step to call_upstream sends, and
\* only from a step before it (plan.py:139-214).
LEMMA MoveKeeps ==
  ASSUME PlanIInv, NEW s \in Subs, NEW t \in TaskIds,
         NEW from \in Coroutine \ {"none"}, NEW to \in Coroutine \ {"none", "created"},
         Move(s, t, from, to),
         taskStatus' \in [Subs -> [TaskIds -> Statuses]],
         \/ from = "created" /\ to \in {"authz", "error"} /\ UNCHANGED sent
         \/ from = "authz" /\ to = "call" /\ sent' = [sent EXCEPT ![s][t] = @ + 1]
         \/ to \in {"ok", "error"} /\ UNCHANGED sent
  PROVE  PlanIInv'
<1>1. /\ step[s][t] = from /\ step' = [step EXCEPT ![s][t] = to]
      /\ UNCHANGED <<planId, plans, planStatus, exec, record, remaining, completed, claims>>
  BY DEF Move
<1>2. exec[s] = "gather" /\ t \in remaining[s] /\ DepsOf[s][t] \subseteq completed[s]
  BY <1>1 DEF PlanIInv, OnlyGathered, WaveReady
<1>3. from \in {"created", "authz"} => sent[s][t] = 0
  BY <1>1 DEF PlanIInv, Unsent
<1>4. TypeOK'
  <2>1. step' \in [Subs -> [TaskIds -> Coroutine]]
    BY <1>1, ExceptTwiceTyped DEF PlanIInv, TypeOK
  <2>2. sent' \in [Subs -> [TaskIds -> Nat]]
    <3>1. sent[s][t] \in Nat /\ sent[s][t] + 1 \in Nat
      BY DEF PlanIInv, TypeOK
    <3>2. [sent EXCEPT ![s][t] = sent[s][t] + 1] \in [Subs -> [TaskIds -> Nat]]
      BY <3>1, ExceptTwiceTyped DEF PlanIInv, TypeOK
    <3>3. QED
      BY <3>2 DEF PlanIInv, TypeOK
  <2>3. QED
    BY <1>1, <2>1, <2>2 DEF PlanIInv, TypeOK
<1>5. RecordsKnown'
  BY <1>1 DEF PlanIInv, RecordsKnown
<1>6. OnlyGathered' /\ WaveReady'
  BY <1>1, <1>2 DEF PlanIInv, TypeOK, OnlyGathered, WaveReady
<1>7. Unsent'
  BY <1>1, <1>2, <1>3 DEF PlanIInv, TypeOK, Unsent
<1>8. SentInOrder'
  <2>1. \A q \in Subs, u \in TaskIds :
          \/ sent'[q][u] = sent[q][u]
          \/ q = s /\ u = t /\ sent'[q][u] = 1
    <3>1. CASE UNCHANGED sent
      BY <3>1
    <3>2. CASE from = "authz" /\ sent' = [sent EXCEPT ![s][t] = @ + 1]
      <4>1. sent \in [Subs -> [TaskIds -> Nat]] /\ sent[s][t] + 1 = 1
        BY <1>3, <3>2 DEF PlanIInv, TypeOK
      <4>2. sent' = [sent EXCEPT ![s][t] = 1]
        BY <3>2, <4>1
      <4>3. \A q \in Subs : q # s => sent'[q] = sent[q]
        BY <4>1, <4>2
      <4>4. sent'[s] = [sent[s] EXCEPT ![t] = 1]
        BY <4>1, <4>2
      <4>5. sent[s] \in [TaskIds -> Nat]
        BY <4>1
      <4>6. sent'[s][t] = 1 /\ \A u \in TaskIds : u # t => sent'[s][u] = sent[s][u]
        BY <4>4, <4>5
      <4>7. QED
        BY <4>3, <4>6
    <3>3. QED
      BY <3>1, <3>2
  <2>2. QED
    BY <1>1, <1>2, <2>1 DEF PlanIInv, SentInOrder, DepsFirst, SentOnce
<1>9. QED
  BY <1>4, <1>5, <1>6, <1>7, <1>8 DEF PlanIInv

\* One task, from its coroutine's first step to its answer (plan.py:139-214).
LEMMA RunTaskKeeps ==
  ASSUME PlanIInv, NEW s \in Subs, NEW t \in TaskIds, RunTask(s, t)
  PROVE  PlanIInv'
<1>1. {"created", "authz", "call"} \subseteq Coroutine \ {"none"}
      /\ {"authz", "call", "ok", "error"} \subseteq Coroutine \ {"none", "created"}
  BY DEF Coroutine
<1>2. CASE TaskStart(s, t)
  <2>1. step[s][t] = "created" /\ plans[planId[s]] \in Subs
    BY <1>2 DEF PlanIInv, RecordsKnown, OnlyGathered, TaskStart
  <2>2. taskStatus' \in [Subs -> [TaskIds -> Statuses]]
    <3>1. taskStatus \in [Subs -> [TaskIds -> Statuses]]
      BY DEF PlanIInv, TypeOK
    <3>2. [taskStatus EXCEPT ![plans[planId[s]]][t] = "running"]
             \in [Subs -> [TaskIds -> Statuses]]
      BY <2>1, <3>1, ExceptTwiceTyped DEF Statuses
    <3>3. QED
      BY <1>2, <3>1, <3>2 DEF TaskStart
  <2>3. UNCHANGED sent /\ \E to \in {"authz", "error"} : Move(s, t, "created", to)
    BY <1>2 DEF TaskStart
  <2>4. QED
    BY <1>1, <2>2, <2>3, MoveKeeps
<1>3. CASE TaskAuthz(s, t)
  <2>1. taskStatus' \in [Subs -> [TaskIds -> Statuses]]
    BY <1>3 DEF PlanIInv, TypeOK, TaskAuthz
  <2>2. \/ Move(s, t, "authz", "call") /\ sent' = [sent EXCEPT ![s][t] = @ + 1]
        \/ Move(s, t, "authz", "error") /\ UNCHANGED sent
    BY <1>3 DEF TaskAuthz
  <2>3. QED
    BY <1>1, <2>1, <2>2, MoveKeeps
<1>4. CASE TaskAnswer(s, t)
  <2>1. taskStatus' \in [Subs -> [TaskIds -> Statuses]]
    BY <1>4 DEF PlanIInv, TypeOK, TaskAnswer
  <2>2. UNCHANGED sent /\ \E to \in {"ok", "error"} : Move(s, t, "call", to)
    BY <1>4 DEF TaskAnswer
  <2>3. QED
    BY <1>1, <2>1, <2>2, MoveKeeps
<1>5. QED
  BY <1>2, <1>3, <1>4 DEF RunTask

\* The token expires beside all this.
LEMMA ExpireKeeps ==
  ASSUME PlanIInv, NEW s \in Subs, Expire(s)
  PROVE  PlanIInv'
  BY DEF PlanIInv, TypeOK, RecordsKnown, OnlyGathered, WaveReady, Unsent, SentInOrder,
     DepsFirst, SentOnce, Expire

\* A step that changes nothing.
LEMMA StutterKeeps ==
  ASSUME PlanIInv, UNCHANGED vars
  PROVE  PlanIInv'
  BY DEF PlanIInv, TypeOK, RecordsKnown, OnlyGathered, WaveReady, Unsent, SentInOrder,
     DepsFirst, SentOnce, vars

-----------------------------------------------------------------------------
(***************************************************************************)
(* The status of a record nobody else uses                                 *)
(***************************************************************************)

Submitted(s) == exec[s] # "none"

\* A record, and who holds it, carry one plan id; who has not come carries none.
RecordsOwned ==
  /\ \A q \in Subs : ~Submitted(q) => planId[q] = NoPlan
  /\ \A p \in PlanIds : plans[p] \in Subs => Submitted(plans[p]) /\ planId[plans[p]] = p
  /\ \A q \in Subs : exec[q] \notin {"none", "created"} =>
       Submitted(record[q]) /\ planId[record[q]] = planId[q]

\* What the record of s says while its executor is before, at or past the loop.
Told(s) ==
  /\ exec[s] \in {"created", "gather", "crashed"} => planStatus[s] = "running"
  /\ exec[s] = "created" => \A t \in TaskIds : taskStatus[s][t] = "pending"
  /\ exec[s] = "gather" =>
       /\ remaining[s] \subseteq TasksOf[s]
       /\ TasksOf[s] \subseteq remaining[s] \cup completed[s]
       /\ completed[s] \subseteq TasksOf[s] \ remaining[s]
       /\ \A t \in completed[s] : taskStatus[s][t] = "completed"
       /\ \A t \in remaining[s] : step[s][t] = "none" => taskStatus[s][t] = "pending"
  /\ exec[s] = "done" => TruthfulRecord(s)

Untold(s) ==
  planStatus[s] = "none" /\ \A t \in TaskIds : taskStatus[s][t] = "pending"

OwnIInv ==
  /\ RecordsOwned
  /\ \A s \in Subs : IF Submitted(s) THEN Unshared(s) => Told(s) ELSE Untold(s)

\* A record nobody else uses is the one its submission finds, and no other touches it.
LEMMA OwnRecord ==
  ASSUME PlanIInv, RecordsOwned, NEW s \in Subs, ~Submitted(s) \/ Unshared(s),
         NEW q \in Subs, Submitted(q)
  PROVE  /\ plans[planId[q]] = s <=> q = s
         /\ exec[q] # "created" => (record[q] = s <=> q = s)
<1>1. /\ planId[q] \in PlanIds /\ plans[planId[q]] \in Subs
      /\ exec[q] # "created" => record[q] \in Subs
  BY DEF PlanIInv, RecordsKnown, Submitted
<1>2. /\ Submitted(plans[planId[q]]) /\ planId[plans[planId[q]]] = planId[q]
      /\ exec[q] # "created" => Submitted(record[q]) /\ planId[record[q]] = planId[q]
  BY <1>1 DEF RecordsOwned, Submitted
<1>3. CASE ~Submitted(s)
  BY <1>2, <1>3
<1>4. CASE Unshared(s)
  BY <1>1, <1>2, <1>4 DEF Unshared
<1>5. QED
  BY <1>3, <1>4

\* Records keep their owners: a new submission takes its key over with a record of its
\* own (plan.py:48-58).
LEMMA OwnedKeeps ==
  ASSUME PlanIInv, RecordsOwned, [Next]_vars
  PROVE  RecordsOwned'
<1>1. CASE \E s \in Subs, p \in PlanIds : Submit(s, p)
  <2>1. PICK s \in Subs, p \in PlanIds : Submit(s, p)
    BY <1>1
  <2>2. /\ planId' = [planId EXCEPT ![s] = p] /\ plans' = [plans EXCEPT ![p] = s]
        /\ exec' = [exec EXCEPT ![s] = "created"] /\ exec[s] = "none"
        /\ record' = record
    BY <2>1 DEF Submit
  <2>3. QED
    BY <2>2 DEF PlanIInv, TypeOK, RecordsKnown, RecordsOwned, Submitted
<1>2. CASE UNCHANGED <<planId, plans, exec, record>>
  BY <1>2 DEF RecordsOwned, Submitted
<1>3. CASE \E s \in Subs : Begin(s)
  <2>1. PICK s \in Subs : Begin(s)
    BY <1>3
  <2>2. /\ exec[s] = "created" /\ UNCHANGED <<planId, plans>>
        /\ record' = [record EXCEPT ![s] = plans[planId[s]]]
        /\ \E x \in {"gather", "done"} : exec' = [exec EXCEPT ![s] = x]
    BY <2>1 DEF Begin, Loop
  <2>3. planId[s] \in PlanIds /\ plans[planId[s]] \in Subs
    BY <2>2 DEF PlanIInv, RecordsKnown
  <2>4. QED
    BY <2>2, <2>3 DEF PlanIInv, TypeOK, RecordsKnown, RecordsOwned, Submitted
<1>4. CASE \E s \in Subs : GatherDone(s)
  <2>1. PICK s \in Subs : GatherDone(s)
    BY <1>4
  <2>2. /\ exec[s] = "gather" /\ UNCHANGED <<planId, plans, record>>
        /\ \E x \in {"gather", "done", "crashed"} : exec' = [exec EXCEPT ![s] = x]
    BY <2>1 DEF GatherDone, Loop
  <2>3. QED
    BY <2>2 DEF PlanIInv, TypeOK, RecordsKnown, RecordsOwned, Submitted
<1>5. QED
  BY ZenonT(30), <1>1, <1>2, <1>3, <1>4
  DEF Next, Expire, RunTask, TaskStart, TaskAuthz, TaskAnswer, Move, vars

\* What a step of another leaves alone of s.
Same(s) ==
  /\ exec'[s] = exec[s] /\ remaining'[s] = remaining[s]
  /\ completed'[s] = completed[s] /\ step'[s] = step[s]
  /\ taskStatus'[s] = taskStatus[s] /\ planStatus'[s] = planStatus[s]

\* What is told of a record depends on nothing else.
LEMMA SameKeeps ==
  ASSUME NEW s, Same(s)
  PROVE  /\ Submitted(s)' <=> Submitted(s)
         /\ Told(s) => Told(s)'
         /\ Untold(s) => Untold(s)'
  BY DEF Same, Submitted, Told, Untold, TruthfulRecord

\* Another's step leaves a record alone that is not shared, or not there yet.
LEMMA Elsewhere ==
  ASSUME PlanIInv, RecordsOwned, NEW s \in Subs, ~Submitted(s) \/ Unshared(s),
         NEW q \in Subs \ {s},
         \/ \E p \in PlanIds : Submit(q, p)
         \/ Begin(q) \/ GatherDone(q)
         \/ \E t \in TaskIds : RunTask(q, t)
  PROVE  Same(s)
<1>1. CASE \E p \in PlanIds : Submit(q, p)
  BY <1>1 DEF PlanIInv, TypeOK, Submit, Same
<1>2. CASE Begin(q)
  <2>1. plans[planId[q]] # s /\ q # s
    BY <1>2, OwnRecord DEF Begin, Submitted
  <2>2. QED
    BY <1>2, <2>1 DEF PlanIInv, TypeOK, Begin, Loop, Same
<1>3. CASE GatherDone(q)
  <2>1. record[q] # s /\ q # s
    BY <1>3, OwnRecord DEF GatherDone, Submitted
  <2>2. \A tasks : Settle(q, tasks) => taskStatus'[s] = taskStatus[s]
    BY <2>1 DEF PlanIInv, TypeOK, Settle
  <2>3. QED
    BY <1>3, <2>1, <2>2 DEF PlanIInv, TypeOK, GatherDone, Loop, Same
<1>4. CASE \E t \in TaskIds : RunTask(q, t)
  <2>1. PICK t \in TaskIds : RunTask(q, t)
    BY <1>4
  <2>2. UNCHANGED <<planStatus, exec, remaining, completed>>
        /\ \E to : step[q][t] # "none" /\ step' = [step EXCEPT ![q][t] = to]
    BY <2>1 DEF RunTask, TaskStart, TaskAuthz, TaskAnswer, Move
  <2>3. Submitted(q)
    BY <2>2 DEF PlanIInv, OnlyGathered, Submitted
  <2>4. plans[planId[q]] # s
    BY <2>3, OwnRecord
  <2>5. \/ UNCHANGED taskStatus
        \/ taskStatus' = [taskStatus EXCEPT ![plans[planId[q]]][t] = "running"]
    BY <2>1 DEF RunTask, TaskStart, TaskAuthz, TaskAnswer
  <2>6. taskStatus'[s] = taskStatus[s]
    BY <2>4, <2>5 DEF PlanIInv, TypeOK
  <2>7. step'[s] = step[s]
    BY <2>2 DEF PlanIInv, TypeOK
  <2>8. QED
    BY <2>2, <2>6, <2>7 DEF Same
<1>5. QED
  BY <1>1, <1>2, <1>3, <1>4

\* A new record says running, and pending of every task (plan.py:48-54).
LEMMA SubmitTold ==
  ASSUME PlanIInv, OwnIInv, NEW s \in Subs, NEW p \in PlanIds, Submit(s, p)
  PROVE  Told(s)'
<1>1. Untold(s)
  BY DEF OwnIInv, Submitted, Submit
<1>2. exec'[s] = "created" /\ planStatus'[s] = "running" /\ taskStatus' = taskStatus
  BY DEF PlanIInv, TypeOK, Submit
<1>3. QED
  BY <1>1, <1>2 DEF Told, Untold

\* A plan none of whose tasks can start fails with tasks pending, and an empty one
\* completes (plan.py:93-105, 128).
LEMMA BeginTold ==
  ASSUME PlanIInv, OwnIInv, NEW s \in Subs, Unshared(s), Begin(s)
  PROVE  Told(s)'
<1>1. exec[s] = "created" /\ plans[planId[s]] = s /\ TasksOf[s] \subseteq TaskIds
  BY PlanAssumption, OwnRecord DEF OwnIInv, Begin, Submitted
<1>2. planStatus[s] = "running" /\ \A t \in TaskIds : taskStatus[s][t] = "pending"
  BY <1>1 DEF OwnIInv, Told, Submitted
<1>3. taskStatus' = taskStatus
  BY DEF Begin
<1>4. remaining'[s] = TasksOf[s] /\ completed'[s] = {}
  BY DEF PlanIInv, TypeOK, Begin, Loop
<1>5. \/ exec'[s] = "gather" /\ planStatus'[s] = "running"
      \/ exec'[s] = "done" /\ planStatus'[s] = Verdict(TasksOf[s], FALSE)
  BY <1>1, <1>2 DEF PlanIInv, TypeOK, Begin, Loop
<1>6. CASE exec'[s] = "gather" /\ planStatus'[s] = "running"
  BY <1>1, <1>2, <1>3, <1>4, <1>6 DEF Told
<1>7. CASE exec'[s] = "done" /\ planStatus'[s] = Verdict(TasksOf[s], FALSE)
  BY <1>1, <1>2, <1>3, <1>7 DEF Told, TruthfulRecord, Verdict
<1>8. QED
  BY <1>5, <1>6, <1>7

\* A wave's results enter the record: tasks outside the wave keep what they had, so
\* a plan ends completed with every task, or failed with none running
\* (plan.py:113-128).
LEMMA GatherTold ==
  ASSUME PlanIInv, OwnIInv, NEW s \in Subs, Unshared(s), GatherDone(s)
  PROVE  Told(s)'
<1> DEFINE ok == {t \in Wave(s) : step[s][t] = "ok"}
           rem == remaining[s] \ Wave(s)
<1>1. exec[s] = "gather" /\ record[s] = s /\ TasksOf[s] \subseteq TaskIds
  BY PlanAssumption, OwnRecord DEF OwnIInv, GatherDone, Submitted
<1>2. /\ planStatus[s] = "running"
      /\ remaining[s] \subseteq TasksOf[s]
      /\ TasksOf[s] \subseteq remaining[s] \cup completed[s]
      /\ completed[s] \subseteq TasksOf[s] \ remaining[s]
      /\ \A t \in completed[s] : taskStatus[s][t] = "completed"
      /\ \A t \in remaining[s] : step[s][t] = "none" => taskStatus[s][t] = "pending"
  BY <1>1 DEF OwnIInv, Told, Submitted
<1>3. Wave(s) \subseteq remaining[s]
  BY DEF PlanIInv, WaveReady, Wave
<1>4. Wave(s) \subseteq TasksOf[record[s]]
  BY <1>1, <1>2, <1>3
<1>5. /\ Settle(s, Wave(s))
      /\ Loop(s, record[s], rem, completed[s] \cup ok, ok # Wave(s))
  BY <1>4 DEF GatherDone
<1>6. taskStatus'[s] =
        [t \in TaskIds |-> IF t \notin Wave(s) THEN taskStatus[s][t]
                           ELSE IF step[s][t] = "ok" THEN "completed" ELSE "failed"]
  BY <1>1, <1>5 DEF PlanIInv, TypeOK, Settle
<1>7. /\ \A t \in completed[s] \cup ok : taskStatus'[s][t] = "completed"
      /\ \A t \in rem : taskStatus'[s][t] = "pending"
      /\ \A t \in Wave(s) \ ok : taskStatus'[s][t] = "failed"
  <2>1. completed[s] \cap Wave(s) = {}
    BY <1>2, <1>3
  <2>2. \A t \in rem : t \in TaskIds /\ t \notin Wave(s) /\ step[s][t] = "none"
    BY <1>1, <1>2 DEF Wave
  <2>3. completed[s] \subseteq TaskIds /\ Wave(s) \subseteq TaskIds
    BY <1>1, <1>2 DEF Wave
  <2>4. QED
    BY <1>2, <1>6, <2>1, <2>2, <2>3
<1>8. /\ remaining'[s] = rem /\ completed'[s] = completed[s] \cup ok
  BY <1>5 DEF PlanIInv, TypeOK, Loop
<1>9. \/ exec'[s] = "gather" /\ planStatus'[s] = "running"
      \/ exec'[s] = "done" /\ planStatus'[s] = Verdict(rem, ok # Wave(s))
  BY <1>1, <1>2, <1>5 DEF PlanIInv, TypeOK, Loop
<1>10. /\ ok \subseteq Wave(s) /\ rem \subseteq TasksOf[s]
       /\ TasksOf[s] \subseteq rem \cup completed[s] \cup Wave(s)
       /\ completed[s] \cup ok \subseteq TasksOf[s] \ rem
       /\ Wave(s) \subseteq TasksOf[s]
  BY <1>2, <1>3
<1> HIDE DEF ok, rem
<1>11. CASE exec'[s] = "gather" /\ planStatus'[s] = "running"
  <2>1. ok = Wave(s)
    BY <1>5, <1>11 DEF PlanIInv, TypeOK, Loop
  <2>2. QED
    BY <1>7, <1>8, <1>10, <1>11, <2>1 DEF Told
<1>12. CASE exec'[s] = "done" /\ planStatus'[s] = Verdict(rem, ok # Wave(s))
  <2>1. CASE ok = Wave(s) /\ rem = {}
    BY <1>7, <1>10, <1>12, <2>1 DEF Told, TruthfulRecord, Verdict
  <2>2. CASE ok # Wave(s) \/ rem # {}
    <3>1. planStatus'[s] = "failed"
      BY <1>12, <2>2 DEF Verdict
    <3>2. \E t \in TasksOf[s] : taskStatus'[s][t] # "completed"
      <4>1. CASE ok # Wave(s)
        BY <1>7, <1>10, <4>1
      <4>2. CASE rem # {}
        BY <1>7, <1>10, <4>2
      <4>3. QED
        BY <2>2, <4>1, <4>2
    <3>3. \A t \in TasksOf[s] : taskStatus'[s][t] # "running"
      BY <1>7, <1>10
    <3>4. QED
      BY <1>12, <3>1, <3>2, <3>3 DEF Told, TruthfulRecord
  <2>3. QED
    BY <2>1, <2>2
<1>13. QED
  BY <1>9, <1>11, <1>12

\* A coroutine marks its own task, which remains, and no other (plan.py:139-150).
LEMMA RunTold ==
  ASSUME PlanIInv, OwnIInv, NEW s \in Subs, Unshared(s),
         NEW t \in TaskIds, RunTask(s, t)
  PROVE  Told(s)'
<1>1. /\ UNCHANGED <<planStatus, exec, remaining, completed>>
      /\ \E to \in Coroutine \ {"none"} :
           step[s][t] # "none" /\ step' = [step EXCEPT ![s][t] = to]
  BY DEF RunTask, TaskStart, TaskAuthz, TaskAnswer, Move, Coroutine
<1>2. exec[s] = "gather" /\ t \in remaining[s]
  BY <1>1 DEF PlanIInv, OnlyGathered, WaveReady
<1>3. Told(s) /\ plans[planId[s]] = s
  BY <1>2, OwnRecord DEF OwnIInv, Submitted
<1>4. UNCHANGED taskStatus \/ taskStatus' = [taskStatus EXCEPT ![s][t] = "running"]
  BY <1>3 DEF RunTask, TaskStart, TaskAuthz, TaskAnswer
<1>5. \A u \in TaskIds : u # t => taskStatus'[s][u] = taskStatus[s][u]
  BY <1>4 DEF PlanIInv, TypeOK
<1>6. step'[s][t] # "none" /\ \A u \in TaskIds : u # t => step'[s][u] = step[s][u]
  <2>1. step \in [Subs -> [TaskIds -> Coroutine]]
    BY DEF PlanIInv, TypeOK
  <2>2. PICK to \in Coroutine \ {"none"} : step' = [step EXCEPT ![s][t] = to]
    BY <1>1
  <2>3. step'[s] = [step[s] EXCEPT ![t] = to] /\ step[s] \in [TaskIds -> Coroutine]
    BY <2>1, <2>2
  <2>4. QED
    BY <2>2, <2>3
<1>7. completed[s] \subseteq TaskIds /\ remaining[s] \subseteq TaskIds
  BY DEF PlanIInv, TypeOK
<1>8. QED
  BY <1>1, <1>2, <1>3, <1>5, <1>6, <1>7 DEF Told

\* Whose plan_id nobody else has now, had it alone before.
LEMMA UnsharedBefore ==
  ASSUME PlanIInv, RecordsOwned, NEW s \in Subs, Submitted(s), Unshared(s)', [Next]_vars
  PROVE  Unshared(s)
<1>1. planId[s] \in PlanIds /\ planId \in [Subs -> PlanIds \cup {NoPlan}]
  BY DEF PlanIInv, TypeOK, RecordsKnown, Submitted
<1>2. CASE \E q \in Subs, p \in PlanIds : Submit(q, p)
  <2>1. PICK q \in Subs, p \in PlanIds : Submit(q, p)
    BY <1>2
  <2>2. exec[q] = "none" /\ planId' = [planId EXCEPT ![q] = p]
    BY <2>1 DEF Submit
  <2>3. q # s
    BY <2>2 DEF Submitted
  <2>4. planId[q] = NoPlan
    BY <2>2 DEF RecordsOwned, Submitted
  <2>5. QED
    BY <1>1, <2>2, <2>3, <2>4, PlanAssumption DEF Unshared
<1>3. CASE planId' = planId
  BY <1>3 DEF Unshared
<1>4. QED
  BY ZenonT(30), <1>2, <1>3
  DEF Next, Begin, GatherDone, Expire, RunTask, TaskStart, TaskAuthz, TaskAnswer, Move, vars

\* At the start there are no records (plan.py:28).
LEMMA OwnInit == Init => OwnIInv
  BY PlanAssumption DEF Init, OwnIInv, RecordsOwned, Submitted, Untold, AllTasks

\* A submission that came stays (plan.py:48-58).
LEMMA NeverWithdrawn ==
  ASSUME PlanIInv, [Next]_vars, NEW s \in Subs, Submitted(s)
  PROVE  Submitted(s)'
<1>1. exec \in [Subs -> ExecSteps]
  BY DEF PlanIInv, TypeOK
<1>2. \/ UNCHANGED exec
      \/ \E q \in Subs, x \in ExecSteps \ {"none"} : exec' = [exec EXCEPT ![q] = x]
  <2>1. CASE \E q \in Subs, p \in PlanIds : Submit(q, p)
    BY <2>1 DEF Submit, ExecSteps
  <2>2. CASE \E q \in Subs : Begin(q)
    BY <2>2 DEF Begin, Loop, ExecSteps
  <2>3. CASE \E q \in Subs : GatherDone(q)
    BY <2>3 DEF GatherDone, Loop, ExecSteps
  <2>4. CASE \E q \in Subs : Expire(q)
    BY <2>4 DEF Expire
  <2>5. CASE \E q \in Subs, t \in TaskIds : RunTask(q, t)
    BY <2>5 DEF RunTask, TaskStart, TaskAuthz, TaskAnswer, Move
  <2>6. CASE UNCHANGED vars
    BY <2>6 DEF vars
  <2>7. QED
    BY <2>1, <2>2, <2>3, <2>4, <2>5, <2>6 DEF Next
<1>3. QED
  BY <1>1, <1>2 DEF Submitted

\* Every step keeps what every unshared record tells (plan.py:48-58, 75-150).
LEMMA OwnKeeps ==
  ASSUME PlanIInv, OwnIInv, [Next]_vars
  PROVE  OwnIInv'
<1>1. RecordsOwned /\ RecordsOwned'
  BY OwnedKeeps DEF OwnIInv
<1> SUFFICES ASSUME NEW s \in Subs
             PROVE  (IF Submitted(s) THEN Unshared(s) => Told(s) ELSE Untold(s))'
  BY <1>1 DEF OwnIInv
<1>2. Submitted(s) /\ Unshared(s)' => Unshared(s)
  BY <1>1, UnsharedBefore
<1>3. CASE Same(s)
  BY <1>2, <1>3, SameKeeps DEF OwnIInv
<1>4. CASE Submitted(s) /\ ~Unshared(s)
  <2>1. ~Unshared(s)'
    BY <1>2, <1>4
  <2>2. Submitted(s)'
    BY <1>4, NeverWithdrawn
  <2>3. QED
    BY <2>1, <2>2
<1>5. ASSUME ~Submitted(s) \/ Unshared(s), NEW q \in Subs,
             \/ \E p \in PlanIds : Submit(q, p)
             \/ Begin(q) \/ GatherDone(q)
             \/ \E t \in TaskIds : RunTask(q, t)
      PROVE  Same(s) \/ (Told(s)' /\ Submitted(s)')
  <2>1. CASE q # s
    BY <1>1, <1>5, <2>1, Elsewhere
  <2>2. CASE q = s
    <3>1. CASE \E p \in PlanIds : Submit(s, p)
      BY <3>1, SubmitTold DEF Submit, Submitted, PlanIInv, TypeOK
    <3>2. CASE Begin(s) \/ GatherDone(s) \/ \E t \in TaskIds : RunTask(s, t)
      <4>1. Submitted(s)
        <5>1. CASE Begin(s) \/ GatherDone(s)
          BY <5>1 DEF Submitted, Begin, GatherDone
        <5>2. CASE \E t \in TaskIds : RunTask(s, t)
          BY <5>2 DEF PlanIInv, OnlyGathered, Submitted, RunTask, TaskStart, TaskAuthz,
             TaskAnswer, Move
        <5>3. QED
          BY <3>2, <5>1, <5>2
      <4>2. Told(s)'
        BY <1>5, <3>2, <4>1, BeginTold, GatherTold, RunTold
      <4>3. Submitted(s)'
        BY <4>1, NeverWithdrawn
      <4>4. QED
        BY <4>2, <4>3
    <3>3. QED
      BY <1>5, <2>2, <3>1, <3>2
  <2>3. QED
    BY <2>1, <2>2
<1>6. ASSUME UNCHANGED vars \/ \E q \in Subs : Expire(q)
      PROVE  Same(s)
  BY <1>6 DEF vars, Expire, Same
<1>7. CASE ~Submitted(s) \/ Unshared(s)
  <2>1. Same(s) \/ (Told(s)' /\ Submitted(s)')
    BY <1>5, <1>6, <1>7 DEF Next
  <2>2. QED
    BY <1>3, <2>1
<1>8. QED
  BY <1>4, <1>7

-----------------------------------------------------------------------------
(***************************************************************************)
(* The theorems                                                            *)
(***************************************************************************)

\* The invariant holds in every reachable state (plan.py).
LEMMA PlanInvariant == Spec => []PlanIInv
<1>1. PlanIInv /\ [Next]_vars => PlanIInv'
  <2> SUFFICES ASSUME PlanIInv, [Next]_vars PROVE PlanIInv'
    OBVIOUS
  <2>1. CASE \E s \in Subs, p \in PlanIds : Submit(s, p)
    BY <2>1, SubmitKeeps
  <2>2. CASE \E s \in Subs : Begin(s) \/ GatherDone(s) \/ Expire(s)
    BY <2>2, BeginKeeps, GatherKeeps, ExpireKeeps
  <2>3. CASE \E s \in Subs, t \in TaskIds : RunTask(s, t)
    BY <2>3, RunTaskKeeps
  <2>4. CASE UNCHANGED vars
    BY <2>4, StutterKeeps
  <2>5. QED
    BY <2>1, <2>2, <2>3, <2>4 DEF Next
<1>2. QED
  BY <1>1, PlanInit, PTL DEF Spec

\* Records, statuses and coroutines keep to their types (plan.py).
THEOREM PlanTypeCorrect == Spec => []TypeOK
<1>1. PlanIInv => TypeOK
  BY DEF PlanIInv
<1>2. QED
  BY <1>1, PlanInvariant, PTL

\* Every task reaches its agent after all it depends on has completed, and at most
\* once, whatever the DAG, whatever fails, and whoever shares the record (plan.py).
THEOREM TasksSentInOrder == Spec => []SentInOrder
<1>1. PlanIInv => SentInOrder
  BY DEF PlanIInv
<1>2. QED
  BY <1>1, PlanInvariant, PTL

\* The record of a plan whose plan_id nobody else uses is truthful at every moment,
\* whatever its DAG, and whichever of its tasks fail or cannot run (plan.py:75-128).
THEOREM RecordsAreTruthful == Spec => []StatusTruthful
<1>1. PlanIInv /\ OwnIInv => StatusTruthful
  <2> SUFFICES ASSUME PlanIInv, OwnIInv, NEW s \in Subs, Unshared(s)
               PROVE  TruthfulRecord(s)
    BY DEF StatusTruthful
  <2>1. CASE Submitted(s)
    <3>1. Told(s) /\ exec[s] \in {"created", "gather", "crashed", "done"}
      BY <2>1 DEF PlanIInv, TypeOK, OwnIInv, ExecSteps, Submitted
    <3>2. QED
      BY <3>1 DEF Told, TruthfulRecord
  <2>2. CASE ~Submitted(s)
    BY <2>2 DEF OwnIInv, Untold, TruthfulRecord
  <2>3. QED
    BY <2>1, <2>2
<1>2. QED
  BY <1>1, OwnInit, OwnKeeps, PlanInvariant, PTL DEF Spec
=============================================================================
