----------------------------- MODULE MCPlanExec -----------------------------
\* Instance of PlanExec for TLC: two plans, submitted under any two plan ids.
EXTENDS PlanExec

CONSTANTS s1, s2, taskA, taskB, taskC, taskD, ghost

\* s1: A and B, then C.  s2: A, and D, which waits for A and for a task that does
\* not exist.  Each has tasks that the other does not know.
MCTasksOf == [s \in Subs |-> IF s = s1 THEN {taskA, taskB, taskC} ELSE {taskA, taskD}]
MCDepsOf ==
  [s \in Subs |-> [t \in TaskIds |->
     CASE s = s1 /\ t = taskC -> {taskA, taskB}
       [] s = s2 /\ t = taskD -> {taskA, ghost}
       [] OTHER -> {}]]
=============================================================================
