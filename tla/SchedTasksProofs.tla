-------------------------- MODULE SchedTasksProofs --------------------------
(***************************************************************************)
(* The task loop loses no wake-up, for any number of tasks.                *)
(***************************************************************************)
EXTENDS SchedTasks, TLAPS

\* In the tasks' part of the loop, the turn of task t is still to come.
StillToCome(t) == \/ pc = "start"
                  \/ pc \in {"task", "work", "next"} /\ task < t
                  \/ pc \in {"task", "work"} /\ task = t

\* Work is never left behind the loop: either another turn is requested, or
\* this one will still come to the task.
WorkIsAhead ==
  ~jumped => \A t \in Names : work[t] => tasks_status = "requested" \/ StillToCome(t)

TaskInv == TypeOK /\ WorkIsFlagged /\ WorkIsAhead

-----------------------------------------------------------------------------
\* The types are preserved by every step of the loop, an interrupt or a shutdown.
LEMMA TypeStep == TypeOK /\ [Next]_vars => TypeOK'
<1> SUFFICES ASSUME TypeOK, [Next]_vars PROVE TypeOK' OBVIOUS
<1> USE TaskAssumption DEF TypeOK, Names, stopVars
<1>1. CASE CheckSleep BY <1>1 DEF CheckSleep
<1>2. CASE Sleep BY <1>2 DEF Sleep
<1>3. CASE WakeUp BY <1>3 DEF WakeUp
<1>4. CASE StartTasks
  <2>1. jumped' \in BOOLEAN BY <1>4, Zenon DEF StartTasks
  <2>2. QED BY <1>4, <2>1 DEF StartTasks
<1>5. CASE sched_check_wake BY <1>5 DEF sched_check_wake
<1>6. CASE DoTask BY <1>6 DEF DoTask
<1>7. CASE NextTask BY <1>7 DEF NextTask
<1>8. CASE periodic_event BY <1>8 DEF periodic_event
<1>9. CASE run_shutdown BY <1>9 DEF run_shutdown
<1>10. CASE sched_clear_shutdown BY <1>10 DEF sched_clear_shutdown, loopVars
<1>11. ASSUME NEW t \in Names, sched_wake_task(t) PROVE TypeOK' BY <1>11 DEF sched_wake_task
<1>12. ASSUME NEW r \in Reasons, sched_shutdown(r) PROVE TypeOK'
  BY <1>12 DEF sched_shutdown, FirstReason
<1>13. CASE UNCHANGED vars BY <1>13 DEF vars, loopVars
<1>14. QED BY <1>1, <1>2, <1>3, <1>4, <1>5, <1>6, <1>7, <1>8, <1>9, <1>10, <1>11,
              <1>12, <1>13 DEF Next, Loop

\* No step leaves work without its flag, except to the task that is running.
LEMMA FlagStep == TypeOK /\ WorkIsFlagged /\ [Next]_vars => WorkIsFlagged'
<1> SUFFICES ASSUME TypeOK, WorkIsFlagged, [Next]_vars, NEW u \in Names, work'[u]
             PROVE  wake'[u] \/ (pc' = "work" /\ task' = u)
  BY DEF WorkIsFlagged
<1> USE TaskAssumption DEF TypeOK, WorkIsFlagged, Names, stopVars
<1>1. CASE CheckSleep BY <1>1 DEF CheckSleep
<1>2. CASE Sleep BY <1>2 DEF Sleep
<1>3. CASE WakeUp BY <1>3 DEF WakeUp
<1>4. CASE StartTasks BY <1>4 DEF StartTasks
<1>5. CASE sched_check_wake BY <1>5 DEF sched_check_wake
<1>6. CASE DoTask BY <1>6 DEF DoTask
<1>7. CASE NextTask BY <1>7 DEF NextTask
<1>8. CASE periodic_event BY <1>8 DEF periodic_event
<1>9. CASE run_shutdown BY <1>9 DEF run_shutdown
<1>10. CASE sched_clear_shutdown BY <1>10 DEF sched_clear_shutdown, loopVars
<1>11. ASSUME NEW t \in Names, sched_wake_task(t) PROVE wake'[u] \/ (pc' = "work" /\ task' = u)
  BY <1>11 DEF sched_wake_task
<1>12. ASSUME NEW r \in Reasons, sched_shutdown(r)
       PROVE  wake'[u] \/ (pc' = "work" /\ task' = u)
  BY <1>12 DEF sched_shutdown
<1>13. CASE UNCHANGED vars BY <1>13 DEF vars, loopVars
<1>14. QED BY <1>1, <1>2, <1>3, <1>4, <1>5, <1>6, <1>7, <1>8, <1>9, <1>10, <1>11,
              <1>12, <1>13 DEF Next, Loop

\* No step of the loop passes a task that has work without another turn being
\* requested; an interrupt that leaves work requests one.
LEMMA AheadStep == TypeOK /\ WorkIsFlagged /\ WorkIsAhead /\ [Next]_vars => WorkIsAhead'
<1> SUFFICES ASSUME TypeOK, WorkIsFlagged, WorkIsAhead, [Next]_vars, ~jumped',
                    NEW u \in Names, work'[u]
             PROVE  tasks_status' = "requested" \/ StillToCome(u)'
  BY DEF WorkIsAhead
<1> USE TaskAssumption DEF TypeOK, WorkIsFlagged, WorkIsAhead, StillToCome, Names, stopVars
<1>1. CASE CheckSleep BY <1>1 DEF CheckSleep
<1>2. CASE Sleep BY <1>2 DEF Sleep
<1>3. CASE WakeUp BY <1>3 DEF WakeUp
<1>4. CASE StartTasks BY <1>4 DEF StartTasks
<1>5. CASE sched_check_wake BY <1>5 DEF sched_check_wake
<1>6. CASE DoTask BY <1>6 DEF DoTask
<1>7. CASE NextTask BY <1>7 DEF NextTask
<1>8. CASE periodic_event BY <1>8 DEF periodic_event
<1>9. CASE run_shutdown BY <1>9 DEF run_shutdown
<1>10. CASE sched_clear_shutdown BY <1>10 DEF sched_clear_shutdown, loopVars
<1>11. ASSUME NEW t \in Names, sched_wake_task(t)
       PROVE  tasks_status' = "requested" \/ StillToCome(u)'
  BY <1>11 DEF sched_wake_task
<1>12. ASSUME NEW r \in Reasons, sched_shutdown(r)
       PROVE  tasks_status' = "requested" \/ StillToCome(u)'
  BY <1>12 DEF sched_shutdown
<1>13. CASE UNCHANGED vars BY <1>13 DEF vars, loopVars
<1>14. QED BY <1>1, <1>2, <1>3, <1>4, <1>5, <1>6, <1>7, <1>8, <1>9, <1>10, <1>11,
              <1>12, <1>13 DEF Next, Loop

LEMMA TaskInduction == Spec => []TaskInv
<1>1. Init => TaskInv
  <2> SUFFICES ASSUME Init PROVE TaskInv OBVIOUS
  <2>1. jumped \in BOOLEAN /\ \A t \in Names : ~work[t] BY Zenon DEF Init
  <2>2. wake \in [Names -> BOOLEAN] /\ work \in [Names -> BOOLEAN] BY Zenon DEF Init
  <2>3. task \in Names BY TaskAssumption DEF Init, Names
  <2>4. TypeOK BY <2>1, <2>2, <2>3 DEF Init, TypeOK
  <2>5. QED BY <2>1, <2>4 DEF TaskInv, WorkIsFlagged, WorkIsAhead
<1>2. TaskInv /\ [Next]_vars => TaskInv'
  BY TypeStep, FlagStep, AheadStep DEF TaskInv
<1>3. QED BY <1>1, <1>2, PTL DEF Spec

-----------------------------------------------------------------------------
\* run_tasks never sleeps while a task has work that no shutdown interrupted:
\* the check with interrupts disabled sees every wake-up.
THEOREM TaskNoSleepOnWork == Spec => []NoSleepOnWork
<1>1. TaskInv => NoSleepOnWork
  BY DEF TaskInv, WorkIsAhead, StillToCome, NoSleepOnWork
<1>2. QED BY <1>1, TaskInduction, PTL

\* Work that an interrupt leaves for a task, at whatever point of the task, keeps
\* its flag until the task runs again.
THEOREM TaskWorkIsFlagged == Spec => []WorkIsFlagged
<1>1. TaskInv => WorkIsFlagged BY DEF TaskInv
<1>2. QED BY <1>1, TaskInduction, PTL

\* The state of the task loop keeps its types.
THEOREM TaskTypeOK == Spec => []TypeOK
<1>1. TaskInv => TypeOK BY DEF TaskInv
<1>2. QED BY <1>1, TaskInduction, PTL

\* A shutdown keeps its first reason until it is cleared.
THEOREM TaskFirstReason == Spec => FirstReasonKept
<1>1. [Next]_vars => [shutdown_status # 0 /\ shutdown_status' # 0
                        => shutdown_reason' = shutdown_reason]_vars
  BY DEF Next, Loop, vars, loopVars, stopVars, CheckSleep, Sleep, WakeUp, StartTasks,
         sched_check_wake, DoTask, NextTask, periodic_event, run_shutdown,
         sched_clear_shutdown, sched_wake_task, sched_shutdown, FirstReason
<1>2. QED BY <1>1, PTL DEF Spec, FirstReasonKept
=============================================================================
