----------------------------- MODULE SchedTasks -----------------------------
(***************************************************************************)
(* The task loop of the micro-controller (run_tasks in sched.c): tasks are *)
(* woken by interrupts at any point where these are enabled, the loop      *)
(* sleeps when nothing was woken, and a shutdown, in a task or an          *)
(* interrupt, jumps out of whatever runs and starts the loop again.        *)
(***************************************************************************)
EXTENDS Naturals

CONSTANTS Tasks,       \* tasks 1..Tasks, in the order of ctr_run_taskfuncs
          Reasons      \* reasons of a shutdown

ASSUME TaskAssumption == Tasks \in Nat \ {0}

VARIABLES
  tasks_status,        \* "idle", "requested" or "running"
  wake,                \* struct task_wake of each task
  pc,                  \* of the main loop
  task,                \* the task the loop is at
  shutdown_status, shutdown_reason,
  work,                \* history: an interrupt left work to the task
  jumped               \* history: a shutdown left the last turn of the loop

loopVars == <<tasks_status, wake, pc, task>>
stopVars == <<shutdown_status, shutdown_reason>>
vars == <<loopVars, stopVars, work, jumped>>

Names == 1..Tasks
None  == "none"
\* Interrupts are disabled while shutting down; the section without interrupts
\* of run_tasks is one step (Sleep).
IrqEnabled == pc # "shutdown"

-----------------------------------------------------------------------------
\* An interrupt, or code of the loop, leaves work to a task: sched_wake_task.
sched_wake_task(t) ==
  /\ IrqEnabled
  /\ tasks_status' = "requested"
  /\ wake' = [wake EXCEPT ![t] = TRUE]
  /\ work' = [work EXCEPT ![t] = TRUE]
  /\ UNCHANGED <<pc, task, stopVars, jumped>>

\* Mutant: the periodic timer only moves on.
periodic_event_NoWake == IrqEnabled /\ UNCHANGED vars

\* The periodic timer wakes the loop, but no task.
periodic_event ==
  /\ IrqEnabled
  /\ tasks_status' = "requested"
  /\ UNCHANGED <<wake, pc, task, stopVars, work, jumped>>

\* run_tasks: "Check if can sleep".
CheckSleep ==
  /\ pc = "check"
  /\ pc' = IF tasks_status # "requested" THEN "doze" ELSE "start"
  /\ UNCHANGED <<tasks_status, wake, task, stopVars, work, jumped>>

\* Mutant: no second check.
SleepUnchecked ==
  /\ pc = "doze"
  /\ pc' = "sleep" /\ tasks_status' = "idle"
  /\ UNCHANGED <<wake, task, stopVars, work, jumped>>

\* The same check with interrupts disabled, then the loop sleeps.
Sleep ==
  /\ pc = "doze"
  /\ IF tasks_status # "requested" THEN pc' = "sleep" /\ tasks_status' = "idle"
     ELSE pc' = "start" /\ UNCHANGED tasks_status
  /\ UNCHANGED <<wake, task, stopVars, work, jumped>>

\* Interrupts are on while it sleeps.
WakeUp ==
  /\ pc = "sleep" /\ tasks_status = "requested"
  /\ pc' = "start"
  /\ UNCHANGED <<tasks_status, wake, task, stopVars, work, jumped>>

StartTasks ==
  /\ pc = "start"
  /\ tasks_status' = "running" /\ pc' = "task" /\ task' = 1 /\ jumped' = FALSE
  /\ UNCHANGED <<wake, stopVars, work>>

\* sched_check_wake: the flag is taken back before the task does its work.
sched_check_wake ==
  /\ pc = "task"
  /\ wake' = [wake EXCEPT ![task] = FALSE]
  /\ pc' = IF wake[task] THEN "work" ELSE "next"
  /\ UNCHANGED <<tasks_status, task, stopVars, work, jumped>>

\* The task does the work that it finds, and goes on with interrupts enabled.
DoTask ==
  /\ pc = "work"
  /\ work' = [work EXCEPT ![task] = FALSE]
  /\ pc' = "next"
  /\ UNCHANGED <<tasks_status, wake, task, stopVars, jumped>>

\* Mutant: the flag is taken back when the task is done.
NextTaskClears ==
  /\ pc = "next"
  /\ wake' = [wake EXCEPT ![task] = FALSE]
  /\ IF task < Tasks THEN pc' = "task" /\ task' = task + 1
                     ELSE pc' = "check" /\ UNCHANGED task
  /\ UNCHANGED <<tasks_status, stopVars, work, jumped>>
\* Mutant: one task too many.
NextTaskOver ==
  /\ pc = "next"
  /\ IF task <= Tasks THEN pc' = "task" /\ task' = task + 1
                      ELSE pc' = "check" /\ UNCHANGED task
  /\ UNCHANGED <<tasks_status, wake, stopVars, work, jumped>>

\* ctr_run_taskfuncs goes on to the next task, or run_tasks to its next turn.
NextTask ==
  /\ pc = "next"
  /\ IF task < Tasks THEN pc' = "task" /\ task' = task + 1
                     ELSE pc' = "check" /\ UNCHANGED task
  /\ UNCHANGED <<tasks_status, wake, stopVars, work, jumped>>

-----------------------------------------------------------------------------
\* Mutant: the last reason counts.
FirstReasonLast(reason) == reason
FirstReason(reason) == IF shutdown_status = 0 THEN reason ELSE shutdown_reason

\* sched_shutdown, also of a shutdown function while shutting down, and the
\* beginning of run_shutdown.  A task that it cuts off does not finish its work.
sched_shutdown(reason) ==
  /\ shutdown_reason' = FirstReason(reason)
  /\ shutdown_status' = 2
  /\ pc' = "shutdown" /\ jumped' = TRUE
  /\ work' = IF pc = "work" THEN [work EXCEPT ![task] = FALSE] ELSE work
  /\ UNCHANGED <<tasks_status, wake, task>>

\* The shutdown functions are done: the loop starts again.
run_shutdown ==
  /\ pc = "shutdown"
  /\ shutdown_status' = 1 /\ pc' = "check"
  /\ UNCHANGED <<tasks_status, wake, task, shutdown_reason, work, jumped>>

\* The command clear_shutdown; when not shut down it calls sched_shutdown.
sched_clear_shutdown ==
  /\ pc = "work" /\ shutdown_status = 1
  /\ shutdown_status' = 0
  /\ UNCHANGED <<loopVars, shutdown_reason, work, jumped>>

Init ==
  /\ tasks_status = "requested" /\ wake = [t \in Names |-> FALSE]
  /\ pc = "check" /\ task = 1 /\ shutdown_status = 0 /\ shutdown_reason = None
  /\ work = [t \in Names |-> FALSE] /\ jumped = FALSE

Loop == CheckSleep \/ Sleep \/ WakeUp \/ StartTasks \/ sched_check_wake \/ DoTask
        \/ NextTask
Next == \/ Loop \/ periodic_event \/ run_shutdown \/ sched_clear_shutdown
        \/ \E t \in Names : sched_wake_task(t)
        \/ \E r \in Reasons : sched_shutdown(r)

Spec == Init /\ [][Next]_vars

\* The processor runs, and the periodic timer comes again and again.
FairSpec == Spec /\ WF_vars(Loop) /\ WF_vars(run_shutdown) /\ WF_vars(periodic_event)

-----------------------------------------------------------------------------
\* Types of the state.
TypeOK ==
  /\ tasks_status \in {"idle", "requested", "running"} /\ wake \in [Names -> BOOLEAN]
  /\ pc \in {"check", "doze", "sleep", "start", "task", "work", "next", "shutdown"}
  /\ task \in Names /\ shutdown_status \in 0..2 /\ shutdown_reason \in Reasons \cup {None}
  /\ work \in [Names -> BOOLEAN] /\ jumped \in BOOLEAN

\* The loop does not sleep on work: a wake-up by an interrupt between any two
\* steps of run_tasks is seen, unless a shutdown left the loop half-way.
NoSleepOnWork ==
  pc = "sleep" /\ ~jumped /\ (\E t \in Names : work[t]) => tasks_status = "requested"

\* The flag is taken back before the work is done, never after: work that is
\* left while a task runs is still there when it ends.
WorkIsFlagged == \A t \in Names : work[t] => wake[t] \/ (pc = "work" /\ task = t)

\* A shutdown reports its first reason, however many more follow before it is
\* cleared.
FirstReasonKept ==
  [][shutdown_status # 0 /\ shutdown_status' # 0 => shutdown_reason' = shutdown_reason]_vars

\* A task that is woken runs unless a shutdown comes before, and then after the
\* shutdown: the jump loses the request, the periodic timer makes it again.
WokenRuns == \A t \in Names : wake[t] ~> ~wake[t] \/ pc = "shutdown"
=============================================================================
