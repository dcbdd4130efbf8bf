---------------------------- MODULE ScheduledTasks ----------------------------
(***************************************************************************)
(* The durable clock: services/schedules.py and the worker loop that       *)
(* dispatches due tasks.  A task runs once, or recurs daily or weekly; a   *)
(* run enqueues the event of the occurrence (agent.reachout) or performs   *)
(* another action (finance.sync), and then moves the row on.               *)
(*                                                                         *)
(* Claims are taken under the row lock.  _complete_task and _retry_task    *)
(* read the row without a lock and write the columns that differ from what *)
(* they read, so both are two steps, and what commits in between (a        *)
(* cancellation, another dispatch) is overwritten.                         *)
(*                                                                         *)
(* Wall-clock times are numbers of occurrences: occurrence n of a task is  *)
(* due when clock >= n.  A dispatch is assumed to end before the next      *)
(* occurrence, at least a day later.  Paused tasks (no code pauses one) and *)
(* run_count (only reported) are left out.                                 *)
(***************************************************************************)
EXTENDS Integers

CONSTANTS
  Tasks,           \* scheduled_tasks rows
  Dispatchers,     \* agent-wake worker processes
  NoTask,
  TaskAttempts,    \* scheduled_task_max_attempts
  MaxClock,        \* bound on the occurrences that become due
  DispatchersDie,  \* whether processes die
  ActionsFail      \* whether the action of a task may raise

ASSUME SchedulesAssumption ==
  /\ NoTask \notin Tasks
  /\ TaskAttempts \in Nat \ {0}
  /\ MaxClock \in Nat
  /\ DispatchersDie \in BOOLEAN
  /\ ActionsFail \in BOOLEAN

VARIABLES
  row,       \* the columns status, attempts, scheduled_for (next) and whether
             \*   recurrence is daily or weekly (recurs)
  lapsed,    \* a time of the row has passed: next_attempt_at of a failed row,
             \*   five minutes since locked_at of one in processing
  clock,     \* the number of occurrences of the task whose time has come
  fired,     \* the occurrences whose action was done (their outbox keys)
  phase,     \* where a worker is
  dispatch   \* its task, the occurrence it claimed, and the row as it read it

taskVars == <<row, lapsed, clock, fired, phase, dispatch>>

TaskStatuses == {"absent", "active", "processing", "completed", "cancelled", "failed"}
NewRow(recurs) == [status |-> "active", attempts |-> 0, next |-> 1, recurs |-> recurs]
AbsentRow  == [NewRow(FALSE) EXCEPT !.status = "absent"]
NoDispatch == [task |-> NoTask, occurrence |-> 0, seen |-> AbsentRow]

Task(w) == dispatch[w].task
Proceed(w, l) == phase' = [phase EXCEPT ![w] = l]

\* The time of the row's occurrence has come.
Due(t) == row[t].next <= clock[t]

-----------------------------------------------------------------------------
(***************************************************************************)
(* Faults.  Each operator is the definition of the same shape below with   *)
(* one plausible slip in it; no action uses them.                          *)
(***************************************************************************)

\* The attempts of an occurrence count against the next one.
AttemptsKept(r) == r.attempts

\* A cancelled row is overwritten like any other.
NeverCancelled(r) == FALSE

\* The recurrence is computed although the action was not done.
MovesOnAnyway == "completing"

\* The attempt limit is one too high.
OneTryTooMany(t) == row[t].attempts <= TaskAttempts

-----------------------------------------------------------------------------
(***************************************************************************)
(* Decisions                                                               *)
(***************************************************************************)

\* The rows _claim_task selects from.
Claimable(t) ==
  \/ row[t].status = "active" /\ Due(t)
  \/ row[t].status \in {"failed", "processing"} /\ lapsed[t]

TriesLeft(t) == row[t].attempts < TaskAttempts

\* _next_recurring_run: the first occurrence from the row's own on that is
\* still to come.
NextOccurrence(t, n) == IF n <= clock[t] THEN clock[t] + 1 ELSE n

\* _complete_task and _retry_task leave a cancelled row alone.
Cancelled(r) == r.status = "cancelled"

AttemptsAfterRun(r) == 0

\* What follows an exception of the action.
OnActionError == "retrying"

\* The row _complete_task wants to store, from the row r it read.
Completed(t, r) ==
  [r EXCEPT !.status   = IF r.recurs THEN "active" ELSE "completed",
            !.attempts = AttemptsAfterRun(r),
            !.next     = IF r.recurs THEN NextOccurrence(t, @) ELSE @]

\* An UPDATE of the columns in which new differs from read.
Updated(current, read, new) ==
  [c \in DOMAIN current |->
     IF new[c] = read[c] THEN current[c] ELSE new[c]]

-----------------------------------------------------------------------------
SchedulesInit ==
  /\ row = [t \in Tasks |-> AbsentRow]
  /\ lapsed = [t \in Tasks |-> FALSE]
  /\ clock = [t \in Tasks |-> 0]
  /\ fired = [t \in Tasks |-> {}]
  /\ phase = [w \in Dispatchers |-> "idle"]
  /\ dispatch = [w \in Dispatchers |-> NoDispatch]

\* create_scheduled_task, for a time to come; the same key finds the row.
Create(t, recurs) ==
  /\ row[t].status = "absent"
  /\ row' = [row EXCEPT ![t] = NewRow(recurs)]
  /\ UNCHANGED <<lapsed, clock, fired, phase, dispatch>>

\* cancel_scheduled_task; a completed or cancelled row is left as it is.
Cancel(t) ==
  /\ row[t].status \notin {"absent", "completed", "cancelled"}
  /\ row' = [row EXCEPT ![t].status = "cancelled"]
  /\ lapsed' = [lapsed EXCEPT ![t] = FALSE]
  /\ UNCHANGED <<clock, fired, phase, dispatch>>

\* The time of the next occurrence comes.
Tick(t) ==
  /\ row[t].status # "absent"
  /\ clock[t] < MaxClock
  /\ \A w \in Dispatchers : Task(w) # t
  /\ clock' = [clock EXCEPT ![t] = @ + 1]
  /\ UNCHANGED <<row, lapsed, fired, phase, dispatch>>

\* The backoff of a failed row, or the five minutes of a claim, pass.
Lapse(t) ==
  /\ row[t].status \in {"failed", "processing"}
  /\ ~lapsed[t]
  /\ lapsed' = [lapsed EXCEPT ![t] = TRUE]
  /\ UNCHANGED <<row, clock, fired, phase, dispatch>>

LeaveTask(w) ==
  /\ Proceed(w, "idle")
  /\ dispatch' = [dispatch EXCEPT ![w] = NoDispatch]

\* _claim_task.
ClaimTask(w, t) ==
  /\ phase[w] = "idle"
  /\ Claimable(t)
  /\ TriesLeft(t)
  /\ row' = [row EXCEPT ![t].status = "processing", ![t].attempts = @ + 1]
  /\ lapsed' = [lapsed EXCEPT ![t] = FALSE]
  /\ Proceed(w, "acting")
  /\ dispatch' = [dispatch EXCEPT ![w].task = t, ![w].occurrence = row[t].next]
  /\ UNCHANGED <<clock, fired>>

\* _dispatch_agent_reachout, keyed by the occurrence, or another action.
Act(w) ==
  /\ phase[w] = "acting"
  /\ fired' = [fired EXCEPT ![Task(w)] = @ \cup {dispatch[w].occurrence}]
  /\ Proceed(w, "completing")
  /\ UNCHANGED <<row, lapsed, clock, dispatch>>

ActFails(w) ==
  /\ phase[w] = "acting"
  /\ ActionsFail
  /\ Proceed(w, OnActionError)
  /\ UNCHANGED <<row, lapsed, clock, fired, dispatch>>

\* The read of _complete_task and of _retry_task.
Read(w) ==
  /\ phase[w] \in {"completing", "retrying"}
  /\ IF Cancelled(row[Task(w)])
     THEN LeaveTask(w)
     ELSE /\ Proceed(w, IF phase[w] = "completing" THEN "moving on" ELSE "failing")
          /\ dispatch' = [dispatch EXCEPT ![w].seen = row[Task(w)]]
  /\ UNCHANGED <<row, lapsed, clock, fired>>

StoreRow(t, read, new) ==
  /\ row' = [row EXCEPT ![t] = Updated(@, read, new)]
  /\ lapsed' = [lapsed EXCEPT ![t] = FALSE]

\* The write of _complete_task.  If its answer is lost the task is retried.
MoveOn(w, lost) ==
  LET t == Task(w)
  IN  /\ phase[w] = "moving on"
      /\ StoreRow(t, dispatch[w].seen, Completed(t, dispatch[w].seen))
      /\ IF lost THEN Proceed(w, "retrying") /\ UNCHANGED dispatch ELSE LeaveTask(w)
      /\ UNCHANGED <<clock, fired>>

\* The write of _retry_task.
FailTask(w) ==
  /\ phase[w] = "failing"
  /\ StoreRow(Task(w), dispatch[w].seen, [dispatch[w].seen EXCEPT !.status = "failed"])
  /\ LeaveTask(w)
  /\ UNCHANGED <<clock, fired>>

\* The process dies, or an error escapes the dispatch and ends it.
DispatcherDies(w) ==
  /\ DispatchersDie
  /\ phase[w] # "idle"
  /\ LeaveTask(w)
  /\ UNCHANGED <<row, lapsed, clock, fired>>

PollTasks(w) == \E t \in Tasks : ClaimTask(w, t)
DispatchStep(w) ==
  Act(w) \/ ActFails(w) \/ Read(w) \/ (\E lost \in BOOLEAN : MoveOn(w, lost)) \/ FailTask(w)

SchedulesNext ==
  \/ \E t \in Tasks, recurs \in BOOLEAN : Create(t, recurs)
  \/ \E t \in Tasks : Cancel(t) \/ Tick(t) \/ Lapse(t)
  \/ \E w \in Dispatchers : PollTasks(w) \/ DispatchStep(w) \/ DispatcherDies(w)

SchedulesSpec == SchedulesInit /\ [][SchedulesNext]_taskVars

(***************************************************************************)
(* Fairness: workers poll, dispatches end, and the clocks of backoff and   *)
(* claims advance.  Requests, crashes and the bounded clock are not fair.  *)
(***************************************************************************)
SchedulesFairness ==
  /\ \A w \in Dispatchers : WF_taskVars(PollTasks(w)) /\ WF_taskVars(DispatchStep(w))
  /\ \A t \in Tasks : WF_taskVars(Lapse(t))

SchedulesFairSpec == SchedulesSpec /\ SchedulesFairness

-----------------------------------------------------------------------------
(***************************************************************************)
(* Properties                                                              *)
(***************************************************************************)
TaskRows == [status : TaskStatuses, attempts : 0..TaskAttempts, next : 1..(MaxClock + 1),
             recurs : BOOLEAN]

\* The shape of the rows and of the workers; attempts stay within the limit.
SchedulesTypeOK ==
  /\ row \in [Tasks -> TaskRows]
  /\ lapsed \in [Tasks -> BOOLEAN]
  /\ clock \in [Tasks -> 0..MaxClock]
  /\ fired \in [Tasks -> SUBSET (1..(MaxClock + 1))]
  /\ phase \in [Dispatchers -> {"idle", "acting", "completing", "retrying", "moving on", "failing"}]
  /\ dispatch \in [Dispatchers -> [task : Tasks \cup {NoTask},
                                  occurrence : 0..(MaxClock + 1), seen : TaskRows]]

\* A recurring task leaves an occurrence behind only when its event is in the
\* outbox, and a task that counts as completed has done what it was scheduled
\* for, also when stale dispatches and retries overtake each other.
NothingLeftBehind ==
  [][\A t \in Tasks :
       row'[t].next # row[t].next \/ (row[t].status # "completed" /\ row'[t].status = "completed")
         => row[t].next \in fired[t]]_taskVars

\* A cancellation is undone only by a dispatch that read the row before it: no
\* claim picks a cancelled task up, and no outcome read after it revives it.
TasksStayCancelled ==
  [][\A t \in Tasks :
       row[t].status = "cancelled" /\ row'[t].status # "cancelled"
         => \E w \in Dispatchers : Task(w) = t /\ phase[w] \in {"moving on", "failing"}
                                /\ dispatch[w].seen.status # "cancelled"]_taskVars

\* Every occurrence that becomes due is acted upon unless the task is
\* cancelled, while no action fails and no process dies: lost commits, expired
\* claims and overlapping dispatches never starve a recurring task.
DueTasksRun ==
  \A t \in Tasks : row[t].status = "active" /\ Due(t)
                     ~> row[t].status = "cancelled" \/ row[t].next \in fired[t]

\* Tasks survive restarts: a task that was claimed does not stay in processing
\* for ever.
SurvivesRestarts == \A t \in Tasks : row[t].status = "processing" ~> row[t].status # "processing"
==============================================================================
