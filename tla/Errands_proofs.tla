----------------------------- MODULE Errands_proofs -----------------------------
(***************************************************************************)
(* What holds of ScheduledTasks and FollowUps for every number of tasks,   *)
(* dispatchers, messages, events, speakers and attempts.  The two share no *)
(* state; each part is about the behaviours of one of them.                *)
(***************************************************************************)
EXTENDS WorkMC, Work_proofs

(***************************************************************************)
(* Scheduled tasks.                                                        *)
(***************************************************************************)

\* What a dispatch knows of its task.  While it lasts the clock of the task stands still, and
\* the row moves from the occurrence of the dispatch to the next one to come, or not at all.
Moved(t, n) == {n, clock[t] + 1}
Dispatching(w) ==
  LET t == Task(w)
      n == dispatch[w].occurrence
  IN  /\ t \in Tasks /\ n \in 1..(MaxClock + 1)
      /\ row[t].status # "absent"
      /\ row[t].next \in Moved(t, n)
      /\ ~row[t].recurs => n = 1
      /\ phase[w] \in {"completing", "moving on"} => n \in fired[t]
      /\ phase[w] \in {"moving on", "failing"} =>
           /\ dispatch[w].seen.next \in Moved(t, n)
           /\ dispatch[w].seen.recurs = row[t].recurs
           /\ dispatch[w].seen.status \notin {"absent", "cancelled"}

Bound(w) == IF phase[w] = "idle" THEN Task(w) = NoTask ELSE Dispatching(w)

\* A task that does not recur has one occurrence.
Occurs(t) ==
  /\ row[t].next <= clock[t] + 1
  /\ ~row[t].recurs \/ row[t].status = "absent" => row[t].next = 1

TasksInv ==
  /\ SchedulesTypeOK
  /\ \A t \in Tasks : Occurs(t)
  /\ \A w \in Dispatchers : Bound(w)

\* An UPDATE keeps the shape of a row, and each column is the stored or the new one.
LEMMA UpdatedRow ==
  ASSUME NEW current \in TaskRows, NEW read \in TaskRows, NEW new \in TaskRows
  PROVE  LET r == Updated(current, read, new)
         IN  /\ r \in TaskRows
             /\ r.status = IF new.status = read.status THEN current.status ELSE new.status
             /\ r.next = IF new.next = read.next THEN current.next ELSE new.next
             /\ r.recurs = IF new.recurs = read.recurs THEN current.recurs ELSE new.recurs
  BY DEF TaskRows, Updated

\* What a step may do to a row; what NothingLeftBehind and TasksStayCancelled say of one.
LeavesNothing ==
  \A t \in Tasks :
    row'[t].next # row[t].next \/ (row[t].status # "completed" /\ row'[t].status = "completed")
      => row[t].next \in fired[t]
StaysCancelled ==
  \A t \in Tasks :
    row[t].status = "cancelled" /\ row'[t].status # "cancelled"
      => \E w \in Dispatchers : Task(w) = t /\ phase[w] \in {"moving on", "failing"}
                             /\ dispatch[w].seen.status # "cancelled"

\* Steps that move no row on.
LEMMA RowStands ==
  ASSUME \A t \in Tasks : /\ row'[t].next = row[t].next
                          /\ row'[t].status = "completed" => row[t].status = "completed"
                          /\ row[t].status = "cancelled" => row'[t].status = "cancelled"
  PROVE  LeavesNothing /\ StaysCancelled
  BY DEF LeavesNothing, StaysCancelled

\* Dispatches of other tasks, and of a row whose columns of interest stand, are not disturbed.
LEMMA Undisturbed ==
  ASSUME TasksInv, SchedulesTypeOK', UNCHANGED <<clock, fired, phase, dispatch>>,
         \A t \in Tasks : /\ row'[t].next = row[t].next
                          /\ row'[t].recurs = row[t].recurs \/ row[t].status = "absent"
                          /\ row'[t].status = "absent" => row[t].status = "absent"
  PROVE  TasksInv'
  <1>1. \A t \in Tasks : Occurs(t)'
    BY DEF TasksInv, Occurs, SchedulesTypeOK, TaskRows
  <1>2. ASSUME NEW w \in Dispatchers  PROVE Bound(w)'
    <2>1. Bound(w)
      BY DEF TasksInv
    <2> QED
      BY <2>1 DEF Bound, Dispatching, Task, Moved
  <1> QED
    BY <1>1, <1>2 DEF TasksInv

\* create_scheduled_task, cancel_scheduled_task and the passing of a time.
LEMMA RequestOK ==
  ASSUME TasksInv, NEW t \in Tasks, NEW recurs \in BOOLEAN, Create(t, recurs) \/ Cancel(t) \/ Lapse(t)
  PROVE  TasksInv' /\ LeavesNothing /\ StaysCancelled
  <1>t. row \in [Tasks -> TaskRows] /\ lapsed \in [Tasks -> BOOLEAN]
    BY DEF TasksInv, SchedulesTypeOK
  <1>1. CASE Create(t, recurs)
    <2> DEFINE r == NewRow(recurs)
    <2>1. r \in TaskRows /\ r.next = 1 /\ r.status = "active"
      BY SchedulesAssumption DEF NewRow, TaskRows, TaskStatuses
    <2>2. row[t].status = "absent" /\ row[t].next = 1
      BY <1>1 DEF Create, TasksInv, Occurs
    <2>3. /\ row' = [row EXCEPT ![t] = r]
          /\ UNCHANGED <<lapsed, clock, fired, phase, dispatch>>
      BY <1>1 DEF Create
    <2> HIDE DEF r
    <2>4. row'[t] = r /\ \A u \in Tasks \ {t} : row'[u] = row[u]
      BY <1>t, <2>3
    <2>5. row' \in [Tasks -> TaskRows]
      BY <1>t, <2>1, <2>3
    <2>6. SchedulesTypeOK'
      BY <2>3, <2>5 DEF TasksInv, SchedulesTypeOK
    <2> QED
      BY <2>1, <2>2, <2>3, <2>4, <2>6, Undisturbed, RowStands
  <1>2. CASE Cancel(t)
    <2> DEFINE r == [row[t] EXCEPT !.status = "cancelled"]
    <2>1. /\ r \in TaskRows /\ r.next = row[t].next /\ r.recurs = row[t].recurs
          /\ r.status = "cancelled"
      BY <1>t DEF TaskRows, TaskStatuses
    <2>2. /\ row' = [row EXCEPT ![t] = r] /\ lapsed' = [lapsed EXCEPT ![t] = FALSE]
          /\ UNCHANGED <<clock, fired, phase, dispatch>>
      BY <1>2 DEF Cancel
    <2> HIDE DEF r
    <2>3. row'[t] = r /\ \A u \in Tasks \ {t} : row'[u] = row[u]
      BY <1>t, <2>2
    <2>4. row' \in [Tasks -> TaskRows] /\ lapsed' \in [Tasks -> BOOLEAN]
      BY <1>t, <2>1, <2>2
    <2>5. SchedulesTypeOK'
      BY <2>2, <2>4 DEF TasksInv, SchedulesTypeOK
    <2> QED
      BY <2>1, <2>2, <2>3, <2>5, Undisturbed, RowStands
  <1>3. CASE Lapse(t)
    <2>1. lapsed' = [lapsed EXCEPT ![t] = TRUE] /\ UNCHANGED <<row, clock, fired, phase, dispatch>>
      BY <1>3 DEF Lapse
    <2>2. SchedulesTypeOK'
      BY <1>t, <2>1 DEF TasksInv, SchedulesTypeOK
    <2> QED
      BY <2>1, <2>2, Undisturbed, RowStands
  <1> QED
    BY <1>1, <1>2, <1>3

\* The time of an occurrence comes while nobody dispatches the task.
LEMMA TickOK ==
  ASSUME TasksInv, NEW t \in Tasks, Tick(t)
  PROVE  TasksInv' /\ LeavesNothing /\ StaysCancelled
  <1>1. /\ clock[t] < MaxClock /\ clock' = [clock EXCEPT ![t] = clock[t] + 1]
        /\ \A w \in Dispatchers : Task(w) # t
        /\ UNCHANGED <<row, lapsed, fired, phase, dispatch>>
    BY DEF Tick
  <1>2. clock \in [Tasks -> 0..MaxClock] /\ row \in [Tasks -> TaskRows]
    BY DEF TasksInv, SchedulesTypeOK
  <1>3. clock[t] + 1 \in 0..MaxClock
    BY <1>1, <1>2, SchedulesAssumption
  <1>4. SchedulesTypeOK'
    BY <1>1, <1>3 DEF TasksInv, SchedulesTypeOK
  <1>5. \A u \in Tasks : Occurs(u)'
    BY <1>1, <1>2, SchedulesAssumption DEF TasksInv, Occurs, TaskRows
  <1>6. ASSUME NEW w \in Dispatchers  PROVE Bound(w)'
    <2>1. CASE phase[w] # "idle"
      <3>1. Dispatching(w) /\ clock'[Task(w)] = clock[Task(w)]
        BY <1>1, <1>2, <2>1 DEF TasksInv, Bound, Dispatching
      <3> QED
        BY <1>1, <2>1, <3>1 DEF Bound, Dispatching, Task, Moved
    <2>2. CASE phase[w] = "idle"
      BY <1>1, <2>2 DEF TasksInv, Bound, Task
    <2> QED
      BY <2>1, <2>2
  <1>7. TasksInv'
    BY <1>4, <1>5, <1>6 DEF TasksInv
  <1> QED
    BY <1>1, <1>7, RowStands

\* A worker that comes, goes, or goes on without a change of any row.
LEMMA WorkerOK ==
  ASSUME TasksInv, NEW w \in Dispatchers, UNCHANGED <<row, lapsed, clock>>,
         \A t \in Tasks : fired[t] \subseteq fired'[t],
         fired' \in [Tasks -> SUBSET (1..(MaxClock + 1))],
         NEW at_, phase' = [phase EXCEPT ![w] = at_],
         at_ \in {"idle", "acting", "completing", "retrying", "moving on", "failing"},
         NEW d, dispatch' = [dispatch EXCEPT ![w] = d],
         d \in [task : Tasks \cup {NoTask}, occurrence : 0..(MaxClock + 1), seen : TaskRows],
         Bound(w)'
  PROVE  TasksInv' /\ LeavesNothing /\ StaysCancelled
  <1>1. /\ phase'[w] = at_ /\ dispatch'[w] = d
        /\ \A v \in Dispatchers \ {w} : phase'[v] = phase[v] /\ dispatch'[v] = dispatch[v]
    BY DEF TasksInv, SchedulesTypeOK
  <1>2. SchedulesTypeOK'
    BY DEF TasksInv, SchedulesTypeOK
  <1>3. \A t \in Tasks : Occurs(t)'
    BY DEF TasksInv, Occurs
  <1>4. ASSUME NEW v \in Dispatchers \ {w}
        PROVE  Bound(v)'
    <2>1. Bound(v)
      BY DEF TasksInv
    <2>2. CASE phase[v] = "idle"
      BY <1>1, <2>1, <2>2 DEF Task, Bound
    <2>3. CASE phase[v] # "idle"
      BY <1>1, <2>1, <2>3 DEF Task, Bound, Dispatching, Moved
    <2> QED
      BY <2>2, <2>3
  <1>5. TasksInv'
    BY <1>2, <1>3, <1>4 DEF TasksInv
  <1> QED
    BY <1>5, RowStands

\* A worker that writes the row of its task, or comes to it.
LEMMA RowAndWorkerOK ==
  ASSUME TasksInv, NEW w \in Dispatchers, NEW t \in Tasks, NEW r \in TaskRows,
         row' = [row EXCEPT ![t] = r], lapsed' \in [Tasks -> BOOLEAN], UNCHANGED <<clock, fired>>,
         row[t].status # "absent", r.status # "absent", r.recurs = row[t].recurs,
         r.next = row[t].next \/ (r.next = clock[t] + 1 /\ row[t].recurs),
         NEW at_, phase' = [phase EXCEPT ![w] = at_],
         at_ \in {"idle", "acting", "retrying"},
         NEW d, dispatch' = [dispatch EXCEPT ![w] = d],
         d \in [task : Tasks \cup {NoTask}, occurrence : 0..(MaxClock + 1), seen : TaskRows],
         Bound(w)'
  PROVE  TasksInv'
  <1>1. /\ phase'[w] = at_
        /\ \A v \in Dispatchers \ {w} : phase'[v] = phase[v] /\ dispatch'[v] = dispatch[v]
        /\ row'[t] = r /\ \A u \in Tasks \ {t} : row'[u] = row[u]
    BY DEF TasksInv, SchedulesTypeOK
  <1>2. SchedulesTypeOK'
    <2>1. row' \in [Tasks -> TaskRows]
      BY DEF TasksInv, SchedulesTypeOK
    <2>2. /\ phase' \in [Dispatchers -> {"idle", "acting", "completing", "retrying", "moving on", "failing"}]
          /\ dispatch' \in [Dispatchers -> [task : Tasks \cup {NoTask},
                                           occurrence : 0..(MaxClock + 1), seen : TaskRows]]
      BY DEF TasksInv, SchedulesTypeOK
    <2> QED
      BY <2>1, <2>2 DEF TasksInv, SchedulesTypeOK
  <1>3. \A u \in Tasks : Occurs(u)'
    <2>1. clock[t] \in 0..MaxClock
      BY DEF TasksInv, SchedulesTypeOK
    <2>2. ASSUME NEW u \in Tasks \ {t}  PROVE Occurs(u)'
      BY <1>1 DEF TasksInv, Occurs
    <2>3. Occurs(t)'
      <3>1. Occurs(t) /\ row'[t] = r /\ clock'[t] = clock[t]
        BY <1>1 DEF TasksInv
      <3> QED
        BY <2>1, <3>1 DEF Occurs
    <2> QED
      BY <2>2, <2>3
  <1>4. ASSUME NEW v \in Dispatchers \ {w}
        PROVE  Bound(v)'
    <2>1. Bound(v)
      BY DEF TasksInv
    <2>2. CASE phase[v] = "idle"
      BY <1>1, <2>1, <2>2 DEF Task, Bound
    <2>3. CASE phase[v] # "idle"
      <3>1. Dispatching(v)
        BY <2>1, <2>3 DEF Bound
      <3>2. PICK u \in Tasks, n \in 1..(MaxClock + 1), k \in TaskRows :
              dispatch[v].task = u /\ dispatch[v].occurrence = n /\ dispatch[v].seen = k
        BY <3>1 DEF Dispatching, Task, TasksInv, SchedulesTypeOK
      <3>3. /\ phase'[v] = phase[v] /\ UNCHANGED <<clock, fired>>
            /\ dispatch'[v].task = u /\ dispatch'[v].occurrence = n /\ dispatch'[v].seen = k
        BY <1>1, <3>2
      <3>4. /\ row'[u].status # "absent" /\ row'[u].recurs = row[u].recurs
            /\ row'[u].next \in Moved(u, n) /\ (~row'[u].recurs => n = 1)
        <4>1. /\ row[u].status # "absent" /\ row[u].next \in Moved(u, n)
              /\ ~row[u].recurs => n = 1
          BY <3>1, <3>2 DEF Dispatching, Task
        <4>2. CASE u # t
          <5>1. row'[u] = row[u]
            BY <1>1, <4>2
          <5> QED
            BY <4>1, <5>1
        <4>3. CASE u = t
          <5>1. row'[u] = r /\ r.recurs = row[u].recurs /\ r.status # "absent"
            BY <1>1, <4>3
          <5>2. r.next \in Moved(u, n)
            BY <4>1, <4>3 DEF Moved
          <5> QED
            BY <4>1, <5>1, <5>2
        <4> QED
          BY <4>2, <4>3
      <3>5. /\ phase[v] \in {"completing", "moving on"} => n \in fired[u]
            /\ phase[v] \in {"moving on", "failing"} =>
                 /\ k.next \in Moved(u, n) /\ k.recurs = row[u].recurs
                 /\ k.status \notin {"absent", "cancelled"}
        BY <3>1, <3>2 DEF Dispatching, Task
      <3>6. Moved(u, n)' = Moved(u, n)
        BY <3>3 DEF Moved
      <3>7. Dispatching(v)'
        BY <3>2, <3>3, <3>4, <3>5, <3>6 DEF Dispatching, Task
      <3> QED
        BY <2>3, <3>3, <3>7 DEF Bound
    <2> QED
      BY <2>2, <2>3
  <1> QED
    BY <1>2, <1>3, <1>4 DEF TasksInv

\* A claim takes the occurrence of the row.
LEMMA ClaimTaskOK ==
  ASSUME TasksInv, NEW w \in Dispatchers, NEW t \in Tasks, ClaimTask(w, t)
  PROVE  TasksInv' /\ LeavesNothing /\ StaysCancelled
  <1> DEFINE r == [row[t] EXCEPT !.status = "processing", !.attempts = row[t].attempts + 1]
             d == [dispatch[w] EXCEPT !.task = t, !.occurrence = row[t].next]
  <1>0. /\ phase[w] = "idle" /\ Claimable(t) /\ row[t].attempts < TaskAttempts
        /\ row' = [row EXCEPT ![t] = r]
        /\ lapsed' = [lapsed EXCEPT ![t] = FALSE]
        /\ phase' = [phase EXCEPT ![w] = "acting"]
        /\ dispatch' = [dispatch EXCEPT ![w] = d]
        /\ UNCHANGED <<clock, fired>>
    <2>1. row \in [Tasks -> TaskRows]
      BY DEF TasksInv, SchedulesTypeOK
    <2> QED
      BY <2>1 DEF ClaimTask, Proceed, TriesLeft
  <1>1. row[t] \in TaskRows /\ dispatch[w] \in [task : Tasks \cup {NoTask},
                                 occurrence : 0..(MaxClock + 1), seen : TaskRows]
    BY DEF TasksInv, SchedulesTypeOK
  <1>2. /\ r \in TaskRows /\ r.status = "processing" /\ r.next = row[t].next
        /\ r.recurs = row[t].recurs
    <2>1. row[t].attempts + 1 \in 0..TaskAttempts
      BY <1>0, <1>1, SchedulesAssumption DEF TaskRows
    <2> QED
      BY <1>1, <2>1 DEF TaskRows, TaskStatuses
  <1>3. /\ d \in [task : Tasks \cup {NoTask}, occurrence : 0..(MaxClock + 1), seen : TaskRows]
        /\ d.task = t /\ d.occurrence = row[t].next
    <2>1. row[t].next \in 0..(MaxClock + 1)
      BY <1>1, SchedulesAssumption DEF TaskRows
    <2> QED
      BY <1>1, <2>1
  <1>4. row[t].status \notin {"absent", "cancelled"}
    BY <1>0 DEF Claimable
  <1> HIDE DEF r, d
  <1>5. /\ row'[t] = r /\ \A u \in Tasks \ {t} : row'[u] = row[u]
        /\ dispatch'[w] = d /\ phase'[w] = "acting"
        /\ lapsed' \in [Tasks -> BOOLEAN]
    BY <1>0 DEF TasksInv, SchedulesTypeOK
  <1>6. Bound(w)'
    <2>1. (~row[t].recurs => row[t].next = 1) /\ row[t].next \in 1..(MaxClock + 1)
      BY <1>1 DEF TasksInv, Occurs, TaskRows
    <2>2. /\ Task(w)' = t /\ dispatch'[w].occurrence = row[t].next /\ phase'[w] = "acting"
          /\ row'[t].next = row[t].next /\ row'[t].recurs = row[t].recurs
          /\ row'[t].status = "processing"
      BY <1>2, <1>3, <1>5 DEF Task
    <2>3. PICK n \in 1..(MaxClock + 1) : n = row[t].next
      BY <2>1
    <2>4. /\ dispatch'[w].task = t /\ dispatch'[w].occurrence = n /\ row'[t].next = n
          /\ (~row'[t].recurs => n = 1) /\ row'[t].status # "absent"
      BY <1>3, <1>5, <2>1, <2>2, <2>3
    <2>5. n \in Moved(t, n)'
      BY DEF Moved
    <2>6. Dispatching(w)'
      BY <2>2, <2>4, <2>5 DEF Dispatching, Task
    <2> QED
      BY <2>2, <2>6 DEF Bound
  <1>7. TasksInv'
    <2>1. /\ row[t].status # "absent" /\ r.status # "absent" /\ "acting" \in {"idle", "acting", "retrying"}
          /\ UNCHANGED <<clock, fired>> /\ (r.next = row[t].next \/ (r.next = clock[t] + 1 /\ row[t].recurs))
      BY <1>0, <1>2, <1>4
    <2> QED
      BY <1>0, <1>2, <1>3, <1>5, <1>6, <2>1, RowAndWorkerOK
  <1>8. LeavesNothing /\ StaysCancelled
    BY <1>2, <1>4, <1>5, RowStands
  <1> QED
    BY <1>7, <1>8

\* The action of a task, or its failure.
LEMMA ActOK ==
  ASSUME TasksInv, NEW w \in Dispatchers, Act(w) \/ ActFails(w)
  PROVE  TasksInv' /\ LeavesNothing /\ StaysCancelled
  <1>1. /\ phase[w] = "acting" /\ Dispatching(w) /\ Task(w) \in Tasks
        /\ UNCHANGED <<row, lapsed, clock, dispatch>>
    BY DEF Act, ActFails, TasksInv, Bound, Dispatching
  <1>2. /\ dispatch[w] \in [task : Tasks \cup {NoTask}, occurrence : 0..(MaxClock + 1), seen : TaskRows]
        /\ dispatch' = [dispatch EXCEPT ![w] = dispatch[w]]
        /\ fired \in [Tasks -> SUBSET (1..(MaxClock + 1))]
    BY <1>1 DEF TasksInv, SchedulesTypeOK
  <1>3. CASE Act(w)
    <2> DEFINE t == Task(w)
               n == dispatch[w].occurrence
    <2>1. fired' = [fired EXCEPT ![t] = fired[t] \cup {n}] /\ phase' = [phase EXCEPT ![w] = "completing"]
      BY <1>3 DEF Act, Proceed
    <2>2. n \in 1..(MaxClock + 1)
      BY <1>1 DEF Dispatching
    <2>3. /\ \A u \in Tasks : fired[u] \subseteq fired'[u]
          /\ fired' \in [Tasks -> SUBSET (1..(MaxClock + 1))]
          /\ n \in fired'[t]
      BY <1>1, <1>2, <2>1, <2>2
    <2>4. phase'[w] = "completing"
      BY <2>1 DEF TasksInv, SchedulesTypeOK
    <2>5. Bound(w)'
      BY <1>1, <2>3, <2>4 DEF Bound, Dispatching, Task, Moved
    <2> QED
      BY <1>1, <1>2, <2>1, <2>3, <2>5, WorkerOK
  <1>4. CASE ActFails(w)
    <2>1. phase' = [phase EXCEPT ![w] = "retrying"] /\ UNCHANGED fired
      BY <1>4 DEF ActFails, Proceed, OnActionError
    <2>2. phase'[w] = "retrying"
      BY <2>1 DEF TasksInv, SchedulesTypeOK
    <2>3. Bound(w)'
      BY <1>1, <2>1, <2>2 DEF Bound, Dispatching, Task, Moved
    <2> QED
      BY <1>1, <1>2, <2>1, <2>3, WorkerOK
  <1> QED
    BY <1>3, <1>4

\* A worker that is idle holds no task.
LEMMA NoDispatchOK ==
  /\ AbsentRow \in TaskRows /\ AbsentRow.next = 1 /\ AbsentRow.status = "absent"
  /\ NoDispatch \in [task : Tasks \cup {NoTask}, occurrence : 0..(MaxClock + 1), seen : TaskRows]
  /\ NoDispatch.task = NoTask
  <1>1. 0 \in 0..TaskAttempts /\ 1 \in 1..(MaxClock + 1) /\ 0 \in 0..(MaxClock + 1)
    BY SchedulesAssumption
  <1>2. NewRow(FALSE) \in TaskRows /\ NewRow(FALSE).next = 1
    BY <1>1 DEF NewRow, TaskRows, TaskStatuses
  <1>3. AbsentRow \in TaskRows /\ AbsentRow.next = 1 /\ AbsentRow.status = "absent"
    BY <1>2 DEF AbsentRow, TaskRows, TaskStatuses
  <1> QED
    BY <1>1, <1>3 DEF NoDispatch

\* The read of an outcome: a cancelled row ends the dispatch.
LEMMA ReadOK ==
  ASSUME TasksInv, NEW w \in Dispatchers, Read(w)
  PROVE  TasksInv' /\ LeavesNothing /\ StaysCancelled
  <1>0. phase[w] \in {"completing", "retrying"} /\ UNCHANGED <<row, lapsed, clock, fired>>
    BY DEF Read
  <1>1. /\ row \in [Tasks -> TaskRows]
        /\ fired \in [Tasks -> SUBSET (1..(MaxClock + 1))]
        /\ phase \in [Dispatchers -> {"idle", "acting", "completing", "retrying", "moving on", "failing"}]
        /\ dispatch \in [Dispatchers -> [task : Tasks \cup {NoTask},
                                        occurrence : 0..(MaxClock + 1), seen : TaskRows]]
    BY DEF TasksInv, SchedulesTypeOK
  <1>2. Dispatching(w)
    BY <1>0 DEF TasksInv, Bound
  <1>3. PICK t \in Tasks, n \in 1..(MaxClock + 1) :
          dispatch[w].task = t /\ dispatch[w].occurrence = n
    BY <1>2 DEF Dispatching, Task
  <1>4. /\ row[t].status # "absent" /\ row[t].next \in Moved(t, n) /\ (~row[t].recurs => n = 1)
        /\ phase[w] = "completing" => n \in fired[t]
    BY <1>2, <1>3 DEF Dispatching, Task
  <1>5. CASE row[t].status = "cancelled"
    <2>1. phase' = [phase EXCEPT ![w] = "idle"] /\ dispatch' = [dispatch EXCEPT ![w] = NoDispatch]
      BY <1>3, <1>5 DEF Read, LeaveTask, Proceed, Cancelled, Task
    <2>2. NoDispatch \in [task : Tasks \cup {NoTask}, occurrence : 0..(MaxClock + 1), seen : TaskRows]
          /\ NoDispatch.task = NoTask
      BY NoDispatchOK
    <2>3. phase'[w] = "idle" /\ dispatch'[w] = NoDispatch
      BY <1>1, <2>1
    <2>4. Bound(w)'
      BY <2>2, <2>3 DEF Bound, Task
    <2> QED
      BY <1>0, <1>1, <2>1, <2>2, <2>4, WorkerOK
  <1>6. CASE row[t].status # "cancelled"
    <2> DEFINE l == IF phase[w] = "completing" THEN "moving on" ELSE "failing"
               d == [dispatch[w] EXCEPT !.seen = row[t]]
    <2>1. phase' = [phase EXCEPT ![w] = l] /\ dispatch' = [dispatch EXCEPT ![w] = d]
      BY <1>1, <1>3, <1>6 DEF Read, Proceed, Cancelled, Task
    <2>2. /\ d \in [task : Tasks \cup {NoTask}, occurrence : 0..(MaxClock + 1), seen : TaskRows]
          /\ d.task = t /\ d.occurrence = n /\ d.seen = row[t]
      BY <1>1, <1>3
    <2>3. l \in {"moving on", "failing"} /\ (l = "moving on" => n \in fired[t])
      BY <1>4
    <2> HIDE DEF l, d
    <2>4. phase'[w] = l /\ dispatch'[w] = d
      BY <1>1, <2>1
    <2>5. /\ row'[t].status # "absent" /\ row'[t].next \in Moved(t, n)' /\ (~row'[t].recurs => n = 1)
          /\ d.seen.next \in Moved(t, n)' /\ d.seen.recurs = row'[t].recurs
          /\ d.seen.status \notin {"absent", "cancelled"}
          /\ phase'[w] = "moving on" => n \in fired'[t]
          /\ phase'[w] \in {"moving on", "failing"}
      BY <1>0, <1>4, <1>6, <2>2, <2>3, <2>4 DEF Moved
    <2>6. Dispatching(w)'
      BY <2>2, <2>4, <2>5 DEF Dispatching, Task
    <2>7. Bound(w)'
      BY <2>5, <2>6 DEF Bound
    <2>8. /\ \A u \in Tasks : fired[u] \subseteq fired'[u]
          /\ fired' \in [Tasks -> SUBSET (1..(MaxClock + 1))]
          /\ l \in {"idle", "acting", "completing", "retrying", "moving on", "failing"}
      BY <1>0, <1>1, <2>3
    <2> QED
      BY <1>0, <2>1, <2>2, <2>7, <2>8, WorkerOK
  <1> QED
    BY <1>5, <1>6

\* A worker that dies, or is ended by an error.
LEMMA DieOK ==
  ASSUME TasksInv, NEW w \in Dispatchers, DispatcherDies(w)
  PROVE  TasksInv' /\ LeavesNothing /\ StaysCancelled
  <1>1. /\ phase' = [phase EXCEPT ![w] = "idle"] /\ dispatch' = [dispatch EXCEPT ![w] = NoDispatch]
        /\ UNCHANGED <<row, lapsed, clock, fired>>
    BY DEF DispatcherDies, LeaveTask, Proceed
  <1>2. /\ NoDispatch \in [task : Tasks \cup {NoTask}, occurrence : 0..(MaxClock + 1), seen : TaskRows]
        /\ NoDispatch.task = NoTask
    BY NoDispatchOK
  <1>3. phase'[w] = "idle" /\ dispatch'[w] = NoDispatch
        /\ fired \in [Tasks -> SUBSET (1..(MaxClock + 1))]
    BY <1>1 DEF TasksInv, SchedulesTypeOK
  <1>4. Bound(w)'
    BY <1>2, <1>3 DEF Bound, Task
  <1> QED
    BY <1>1, <1>2, <1>3, <1>4, WorkerOK

\* The write of an outcome.  A read row that is not the stored one any more differs from it
\* in columns the UPDATE leaves alone, or in the next occurrence, which both have moved to.
LEMMA StoreOK ==
  ASSUME TasksInv, NEW w \in Dispatchers, NEW lost \in BOOLEAN, MoveOn(w, lost) \/ FailTask(w)
  PROVE  TasksInv' /\ LeavesNothing /\ StaysCancelled
  <1>1. /\ row \in [Tasks -> TaskRows] /\ lapsed \in [Tasks -> BOOLEAN]
        /\ clock \in [Tasks -> 0..MaxClock]
        /\ phase \in [Dispatchers -> {"idle", "acting", "completing", "retrying", "moving on", "failing"}]
        /\ dispatch \in [Dispatchers -> [task : Tasks \cup {NoTask},
                                        occurrence : 0..(MaxClock + 1), seen : TaskRows]]
    BY DEF TasksInv, SchedulesTypeOK
  <1>2. phase[w] \in {"moving on", "failing"} /\ Dispatching(w) /\ UNCHANGED <<clock, fired>>
    BY DEF MoveOn, FailTask, TasksInv, Bound
  <1>3. PICK t \in Tasks, n \in 1..(MaxClock + 1), k \in TaskRows :
          dispatch[w].task = t /\ dispatch[w].occurrence = n /\ dispatch[w].seen = k
    BY <1>1, <1>2 DEF Dispatching, Task
  <1>4. /\ row[t].status # "absent" /\ row[t].next \in Moved(t, n) /\ (~row[t].recurs => n = 1)
        /\ phase[w] = "moving on" => n \in fired[t]
        /\ k.next \in Moved(t, n) /\ k.recurs = row[t].recurs
        /\ k.status \notin {"absent", "cancelled"}
    BY <1>2, <1>3 DEF Dispatching, Task
  <1>5. PICK new \in TaskRows :
          /\ row' = [row EXCEPT ![t] = Updated(row[t], k, new)]
          /\ lapsed' = [lapsed EXCEPT ![t] = FALSE]
          /\ new.recurs = k.recurs
          /\ \/ /\ FailTask(w) /\ phase[w] = "failing" /\ new.status = "failed" /\ new.next = k.next
             \/ /\ MoveOn(w, lost) /\ phase[w] = "moving on"
                /\ new.status = (IF k.recurs THEN "active" ELSE "completed")
                /\ new.next = (IF k.recurs /\ k.next <= clock[t] THEN clock[t] + 1 ELSE k.next)
    <2>1. CASE FailTask(w)
      <3> DEFINE new == [k EXCEPT !.status = "failed"]
      <3>1. new \in TaskRows /\ new.recurs = k.recurs /\ new.status = "failed" /\ new.next = k.next
        BY DEF TaskRows, TaskStatuses
      <3>2. /\ row' = [row EXCEPT ![t] = Updated(row[t], k, new)]
            /\ lapsed' = [lapsed EXCEPT ![t] = FALSE] /\ phase[w] = "failing"
        BY <1>3, <2>1 DEF FailTask, StoreRow, Task
      <3> QED
        BY <2>1, <3>1, <3>2
    <2>2. CASE MoveOn(w, lost)
      <3>1. clock[t] \in 0..MaxClock /\ clock[t] + 1 \in 1..(MaxClock + 1)
        <4>1. clock[t] \in 0..MaxClock
          BY <1>1
        <4> QED
          BY <4>1, SchedulesAssumption
      <3> DEFINE new == Completed(t, k)
      <3>2. k \in [status : TaskStatuses, attempts : 0..TaskAttempts, next : 1..(MaxClock + 1),
                   recurs : BOOLEAN]
        BY DEF TaskRows
      <3>3. new.status = (IF k.recurs THEN "active" ELSE "completed")
        BY <3>2 DEF Completed
      <3>4. new.next = (IF k.recurs /\ k.next <= clock[t] THEN clock[t] + 1 ELSE k.next)
        BY <3>2 DEF Completed, NextOccurrence
      <3>5. new.recurs = k.recurs /\ new.attempts = 0
        BY <3>2 DEF Completed, AttemptsAfterRun
      <3>6. new.next \in 1..(MaxClock + 1) /\ 0 \in 0..TaskAttempts
        BY <3>1, <3>2, <3>4, SchedulesAssumption
      <3>7. new.status \in TaskStatuses
        BY <3>3 DEF TaskStatuses
      <3>8. new \in TaskRows
        BY <3>2, <3>5, <3>6, <3>7 DEF Completed, TaskRows
      <3>9. /\ row' = [row EXCEPT ![t] = Updated(row[t], k, new)]
            /\ lapsed' = [lapsed EXCEPT ![t] = FALSE] /\ phase[w] = "moving on"
        BY <1>3, <2>2 DEF MoveOn, StoreRow, Task
      <3> HIDE DEF new
      <3> QED
        BY <2>2, <3>3, <3>4, <3>5, <3>8, <3>9
    <2> QED
      BY <2>1, <2>2
  <1> DEFINE r == Updated(row[t], k, new)
  <1>6. row[t] \in TaskRows
    BY <1>1
  <1>7. /\ r \in TaskRows
        /\ r.status = IF new.status = k.status THEN row[t].status ELSE new.status
        /\ r.next = IF new.next = k.next THEN row[t].next ELSE new.next
        /\ r.recurs = IF new.recurs = k.recurs THEN row[t].recurs ELSE new.recurs
    BY <1>6, UpdatedRow
  <1> HIDE DEF r
  <1>8. /\ r.recurs = row[t].recurs /\ r.status # "absent"
        /\ r.next = row[t].next \/ (r.next = clock[t] + 1 /\ row[t].recurs)
    <2>1. r.recurs = row[t].recurs
      BY <1>5, <1>7
    <2>2. r.status # "absent"
      BY <1>4, <1>5, <1>7
    <2>3. r.next = row[t].next \/ (r.next = clock[t] + 1 /\ row[t].recurs)
      BY <1>4, <1>5, <1>7
    <2> QED
      BY <2>1, <2>2, <2>3
  <1>9. row'[t] = r /\ (\A u \in Tasks \ {t} : row'[u] = row[u]) /\ lapsed' \in [Tasks -> BOOLEAN]
    BY <1>1, <1>5 DEF r
  <1>10. TasksInv'
    <2>1. row' = [row EXCEPT ![t] = r]
      BY <1>5 DEF r
    <2>2. CASE phase' = [phase EXCEPT ![w] = "idle"] /\ dispatch' = [dispatch EXCEPT ![w] = NoDispatch]
      <3>1. /\ NoDispatch \in [task : Tasks \cup {NoTask}, occurrence : 0..(MaxClock + 1), seen : TaskRows]
            /\ NoDispatch.task = NoTask
        BY NoDispatchOK
      <3>2. phase'[w] = "idle" /\ dispatch'[w] = NoDispatch
        BY <1>1, <2>2
      <3>3. Bound(w)'
        BY <3>1, <3>2 DEF Bound, Task
      <3>4. "idle" \in {"idle", "acting", "retrying"}
        OBVIOUS
      <3> QED
        BY <1>2, <1>4, <1>7, <1>8, <1>9, <2>1, <2>2, <3>1, <3>3, <3>4, RowAndWorkerOK
    <2>3. CASE phase' = [phase EXCEPT ![w] = "retrying"] /\ UNCHANGED dispatch
      <3>1. phase'[w] = "retrying" /\ dispatch'[w] = dispatch[w]
            /\ dispatch' = [dispatch EXCEPT ![w] = dispatch[w]]
        BY <1>1, <2>3
      <3>2. r.next \in Moved(t, n)' /\ (~r.recurs => n = 1)
        BY <1>2, <1>4, <1>8 DEF Moved
      <3>3. Dispatching(w)'
        BY <1>3, <1>8, <1>9, <3>1, <3>2 DEF Dispatching, Task
      <3>4. Bound(w)'
        BY <3>1, <3>3 DEF Bound
      <3>5. "retrying" \in {"idle", "acting", "retrying"}
            /\ dispatch[w] \in [task : Tasks \cup {NoTask}, occurrence : 0..(MaxClock + 1), seen : TaskRows]
        BY <1>1
      <3>6. phase' = [phase EXCEPT ![w] = "retrying"] /\ UNCHANGED <<clock, fired>>
        BY <1>2, <2>3
      <3>7. r \in TaskRows /\ row[t].status # "absent"
        BY <1>4, <1>7
      <3> QED
        BY <1>8, <1>9, <2>1, <3>1, <3>4, <3>5, <3>6, <3>7, RowAndWorkerOK
    <2> QED
      BY <2>2, <2>3 DEF MoveOn, FailTask, LeaveTask, Proceed
  <1>11. LeavesNothing
    <2>1. r.next # row[t].next => row[t].next \in fired[t]
      BY <1>4, <1>5, <1>7 DEF Moved
    <2>2. row[t].status # "completed" /\ r.status = "completed" => row[t].next \in fired[t]
      <3> SUFFICES ASSUME row[t].status # "completed", r.status = "completed"
                   PROVE  row[t].next \in fired[t]
        OBVIOUS
      <3>1. phase[w] = "moving on" /\ ~row[t].recurs
        BY <1>4, <1>5, <1>7
      <3>2. row[t].next = 1
        BY <3>1 DEF TasksInv, Occurs
      <3> QED
        BY <1>4, <3>1, <3>2
    <2> QED
      BY <1>9, <2>1, <2>2 DEF LeavesNothing
  <1>12. StaysCancelled
    BY <1>2, <1>3, <1>4, <1>9 DEF StaysCancelled, Task
  <1> QED
    BY <1>10, <1>11, <1>12

\* No task has been created, and the workers are idle.
LEMMA TasksInitially == SchedulesInit => TasksInv
  <1> SUFFICES ASSUME SchedulesInit  PROVE TasksInv
    OBVIOUS
  <1>1. SchedulesTypeOK
    <2>1. 0 \in 0..MaxClock
      BY SchedulesAssumption
    <2> QED
      BY <2>1, NoDispatchOK DEF SchedulesInit, SchedulesTypeOK
  <1>2. \A t \in Tasks : Occurs(t)
    BY NoDispatchOK DEF SchedulesInit, Occurs
  <1>3. \A w \in Dispatchers : Bound(w)
    BY NoDispatchOK DEF SchedulesInit, Bound, Task
  <1> QED
    BY <1>1, <1>2, <1>3 DEF TasksInv

\* Every step of the clock, of a request and of a worker.
LEMMA TasksStep ==
  ASSUME TasksInv, [SchedulesNext]_taskVars
  PROVE  TasksInv' /\ LeavesNothing /\ StaysCancelled
  <1>1. CASE UNCHANGED taskVars
    <2>1. UNCHANGED <<row, lapsed, clock, fired, phase, dispatch>>
      BY <1>1 DEF taskVars
    <2>2. SchedulesTypeOK'
      BY <2>1 DEF TasksInv, SchedulesTypeOK
    <2> QED
      BY <2>1, <2>2, Undisturbed, RowStands
  <1>2. CASE SchedulesNext
    <2>1. ASSUME NEW t \in Tasks, NEW recurs \in BOOLEAN, Create(t, recurs) \/ Cancel(t) \/ Lapse(t)
          PROVE  TasksInv' /\ LeavesNothing /\ StaysCancelled
      BY <2>1, RequestOK
    <2>2. ASSUME NEW t \in Tasks, Tick(t)
          PROVE  TasksInv' /\ LeavesNothing /\ StaysCancelled
      BY <2>2, TickOK
    <2>3. ASSUME NEW w \in Dispatchers, PollTasks(w)
          PROVE  TasksInv' /\ LeavesNothing /\ StaysCancelled
      BY <2>3, ClaimTaskOK DEF PollTasks
    <2>4. ASSUME NEW w \in Dispatchers, DispatchStep(w)
          PROVE  TasksInv' /\ LeavesNothing /\ StaysCancelled
      BY <2>4, ActOK, ReadOK, StoreOK DEF DispatchStep
    <2>5. ASSUME NEW w \in Dispatchers, DispatcherDies(w)
          PROVE  TasksInv' /\ LeavesNothing /\ StaysCancelled
      BY <2>5, DieOK
    <2> QED
      BY <1>2, <2>1, <2>2, <2>3, <2>4, <2>5 DEF SchedulesNext
  <1> QED
    BY <1>1, <1>2

\* And so throughout a behaviour.
LEMMA TasksSteps == SchedulesSpec => []TasksInv /\ [][LeavesNothing /\ StaysCancelled]_taskVars
  <1>1. TasksInv /\ [SchedulesNext]_taskVars => TasksInv' /\ [LeavesNothing /\ StaysCancelled]_taskVars
    BY TasksStep
  <1> QED
    BY <1>1, TasksInitially, PTL DEF SchedulesSpec

\* The rows and the workers of the durable clock keep their shape; attempts stay within
\* scheduled_task_max_attempts.
THEOREM TasksTypes == SchedulesSpec => []SchedulesTypeOK
  <1>1. TasksInv => SchedulesTypeOK
    BY DEF TasksInv
  <1> QED
    BY <1>1, TasksSteps, PTL

\* _complete_task and _retry_task, each a read and a later write without a lock, never move a
\* task past an occurrence whose event is not in the outbox, nor complete one that was not done.
THEOREM NothingLeft == SchedulesSpec => NothingLeftBehind
  <1>1. [LeavesNothing /\ StaysCancelled]_taskVars =>
          [\A t \in Tasks :
             row'[t].next # row[t].next \/ (row[t].status # "completed" /\ row'[t].status = "completed")
               => row[t].next \in fired[t]]_taskVars
    BY DEF LeavesNothing
  <1> QED
    BY <1>1, TasksSteps, PTL DEF NothingLeftBehind

\* A task the user has cancelled is revived by no claim and by no outcome that was read after
\* the cancellation.
THEOREM TasksCancelled == SchedulesSpec => TasksStayCancelled
  <1>1. [LeavesNothing /\ StaysCancelled]_taskVars =>
          [\A t \in Tasks :
             row[t].status = "cancelled" /\ row'[t].status # "cancelled"
               => \E w \in Dispatchers : Task(w) = t /\ phase[w] \in {"moving on", "failing"}
                                      /\ dispatch[w].seen.status # "cancelled"]_taskVars
    BY DEF StaysCancelled
  <1> QED
    BY <1>1, TasksSteps, PTL DEF TasksStayCancelled

(***************************************************************************)
(* Follow-ups.                                                             *)
(***************************************************************************)

\* Before a dispatch settles its row, and while the words of a turn are made.
Early == {"checking", "resolving", "waiting", "running", "persisting"}
Wording == {"running", "persisting"}

\* What a dispatch knows of the follow-up f: what was stored and heard when it is at l, and what
\* it cannot have read in order to settle the row.
Engaged(l, f, seen) ==
  /\ f \in Sources /\ status[f] # "absent" /\ attempts[f] >= 1
  /\ l \in Wording => ~worded[f]
  /\ l \in {"delivering", "completing"} => worded[f]
  /\ l = "completing" => heard[f]
  /\ seen # "unread" => l \in Settling /\ ~LeavesAlone(l, seen) /\ seen # "absent"

\* The first dispatch of a follow-up finds the row as it has claimed it, or cancelled; what the
\* user says meanwhile cancels it.
FirstOf(l, f) ==
  attempts[f] <= 1 =>
    /\ l \in Early => status[f] \in {"processing", "cancelled"}
    /\ newer[f] /\ l \in {"resolving", "waiting", "running"} => status[f] = "cancelled"

SpeakerOK(w) ==
  IF At(w) = "idle" THEN work[w] = NoWork
                    ELSE Engaged(At(w), Follow(w), work[w].seen) /\ FirstOf(At(w), Follow(w))

\* A row comes with the turn that left it; what was heard was worded before.
SourceOK(s) ==
  /\ status[s] # "absent" => turn[s] = "done"
  /\ status[s] = "completed" => heard[s]
  /\ heard[s] => worded[s]

\* A second dispatch of a follow-up is a second attempt.
OneByOne ==
  \A v, w \in Speakers :
    v # w /\ At(v) # "idle" /\ At(w) # "idle" /\ Follow(v) = Follow(w) => attempts[Follow(w)] >= 2

\* One turn of the conversation is worded at a time.
LockKept ==
  \A w \in Speakers : At(w) \in Wording =>
    /\ \A s \in Sources : turn[s] \notin Wording
    /\ \A v \in Speakers : v # w => At(v) \notin Wording

FollowInv ==
  /\ FollowUpsTypeOK
  /\ \A s \in Sources : SourceOK(s)
  /\ \A w \in Speakers : SpeakerOK(w)
  /\ OneByOne
  /\ LockKept

FollowTypes ==
  /\ optOut \in BOOLEAN
  /\ turn \in [Sources -> {"absent", "waiting", "running", "persisting", "done"}]
  /\ born \in [Sources -> Nat]
  /\ newer \in [Sources -> BOOLEAN]
  /\ status \in [Sources -> FollowUpStatuses]
  /\ ripe \in [Sources -> BOOLEAN]

\* What the user, the turns and the clock do to a source s: rows appear at the end of their turn
\* and are cancelled, and a message that is newer than a row cancels it.
BySource(s) ==
  /\ \/ status'[s] = status[s]
     \/ status[s] \in {"pending", "processing"} /\ status'[s] = "cancelled"
     \/ status[s] = "absent" /\ status'[s] = "pending" /\ turn'[s] = "done"
  /\ turn[s] = "done" => turn'[s] = "done"
  /\ newer'[s] => newer[s] \/ status'[s] \notin {"pending", "processing"}
  /\ turn'[s] \in Wording => turn[s] \in Wording \/ \A v \in Speakers : At(v) \notin Wording

\* Such steps disturb no dispatch.
LEMMA SourcesOK ==
  ASSUME FollowInv, FollowTypes', UNCHANGED <<attempts, worded, heard, pc, work>>,
         \A s \in Sources : BySource(s)
  PROVE  FollowInv'
  <1>1. FollowUpsTypeOK'
    BY DEF FollowInv, FollowUpsTypeOK, FollowTypes
  <1>2. ASSUME NEW s \in Sources  PROVE SourceOK(s)'
    <2>1. BySource(s) /\ SourceOK(s)
      BY DEF FollowInv
    <2>2. worded'[s] = worded[s] /\ heard'[s] = heard[s]
      OBVIOUS
    <2> QED
      BY <2>1, <2>2 DEF BySource, SourceOK
  <1>3. ASSUME NEW w \in Speakers  PROVE SpeakerOK(w)'
    <2>1. SpeakerOK(w) /\ At(w)' = At(w) /\ work'[w] = work[w] /\ Follow(w)' = Follow(w)
      BY DEF FollowInv, At, Follow
    <2>2. CASE At(w) = "idle"
      BY <2>1, <2>2 DEF SpeakerOK
    <2>3. CASE At(w) # "idle"
      <3>1. PICK f \in Sources, l \in Labels, k \in FollowUpStatuses \cup {"unread"} :
              Follow(w) = f /\ At(w) = l /\ work[w].seen = k
        BY <2>1, <2>3 DEF SpeakerOK, Engaged, FollowInv, FollowUpsTypeOK, At, Follow
      <3>2. Engaged(l, f, k) /\ FirstOf(l, f) /\ BySource(f)
        BY <2>1, <2>3, <3>1 DEF SpeakerOK
      <3>3. worded'[f] = worded[f] /\ heard'[f] = heard[f] /\ attempts'[f] = attempts[f]
        OBVIOUS
      <3>4. Engaged(l, f, k)'
        BY <3>2, <3>3 DEF Engaged, BySource
      <3>5. FirstOf(l, f)'
        BY <3>2, <3>3 DEF FirstOf, BySource, Early
      <3> QED
        BY <2>1, <2>3, <3>1, <3>4, <3>5 DEF SpeakerOK
    <2> QED
      BY <2>2, <2>3
  <1>4. OneByOne'
    BY DEF FollowInv, OneByOne, At, Follow
  <1>5. LockKept'
    <2> SUFFICES ASSUME NEW w \in Speakers, At(w)' \in Wording
                 PROVE  /\ \A s \in Sources : turn'[s] \notin Wording
                        /\ \A v \in Speakers : v # w => At(v)' \notin Wording
      BY DEF LockKept, Wording
    <2>1. At(w) \in Wording /\ \A v \in Speakers : At(v)' = At(v)
      BY DEF At
    <2>2. /\ \A s \in Sources : turn[s] \notin Wording
          /\ \A v \in Speakers : v # w => At(v) \notin Wording
      BY <2>1 DEF FollowInv, LockKept
    <2> QED
      BY <2>1, <2>2 DEF BySource
  <1> QED
    BY <1>1, <1>2, <1>3, <1>4, <1>5 DEF FollowInv

\* What a step may do to a row and to the talk of a follow-up, and where a worker may go.
Revivals ==
  \A f \in Sources :
    status[f] = "cancelled" /\ status'[f] # "cancelled"
      => \E w \in Speakers : Follow(w) = f /\ work[w].seen \notin {"unread", "cancelled"}
RepliesFirst ==
  \A w \in Speakers :
    LET f == Follow(w)
    IN  pc'[w] # At(w) /\ pc'[w] \in {"running", "persisting"} /\ newer[f] => attempts[f] > 1
Tells == [Telling!Next]_(Telling!vars)

\* The steps of the promise of Telling that a step of a follow-up makes.
LEMMA NothingTold ==
  ASSUME UNCHANGED <<worded, heard>>, \A s \in Sources : status'[s] = "absent" <=> status[s] = "absent"
  PROVE  Tells
  <1>1. {f \in Sources : status'[f] # "absent"} = {f \in Sources : status[f] # "absent"}
    OBVIOUS
  <1> QED
    BY <1>1 DEF Tells, Telling!vars

\* A row that appears is an event that is raised.
LEMMA RowRaised ==
  ASSUME NEW e \in Sources, UNCHANGED <<worded, heard>>, status[e] = "absent", status'[e] # "absent",
         \A s \in Sources \ {e} : status'[s] = status[s]
  PROVE  Tells
  <1>1. {f \in Sources : status'[f] # "absent"} = {f \in Sources : status[f] # "absent"} \cup {e}
    OBVIOUS
  <1>2. Telling!Raise(e)
    BY <1>1 DEF Telling!Raise
  <1> QED
    BY <1>2 DEF Tells, Telling!Next

\* Words that are stored are the turn of an event.
LEMMA TurnTold ==
  ASSUME NEW e \in Sources, UNCHANGED <<status, heard>>, status[e] # "absent",
         worded \in [Sources -> BOOLEAN], ~worded[e], worded' = [worded EXCEPT ![e] = TRUE]
  PROVE  Tells
  <1> DEFINE told == [f \in Sources |-> IF worded[f] THEN 1 ELSE 0]
             now  == [f \in Sources |-> IF worded'[f] THEN 1 ELSE 0]
  <1>1. worded'[e] /\ \A f \in Sources \ {e} : worded'[f] = worded[f]
    OBVIOUS
  <1>2. told[e] = 0 /\ now = [told EXCEPT ![e] = 1]
    BY <1>1
  <1>3. Telling!Tell(e, 1)
    BY <1>2 DEF Telling!Tell
  <1>4. 1 \in 1..1
    OBVIOUS
  <1> QED
    BY <1>3, <1>4 DEF Tells, Telling!Next

\* Words that Linq has accepted are its bubbles.
LEMMA BubblesHeard ==
  ASSUME NEW e \in Sources, UNCHANGED <<status, worded>>, worded[e],
         heard \in [Sources -> BOOLEAN], ~heard[e], heard' = [heard EXCEPT ![e] = TRUE]
  PROVE  Tells
  <1> DEFINE before == [f \in Sources |-> IF heard[f] THEN {0} ELSE {}]
             now    == [f \in Sources |-> IF heard'[f] THEN {0} ELSE {}]
             told   == [f \in Sources |-> IF worded[f] THEN 1 ELSE 0]
  <1>1. heard'[e] /\ \A f \in Sources \ {e} : heard'[f] = heard[f]
    OBVIOUS
  <1>2. 0..(0 - 1) = {} /\ 0..0 = {0} /\ 0 \in 0..(1 - 1)
    OBVIOUS
  <1>3. before[e] = 0..(0 - 1) /\ now = [before EXCEPT ![e] = 0..0] /\ 0 < told[e]
    <2>1. before[e] = {} /\ now = [before EXCEPT ![e] = {0}]
      BY <1>1
    <2>2. 0 < told[e]
      OBVIOUS
    <2> HIDE DEF before, now, told
    <2> QED
      BY <1>2, <2>1, <2>2
  <1>4. Telling!Hear(e, 0)
    BY <1>3 DEF Telling!Hear
  <1> QED
    BY <1>2, <1>4 DEF Tells, Telling!Next

\* A message: it is newer than some follow-ups, and cancels those that are not said yet.
LEMMA ReceiveOK ==
  ASSUME FollowInv, NEW m \in Messages, NEW k \in 0..Cardinality(Sources),
         NEW word \in {"text", "stop", "start"}, Receive(m, k, word)
  PROVE  FollowInv' /\ Revivals /\ RepliesFirst /\ Tells
  <1>0. m \in Sources
    BY DEF Sources
  <1>1. /\ turn[m] = "absent"
        /\ newer' = [s \in Sources |-> newer[s] \/ (s \in Stamped /\ born[s] <= k)]
        /\ status' = [s \in Sources |-> IF status[s] \in CancelledByMessage THEN "cancelled"
                                                                           ELSE status[s]]
        /\ ripe' = [s \in Sources |-> ripe[s] /\ status[s] \notin CancelledByMessage]
        /\ UNCHANGED <<born, attempts, worded, heard, pc, work>>
    BY DEF Receive, talkVars, procVars
  <1>2. PICK t \in {"done", "waiting"} : turn' = [turn EXCEPT ![m] = t]
    BY DEF Receive
  <1>3. optOut' \in BOOLEAN
    BY DEF Receive, FollowInv, FollowUpsTypeOK
  <1>4. FollowTypes /\ (worded \in [Sources -> BOOLEAN])
    BY DEF FollowInv, FollowUpsTypeOK, FollowTypes
  <1>5. /\ turn' \in [Sources -> {"absent", "waiting", "running", "persisting", "done"}]
        /\ turn'[m] = t /\ \A s \in Sources \ {m} : turn'[s] = turn[s]
    BY <1>0, <1>2, <1>4 DEF FollowTypes
  <1>6. \A s \in Sources : /\ status'[s] = IF status[s] \in {"pending", "processing"} THEN "cancelled"
                                                                                ELSE status[s]
                           /\ newer'[s] \in BOOLEAN /\ ripe'[s] \in BOOLEAN
    BY <1>1, <1>4 DEF CancelledByMessage, FollowTypes
  <1>7. FollowTypes'
    <2>1. newer' \in [Sources -> BOOLEAN] /\ ripe' \in [Sources -> BOOLEAN]
      BY <1>1, <1>6
    <2>2. status' \in [Sources -> FollowUpStatuses]
      BY <1>1, <1>4, <1>6 DEF FollowTypes, FollowUpStatuses
    <2> QED
      BY <1>1, <1>3, <1>4, <1>5, <2>1, <2>2 DEF FollowTypes
  <1>8. ASSUME NEW s \in Sources  PROVE BySource(s)
    <2>1. turn[s] = "done" => turn'[s] = "done"
      BY <1>1, <1>5
    <2>2. turn'[s] \in Wording => turn[s] \in Wording
      BY <1>5 DEF Wording
    <2> QED
      BY <1>6, <2>1, <2>2 DEF BySource
  <1>9. FollowInv'
    BY <1>1, <1>7, <1>8, SourcesOK
  <1>10. Revivals /\ RepliesFirst
    BY <1>1, <1>6 DEF Revivals, RepliesFirst, At
  <1>11. Tells
    BY <1>1, <1>6, NothingTold
  <1> QED
    BY <1>9, <1>10, <1>11

\* The stamp of a follow-up is a number.
LEMMA StampOK ==
  Cardinality(Stamped) \in Nat
  <1>1. IsFiniteSet(Sources) /\ Stamped \subseteq Sources
    BY FollowUpsAssumption, FS_Union DEF Sources, Stamped
  <1> QED
    BY <1>1, FS_Subset, FS_CardinalityType

\* A turn goes on, ends, or commits its follow-up; the time of a row comes.
LEMMA TurnOK ==
  ASSUME FollowInv, NEW s \in Sources, (s \in Wakes /\ Wake(s)) \/ TurnStep(s) \/ Ripen(s)
  PROVE  FollowInv' /\ Revivals /\ RepliesFirst /\ Tells
  <1>0. FollowTypes
    BY DEF FollowInv, FollowUpsTypeOK, FollowTypes
  <1>u. UNCHANGED <<optOut, newer, attempts, worded, heard, pc, work>>
    BY DEF Wake, TurnStep, StartTurn, PlanFollowUp, CommitFollowUp, EndTurn, Ripen, talkVars,
           procVars, rowVars, userVars
  <1>1. ASSUME UNCHANGED <<born, status, ripe>>,
               NEW t \in {"waiting", "running", "done"}, turn' = [turn EXCEPT ![s] = t],
               turn[s] # "done", t = "running" => LockFree
        PROVE  FollowInv' /\ Revivals /\ RepliesFirst /\ Tells
    <2>1. /\ turn' \in [Sources -> {"absent", "waiting", "running", "persisting", "done"}]
          /\ turn'[s] = t /\ \A u \in Sources \ {s} : turn'[u] = turn[u]
      BY <1>0, <1>1 DEF FollowTypes
    <2>2. FollowTypes'
      BY <1>0, <1>u, <1>1, <2>1 DEF FollowTypes
    <2>3. t = "running" => \A v \in Speakers : At(v) \notin Wording
      BY <1>1 DEF LockFree, Wording
    <2>4. \A u \in Sources : BySource(u)
      BY <1>u, <1>1, <2>1, <2>3 DEF BySource, Wording
    <2>5. FollowInv'
      BY <1>u, <2>2, <2>4, SourcesOK
    <2> QED
      BY <1>u, <1>1, <2>5, NothingTold DEF Revivals, RepliesFirst, At
  <1>2. ASSUME s \in Wakes, Wake(s)
        PROVE  FollowInv' /\ Revivals /\ RepliesFirst /\ Tells
    BY <1>1, <1>2 DEF Wake, rowVars
  <1>3. ASSUME StartTurn(s)
        PROVE  FollowInv' /\ Revivals /\ RepliesFirst /\ Tells
    BY <1>1, <1>3 DEF StartTurn, rowVars
  <1>4. ASSUME EndTurn(s)
        PROVE  FollowInv' /\ Revivals /\ RepliesFirst /\ Tells
    BY <1>1, <1>4 DEF EndTurn, rowVars
  <1>5. ASSUME PlanFollowUp(s)
        PROVE  FollowInv' /\ Revivals /\ RepliesFirst /\ Tells
    <2>1. /\ turn[s] = "running" /\ turn' = [turn EXCEPT ![s] = "persisting"]
          /\ born' = [born EXCEPT ![s] = Cardinality(Stamped) + 1] /\ UNCHANGED <<status, ripe>>
      BY <1>5 DEF PlanFollowUp, rowVars
    <2>2. /\ turn' \in [Sources -> {"absent", "waiting", "running", "persisting", "done"}]
          /\ turn'[s] = "persisting" /\ \A u \in Sources \ {s} : turn'[u] = turn[u]
      BY <1>0, <2>1 DEF FollowTypes
    <2>3. born' \in [Sources -> Nat]
      <3>1. Cardinality(Stamped) + 1 \in Nat
        BY StampOK
      <3> QED
        BY <1>0, <2>1, <3>1 DEF FollowTypes
    <2>4. FollowTypes'
      BY <1>0, <1>u, <2>1, <2>2, <2>3 DEF FollowTypes
    <2>5. \A u \in Sources : BySource(u)
      BY <1>u, <2>1, <2>2 DEF BySource, Wording
    <2>6. FollowInv'
      BY <1>u, <2>4, <2>5, SourcesOK
    <2> QED
      BY <1>u, <2>1, <2>6, NothingTold DEF Revivals, RepliesFirst, At
  <1>6. ASSUME CommitFollowUp(s)
        PROVE  FollowInv' /\ Revivals /\ RepliesFirst /\ Tells
    <2>1. /\ turn[s] = "persisting" /\ turn' = [turn EXCEPT ![s] = "done"]
          /\ status' = [status EXCEPT ![s] = "pending"] /\ UNCHANGED <<born, ripe>>
      BY <1>6 DEF CommitFollowUp
    <2>2. status[s] = "absent"
      BY <2>1 DEF FollowInv, SourceOK
    <2>3. /\ turn' \in [Sources -> {"absent", "waiting", "running", "persisting", "done"}]
          /\ turn'[s] = "done" /\ \A u \in Sources \ {s} : turn'[u] = turn[u]
          /\ status'[s] = "pending" /\ \A u \in Sources \ {s} : status'[u] = status[u]
          /\ status' \in [Sources -> FollowUpStatuses]
      BY <1>0, <2>1 DEF FollowTypes, FollowUpStatuses
    <2>4. FollowTypes'
      BY <1>0, <1>u, <2>1, <2>3 DEF FollowTypes
    <2>6. \A u \in Sources : BySource(u)
      BY <1>u, <2>1, <2>2, <2>3 DEF BySource, Wording
    <2>7. FollowInv'
      BY <1>u, <2>4, <2>6, SourcesOK
    <2>8. Tells
      BY <1>u, <2>2, <2>3, RowRaised
    <2> QED
      BY <1>u, <2>2, <2>3, <2>7, <2>8 DEF Revivals, RepliesFirst, At
  <1>7. ASSUME Ripen(s)
        PROVE  FollowInv' /\ Revivals /\ RepliesFirst /\ Tells
    <2>1. ripe' = [ripe EXCEPT ![s] = TRUE] /\ UNCHANGED <<turn, born, status>>
      BY <1>7 DEF Ripen, userVars
    <2>2. ripe' \in [Sources -> BOOLEAN]
      BY <1>0, <2>1 DEF FollowTypes
    <2>3. FollowTypes'
      BY <1>0, <1>u, <2>1, <2>2 DEF FollowTypes
    <2>4. \A u \in Sources : BySource(u)
      BY <1>u, <2>1 DEF BySource
    <2>5. FollowInv'
      BY <1>u, <2>3, <2>4, SourcesOK
    <2> QED
      BY <1>u, <2>1, <2>5, NothingTold DEF Revivals, RepliesFirst, At
  <1> QED
    BY <1>2, <1>3, <1>4, <1>5, <1>6, <1>7 DEF TurnStep

\* A worker w goes to l with d, and writes of the follow-up f what it may.
Moves(w, f, l, d) ==
  /\ pc' = [pc EXCEPT ![w] = l] /\ work' = [work EXCEPT ![w] = d]
  /\ UNCHANGED userVars
  /\ l \in Labels /\ d \in [follow : Sources \cup {NoSource}, seen : FollowUpStatuses \cup {"unread"}]
  /\ IF l = "idle" THEN d = NoWork ELSE d.follow = f
  /\ IF At(w) = "idle" THEN attempts'[f] = attempts[f] + 1
                       ELSE Follow(w) = f /\ attempts'[f] = attempts[f]
  /\ l \in Wording => At(w) \in Wording \/ LockFree
Writes(w, f) ==
  /\ status' \in [Sources -> FollowUpStatuses] /\ attempts' \in [Sources -> 0..FollowUpAttempts]
  /\ ripe' \in [Sources -> BOOLEAN]
  /\ worded' \in [Sources -> BOOLEAN] /\ heard' \in [Sources -> BOOLEAN]
  /\ \A s \in Sources \ {f} : /\ status'[s] = status[s] /\ attempts'[s] = attempts[s]
                              /\ worded'[s] = worded[s] /\ heard'[s] = heard[s]
  /\ status[f] # "absent" /\ status'[f] # "absent"
  /\ status'[f] = "completed" => heard'[f]
  /\ worded'[f] = worded[f] \/ (worded'[f] /\ At(w) \in Wording)
  /\ heard'[f] = heard[f] \/ (heard'[f] /\ worded'[f])

\* Such steps keep what is known of this dispatch and of all others: another one of the same
\* follow-up is a second attempt, and does not hold the lock as well.
LEMMA SpeakerMoves ==
  ASSUME FollowInv, NEW w \in Speakers, NEW f \in Sources, NEW l, NEW d,
         Moves(w, f, l, d), Writes(w, f), l # "idle" => Engaged(l, f, d.seen)' /\ FirstOf(l, f)'
  PROVE  FollowInv'
  <1>t. /\ pc \in [Speakers -> Labels] /\ attempts \in [Sources -> 0..FollowUpAttempts]
        /\ work \in [Speakers -> [follow : Sources \cup {NoSource},
                                  seen : FollowUpStatuses \cup {"unread"}]]
        /\ worded \in [Sources -> BOOLEAN] /\ heard \in [Sources -> BOOLEAN]
        /\ status \in [Sources -> FollowUpStatuses]
    BY DEF FollowInv, FollowUpsTypeOK
  <1>m. /\ pc'[w] = l /\ work'[w] = d
        /\ \A v \in Speakers \ {w} : pc'[v] = pc[v] /\ work'[v] = work[v]
    BY <1>t DEF Moves
  <1>u. UNCHANGED <<optOut, turn, born, newer>>
    BY DEF Moves, userVars
  <1>1. FollowUpsTypeOK'
    <2>1. pc' \in [Speakers -> Labels]
      BY <1>t DEF Moves
    <2>2. work' \in [Speakers -> [follow : Sources \cup {NoSource},
                                  seen : FollowUpStatuses \cup {"unread"}]]
      BY <1>t DEF Moves
    <2> QED
      BY <1>u, <2>1, <2>2 DEF Writes, FollowInv, FollowUpsTypeOK
  <1>2. ASSUME NEW s \in Sources  PROVE SourceOK(s)'
    <2>1. SourceOK(s) /\ turn'[s] = turn[s]
      BY <1>u DEF FollowInv
    <2>2. CASE s # f
      BY <2>1, <2>2 DEF Writes, SourceOK
    <2>3. CASE s = f
      <3>1. /\ status[f] # "absent" /\ (status'[f] = "completed" => heard'[f])
            /\ worded'[f] = worded[f] \/ worded'[f]
            /\ heard'[f] = heard[f] \/ (heard'[f] /\ worded'[f])
        BY DEF Writes
      <3>2. worded[f] \in BOOLEAN /\ heard[f] \in BOOLEAN
        BY <1>t
      <3>3. heard'[f] => worded'[f]
        BY <2>1, <2>3, <3>1, <3>2 DEF SourceOK
      <3> QED
        BY <2>1, <2>3, <3>1, <3>3 DEF SourceOK
    <2> QED
      BY <2>2, <2>3
  \* The attempts of a follow-up on which another is at work.
  <1>3. ASSUME NEW v \in Speakers \ {w}, At(v) # "idle", Follow(v) = f
        PROVE  attempts'[f] >= 2
    <2>1. attempts[f] >= 1 /\ attempts[f] \in 0..FollowUpAttempts
      BY <1>t, <1>3 DEF FollowInv, SpeakerOK, Engaged
    <2>2. CASE At(w) = "idle"
      BY <2>1, <2>2, FollowUpsAssumption DEF Moves
    <2>3. CASE At(w) # "idle"
      <3>1. Follow(w) = f /\ attempts'[f] = attempts[f]
        BY <2>3 DEF Moves
      <3> QED
        BY <1>3, <2>3, <3>1 DEF FollowInv, OneByOne
    <2> QED
      BY <2>2, <2>3
  <1>4. ASSUME NEW v \in Speakers \ {w}  PROVE SpeakerOK(v)'
    <2>1. SpeakerOK(v) /\ At(v)' = At(v) /\ work'[v] = work[v] /\ Follow(v)' = Follow(v)
      BY <1>m DEF FollowInv, At, Follow
    <2>2. CASE At(v) = "idle"
      BY <2>1, <2>2 DEF SpeakerOK
    <2>3. CASE At(v) # "idle"
      <3>1. PICK g \in Sources, n \in Labels, k \in FollowUpStatuses \cup {"unread"} :
              Follow(v) = g /\ At(v) = n /\ work[v].seen = k
        BY <1>t, <2>1, <2>3 DEF SpeakerOK, Engaged, At, Follow
      <3>2. Engaged(n, g, k) /\ FirstOf(n, g)
        BY <2>1, <2>3, <3>1 DEF SpeakerOK
      <3>3. CASE g # f
        <4>1. /\ status'[g] = status[g] /\ attempts'[g] = attempts[g] /\ newer'[g] = newer[g]
              /\ worded'[g] = worded[g] /\ heard'[g] = heard[g]
          BY <1>u, <3>3 DEF Writes
        <4>2. Engaged(n, g, k)' /\ FirstOf(n, g)'
          BY <3>2, <4>1 DEF Engaged, FirstOf
        <4> QED
          BY <2>1, <2>3, <3>1, <4>2 DEF SpeakerOK
      <3>4. CASE g = f
        <4>1. attempts'[g] >= 2 /\ attempts'[g] \in 0..FollowUpAttempts
          BY <1>3, <2>3, <3>1, <3>4 DEF Writes
        <4>2. FirstOf(n, g)'
          BY <4>1, FollowUpsAssumption DEF FirstOf
        <4>3. n \in Wording => worded'[g] = worded[g]
          BY <3>1, <3>4 DEF Writes, FollowInv, LockKept
        <4>4. /\ worded[g] => worded'[g]
              /\ heard[g] => heard'[g]
          BY <3>4 DEF Writes
        <4>5. status'[g] # "absent"
          BY <3>4 DEF Writes
        <4>6. attempts'[g] >= 1
          BY <4>1, FollowUpsAssumption
        <4>7. Engaged(n, g, k)'
          BY <3>2, <4>3, <4>4, <4>5, <4>6 DEF Engaged
        <4> QED
          BY <2>1, <2>3, <3>1, <4>2, <4>7 DEF SpeakerOK
      <3> QED
        BY <3>3, <3>4
    <2> QED
      BY <2>2, <2>3
  <1>5. SpeakerOK(w)'
    BY <1>m DEF SpeakerOK, Moves, At, Follow
  <1>6. OneByOne'
    <2> SUFFICES ASSUME NEW v \in Speakers, NEW x \in Speakers, v # x,
                        At(v)' # "idle", At(x)' # "idle", Follow(v)' = Follow(x)'
                 PROVE  attempts'[Follow(x)'] >= 2
      BY DEF OneByOne, At, Follow
    <2>1. CASE v = w
      <3>1. Follow(v)' = f /\ At(x) # "idle" /\ Follow(x) = f
        BY <1>m, <2>1 DEF Moves, At, Follow
      <3> QED
        BY <1>3, <2>1, <3>1
    <2>2. CASE x = w
      <3>1. Follow(x)' = f /\ At(v) # "idle" /\ Follow(v) = f
        BY <1>m, <2>2 DEF Moves, At, Follow
      <3> QED
        BY <1>3, <2>2, <3>1
    <2>3. CASE v # w /\ x # w
      <3>1. /\ At(v) # "idle" /\ At(x) # "idle" /\ Follow(v) = Follow(x) /\ Follow(x)' = Follow(x)
            /\ Follow(x) \in Sources
        BY <1>m, <2>3 DEF At, Follow, FollowInv, SpeakerOK, Engaged
      <3>2. attempts[Follow(x)] >= 2
        BY <3>1 DEF FollowInv, OneByOne
      <3>3. CASE Follow(x) = f
        BY <1>3, <2>3, <3>1, <3>3
      <3>4. CASE Follow(x) # f
        BY <3>1, <3>2, <3>4 DEF Writes
      <3> QED
        BY <3>3, <3>4
    <2> QED
      BY <2>1, <2>2, <2>3
  <1>7. LockKept'
    <2> SUFFICES ASSUME NEW v \in Speakers, At(v)' \in Wording
                 PROVE  /\ \A s \in Sources : turn[s] \notin Wording
                        /\ \A x \in Speakers : x # v => At(x)' \notin Wording
      BY <1>u DEF LockKept, Wording
    <2>1. CASE v = w
      <3>1. At(w) \in Wording \/ LockFree
        BY <1>m, <2>1 DEF Moves, At
      <3>2. /\ \A s \in Sources : turn[s] \notin Wording
            /\ \A x \in Speakers : x # w => At(x) \notin Wording
        BY <3>1 DEF FollowInv, LockKept, LockFree, Wording
      <3> QED
        BY <1>m, <2>1, <3>2 DEF At
    <2>2. CASE v # w
      <3>1. At(v) \in Wording
        BY <1>m, <2>2 DEF At
      <3>2. /\ \A s \in Sources : turn[s] \notin Wording
            /\ \A x \in Speakers : x # v => At(x) \notin Wording
        BY <3>1 DEF FollowInv, LockKept
      <3>3. l \notin Wording
        <4>1. At(w) \notin Wording /\ ~LockFree
          BY <2>2, <3>1, <3>2 DEF LockFree, Wording
        <4> QED
          BY <4>1 DEF Moves
      <3> QED
        BY <1>m, <3>2, <3>3 DEF At
    <2> QED
      BY <2>1, <2>2
  <1> QED
    BY <1>1, <1>2, <1>4, <1>5, <1>6, <1>7 DEF FollowInv

\* Only the worker that asks for words, or for their storing, can come before a reply.
LEMMA RepliesOK ==
  ASSUME FollowInv, NEW w \in Speakers, NEW l, pc' = [pc EXCEPT ![w] = l],
         l \in Wording /\ l # At(w) => ~newer[Follow(w)] \/ attempts[Follow(w)] > 1
  PROVE  RepliesFirst
  <1>1. pc'[w] = l /\ \A v \in Speakers \ {w} : pc'[v] = pc[v]
    BY DEF FollowInv, FollowUpsTypeOK
  <1> QED
    BY <1>1 DEF RepliesFirst, Wording, At

\* A dispatch that goes on or ends without a write.
LEMMA QuietMove ==
  ASSUME FollowInv, NEW w \in Speakers, UNCHANGED <<userVars, rowVars, talkVars>>, At(w) # "idle",
         NEW l \in Labels, pc' = [pc EXCEPT ![w] = l],
         NEW d, work' = [work EXCEPT ![w] = d],
         d \in [follow : Sources \cup {NoSource}, seen : FollowUpStatuses \cup {"unread"}],
         l = "idle" => d = NoWork,
         l # "idle" => /\ d.follow = Follow(w) /\ Engaged(l, Follow(w), d.seen)
                       /\ FirstOf(l, Follow(w)),
         l \in Wording => At(w) \in Wording \/ LockFree,
         l \in Wording /\ l # At(w) => ~newer[Follow(w)] \/ attempts[Follow(w)] > 1
  PROVE  FollowInv' /\ Revivals /\ RepliesFirst /\ Tells
  <1>1. PICK f \in Sources : f = Follow(w) /\ status[f] # "absent" /\ SourceOK(f)
    BY DEF FollowInv, SpeakerOK, Engaged
  <1>2. UNCHANGED <<status, attempts, ripe, worded, heard, newer>>
    BY DEF rowVars, talkVars, userVars
  <1>3. Moves(w, f, l, d)
    BY <1>1, <1>2 DEF Moves
  <1>4. Writes(w, f)
    BY <1>1, <1>2 DEF Writes, SourceOK, FollowInv, FollowUpsTypeOK
  <1>5. l # "idle" => Engaged(l, f, d.seen)' /\ FirstOf(l, f)'
    BY <1>1, <1>2 DEF Engaged, FirstOf
  <1>6. FollowInv'
    BY <1>3, <1>4, <1>5, SpeakerMoves
  <1>7. RepliesFirst
    BY RepliesOK
  <1>8. Revivals
    BY <1>2 DEF Revivals
  <1>9. Tells
    BY <1>2, NothingTold
  <1> QED
    BY <1>6, <1>7, <1>8, <1>9

\* What holds of a dispatch that is under way.
LEMMA UnderWay ==
  ASSUME FollowInv, NEW w \in Speakers, At(w) # "idle"
  PROVE  /\ Follow(w) \in Sources /\ At(w) \in Labels
         /\ Engaged(At(w), Follow(w), work[w].seen) /\ FirstOf(At(w), Follow(w))
         /\ work[w] \in [follow : Sources \cup {NoSource}, seen : FollowUpStatuses \cup {"unread"}]
         /\ work[w].follow = Follow(w)
         /\ work' = work => work' = [work EXCEPT ![w] = work[w]]
  BY DEF FollowInv, FollowUpsTypeOK, SpeakerOK, Engaged, At, Follow

\* A dispatch up to the commit of its words reads the row and the conversation.
LEMMA EarlyOK ==
  ASSUME FollowInv, NEW w \in Speakers,
         Check(w) \/ Resolve(w) \/ TakeLock(w) \/ Recheck(w) \/ DispatchFails(w)
  PROVE  FollowInv' /\ Revivals /\ RepliesFirst /\ Tells
  <1>1. /\ UNCHANGED <<userVars, rowVars, talkVars>> /\ work' = work
        /\ At(w) \in Early
    BY DEF Check, Resolve, TakeLock, Recheck, DispatchFails, Early
  <1>2. At(w) # "idle"
    BY <1>1 DEF Early
  <1>3. PICK f \in Sources, k \in FollowUpStatuses \cup {"unread"} : f = Follow(w) /\ k = work[w].seen
    BY <1>2, UnderWay
  <1>4. Engaged(At(w), f, k) /\ FirstOf(At(w), f)
    BY <1>2, <1>3, UnderWay
  <1>5. k = "unread"
    BY <1>1, <1>4 DEF Engaged, Early, Settling
  <1>6. PICK l \in Labels :
          /\ pc' = [pc EXCEPT ![w] = l]
          /\ \/ l \in {"cancelling", "yielding", "retrying"}
             \/ At(w) = "checking" /\ l = "resolving" /\ ~newer[f]
             \/ At(w) = "resolving" /\ l = "waiting"
             \/ At(w) = "waiting" /\ l = "delivering" /\ worded[f]
             \/ At(w) = "waiting" /\ l = "running" /\ ~worded[f] /\ status[f] # "cancelled" /\ LockFree
             \/ At(w) = "running" /\ l = "persisting" /\ status[f] # "cancelled"
    <2>1. CASE Check(w)
      BY <1>3, <2>1 DEF Check, Jump, ShouldCancel, Labels, Settling
    <2>2. CASE Resolve(w)
      BY <1>3, <2>2 DEF Resolve, Jump, Labels, Settling
    <2>3. CASE TakeLock(w)
      BY <1>3, <2>3 DEF TakeLock, Jump, TurnExists, Labels, Settling
    <2>4. CASE Recheck(w)
      BY <1>3, <2>4 DEF Recheck, Jump, Labels, Settling
    <2>5. CASE DispatchFails(w)
      BY <1>3, <2>5 DEF DispatchFails, Jump, Labels, Settling
    <2> QED
      BY <2>1, <2>2, <2>3, <2>4, <2>5
  <1>7. Engaged(l, f, k)
    BY <1>1, <1>4, <1>5, <1>6 DEF Engaged, Wording
  <1>8. FirstOf(l, f)
    BY <1>1, <1>4, <1>6 DEF FirstOf, Early
  <1>9. l # "idle" /\ (l \in Wording => At(w) \in Wording \/ LockFree)
    BY <1>6 DEF Wording
  <1>10. l \in Wording => ~newer[f] \/ attempts[f] > 1
    <2>1. newer[f] \in BOOLEAN /\ attempts[f] \in 0..FollowUpAttempts
      BY DEF FollowInv, FollowUpsTypeOK
    <2> QED
      BY <1>4, <1>6, <2>1, FollowUpsAssumption DEF FirstOf, Wording
  <1> QED
    BY <1>1, <1>2, <1>3, <1>6, <1>7, <1>8, <1>9, <1>10, QuietMove, UnderWay

\* A read before a row is settled, and a process that dies.
LEMMA ReadRowOK ==
  ASSUME FollowInv, NEW w \in Speakers, ReadRow(w) \/ Crash(w)
  PROVE  FollowInv' /\ Revivals /\ RepliesFirst /\ Tells
  <1>1. UNCHANGED <<userVars, rowVars, talkVars>> /\ At(w) # "idle"
    BY DEF ReadRow, Crash, Settling
  <1>2. NoWork \in [follow : Sources \cup {NoSource}, seen : FollowUpStatuses \cup {"unread"}]
    BY DEF NoWork
  <1>3. CASE Return(w)
    <2>1. pc' = [pc EXCEPT ![w] = "idle"] /\ work' = [work EXCEPT ![w] = NoWork]
      BY <1>3 DEF Return, Jump
    <2>2. "idle" \in Labels /\ "idle" \notin Wording
      BY DEF Labels, Wording
    <2> QED
      BY <1>1, <1>2, <2>1, <2>2, QuietMove
  <1>4. CASE ~Return(w)
    <2>1. /\ At(w) \in Settling /\ ~LeavesAlone(At(w), status[Follow(w)])
          /\ work' = [work EXCEPT ![w].seen = status[Follow(w)]] /\ UNCHANGED pc
      BY <1>4 DEF ReadRow, Crash
    <2>2. PICK f \in Sources : f = Follow(w) /\ status[f] \in FollowUpStatuses
      BY <1>1, UnderWay DEF FollowInv, FollowUpsTypeOK
    <2>3. PICK l \in Labels : l = At(w)
      BY <1>1, UnderWay
    <2> DEFINE d == [work[w] EXCEPT !.seen = status[f]]
    <2>4. /\ d \in [follow : Sources \cup {NoSource}, seen : FollowUpStatuses \cup {"unread"}]
          /\ d.follow = f /\ d.seen = status[f]
      BY <1>1, <2>2, UnderWay
    <2>5. pc' = [pc EXCEPT ![w] = l] /\ work' = [work EXCEPT ![w] = d]
      BY <2>1, <2>2, <2>3 DEF FollowInv, FollowUpsTypeOK, At
    <2>6. Engaged(l, f, status[f]) /\ FirstOf(l, f)
      <3>1. Engaged(l, f, work[w].seen) /\ FirstOf(l, f)
        BY <1>1, <2>2, <2>3, UnderWay
      <3> QED
        BY <2>1, <2>2, <2>3, <3>1 DEF Engaged
    <2>7. l # "idle" /\ l \notin Wording
      BY <2>1, <2>3 DEF Settling, Wording
    <2> HIDE DEF d
    <2> QED
      BY <1>1, <2>2, <2>4, <2>5, <2>6, <2>7, QuietMove
  <1> QED
    BY <1>3, <1>4

\* The commit of the words of a follow-up.
LEMMA PersistOK ==
  ASSUME FollowInv, NEW w \in Speakers, NEW lost \in BOOLEAN, Persist(w, lost)
  PROVE  FollowInv' /\ Revivals /\ RepliesFirst /\ Tells
  <1>1. /\ At(w) = "persisting" /\ worded' = [worded EXCEPT ![Follow(w)] = TRUE]
        /\ UNCHANGED <<userVars, status, attempts, ripe, heard, work>>
    BY DEF Persist, rowVars
  <1>2. PICK l \in {"retrying", "delivering"} : pc' = [pc EXCEPT ![w] = l]
    BY DEF Persist, Jump
  <1>3. PICK f \in Sources, k \in FollowUpStatuses \cup {"unread"} : f = Follow(w) /\ k = work[w].seen
    BY <1>1, UnderWay
  <1>4. Engaged("persisting", f, k) /\ FirstOf("persisting", f) /\ SourceOK(f)
    BY <1>1, <1>3, UnderWay DEF FollowInv
  <1>5. k = "unread" /\ ~worded[f]
    BY <1>4 DEF Engaged, Settling, Wording
  <1>6. /\ status \in [Sources -> FollowUpStatuses] /\ attempts \in [Sources -> 0..FollowUpAttempts]
        /\ ripe \in [Sources -> BOOLEAN] /\ worded \in [Sources -> BOOLEAN]
        /\ heard \in [Sources -> BOOLEAN]
    BY DEF FollowInv, FollowUpsTypeOK
  <1>7. /\ worded'[f] /\ (\A s \in Sources \ {f} : worded'[s] = worded[s])
        /\ worded' \in [Sources -> BOOLEAN]
    BY <1>1, <1>3, <1>6
  <1>8. l \in Labels /\ l # "idle" /\ l \notin Wording /\ l \notin Early /\ At(w) # "idle"
        /\ At(w) \in Wording
    BY <1>1 DEF Labels, Settling, Wording, Early
  <1>9. Moves(w, f, l, work[w])
    BY <1>1, <1>2, <1>3, <1>8, UnderWay DEF Moves
  <1>10. Writes(w, f)
    BY <1>1, <1>4, <1>6, <1>7, <1>8 DEF Writes, Engaged, SourceOK
  <1>11. Engaged(l, f, work[w].seen)'
    BY <1>1, <1>3, <1>4, <1>5, <1>7, <1>8 DEF Engaged
  <1>12. FirstOf(l, f)'
    BY <1>2 DEF FirstOf, Early
  <1>13. work'[w].seen = work[w].seen
    BY <1>1
  <1>14. FollowInv'
    BY <1>9, <1>10, <1>11, <1>12, <1>8, <1>13, SpeakerMoves
  <1>15. RepliesFirst
    BY <1>2, <1>8, RepliesOK
  <1>16. Revivals
    BY <1>1 DEF Revivals
  <1>17. Tells
    BY <1>1, <1>3, <1>4, <1>5, <1>6, TurnTold DEF Engaged
  <1> QED
    BY <1>14, <1>15, <1>16, <1>17

\* The delivery of the words, which may raise after Linq has taken them.
LEMMA DeliverOK ==
  ASSUME FollowInv, NEW w \in Speakers, NEW taken \in BOOLEAN, Deliver(w) \/ DeliveryFails(w, taken)
  PROVE  FollowInv' /\ Revivals /\ RepliesFirst /\ Tells
  <1>1. /\ At(w) = "delivering"
        /\ UNCHANGED <<userVars, status, attempts, ripe, worded, work>>
    BY DEF Deliver, DeliveryFails, rowVars
  <1>2. PICK f \in Sources, k \in FollowUpStatuses \cup {"unread"} : f = Follow(w) /\ k = work[w].seen
    BY <1>1, UnderWay
  <1>3. Engaged("delivering", f, k) /\ FirstOf("delivering", f) /\ SourceOK(f)
    BY <1>1, <1>2, UnderWay DEF FollowInv
  <1>4. k = "unread" /\ worded[f]
    BY <1>3 DEF Engaged, Settling
  <1>5. /\ status \in [Sources -> FollowUpStatuses] /\ attempts \in [Sources -> 0..FollowUpAttempts]
        /\ ripe \in [Sources -> BOOLEAN] /\ worded \in [Sources -> BOOLEAN]
        /\ heard \in [Sources -> BOOLEAN]
    BY DEF FollowInv, FollowUpsTypeOK
  <1>6. PICK l \in {"completing", "retrying"}, h \in BOOLEAN :
          /\ pc' = [pc EXCEPT ![w] = l] /\ heard' = [heard EXCEPT ![f] = h]
          /\ heard[f] => h
          /\ l = "completing" => h
    <2>1. CASE Deliver(w)
      BY <1>2, <2>1 DEF Deliver, Jump
    <2>2. CASE DeliveryFails(w, taken)
      <3>1. (heard[f] \/ taken) \in BOOLEAN
        BY <1>5
      <3> QED
        BY <1>2, <2>2, <3>1 DEF DeliveryFails, Jump, OnDeliveryError
    <2> QED
      BY <2>1, <2>2
  <1>7. /\ heard'[f] = h /\ (\A s \in Sources \ {f} : heard'[s] = heard[s])
        /\ heard' \in [Sources -> BOOLEAN]
    BY <1>5, <1>6
  <1>8. l \in Labels /\ l # "idle" /\ l \notin Wording /\ l \notin Early /\ At(w) # "idle"
    BY <1>1 DEF Labels, Settling, Wording, Early
  <1>9. Moves(w, f, l, work[w])
    BY <1>1, <1>2, <1>6, <1>8, UnderWay DEF Moves
  <1>10. heard'[f] = heard[f] \/ (heard'[f] /\ worded'[f])
    BY <1>1, <1>4, <1>5, <1>6, <1>7
  <1>11. status'[f] = "completed" => heard'[f]
    BY <1>1, <1>3, <1>6, <1>7 DEF SourceOK
  <1>12. Writes(w, f)
    BY <1>1, <1>3, <1>5, <1>7, <1>10, <1>11 DEF Writes, Engaged
  <1>13. Engaged(l, f, work[w].seen)'
    BY <1>1, <1>2, <1>3, <1>4, <1>6, <1>7, <1>8 DEF Engaged
  <1>14. FirstOf(l, f)'
    BY <1>6 DEF FirstOf, Early
  <1>15. work'[w].seen = work[w].seen
    BY <1>1
  <1>16. FollowInv'
    BY <1>8, <1>9, <1>12, <1>13, <1>14, <1>15, SpeakerMoves
  <1>17. RepliesFirst
    BY <1>6, <1>8, RepliesOK
  <1>18. Revivals
    BY <1>1 DEF Revivals
  <1>19. Tells
    <2>1. CASE h = heard[f]
      BY <1>1, <1>5, <1>6, <2>1, NothingTold
    <2>2. CASE h # heard[f]
      <3>1. h = TRUE /\ ~heard[f]
        BY <1>5, <1>6, <2>2
      <3> QED
        BY <1>1, <1>4, <1>5, <1>6, <3>1, BubblesHeard
    <2> QED
      BY <2>1, <2>2
  <1> QED
    BY <1>16, <1>17, <1>18, <1>19

\* _claim_follow_up.
LEMMA ClaimFollowUpOK ==
  ASSUME FollowInv, NEW w \in Speakers, NEW f \in Sources, Claim(w, f)
  PROVE  FollowInv' /\ Revivals /\ RepliesFirst /\ Tells
  <1>1. /\ At(w) = "idle" /\ status[f] \in {"pending", "failed", "processing"}
        /\ attempts[f] < FollowUpAttempts
        /\ status' = [status EXCEPT ![f] = "processing"]
        /\ attempts' = [attempts EXCEPT ![f] = attempts[f] + 1]
        /\ ripe' = [ripe EXCEPT ![f] = FALSE]
        /\ pc' = [pc EXCEPT ![w] = "checking"]
        /\ UNCHANGED <<userVars, worded, heard>>
    BY DEF Claim, Sayable, AttemptsLeft, Jump, talkVars
  <1>2. /\ status \in [Sources -> FollowUpStatuses] /\ attempts \in [Sources -> 0..FollowUpAttempts]
        /\ ripe \in [Sources -> BOOLEAN] /\ worded \in [Sources -> BOOLEAN]
        /\ heard \in [Sources -> BOOLEAN]
        /\ work[w] \in [follow : Sources \cup {NoSource}, seen : FollowUpStatuses \cup {"unread"}]
    BY DEF FollowInv, FollowUpsTypeOK
  <1>3. work[w].seen = "unread" /\ SourceOK(f)
    BY <1>1 DEF FollowInv, SpeakerOK, NoWork
  <1>4. PICK d \in [follow : Sources \cup {NoSource}, seen : FollowUpStatuses \cup {"unread"}] :
          d = [work[w] EXCEPT !.follow = f] /\ d.follow = f /\ d.seen = "unread"
    <2> DEFINE e == [work[w] EXCEPT !.follow = f]
    <2>1. /\ e \in [follow : Sources \cup {NoSource}, seen : FollowUpStatuses \cup {"unread"}]
          /\ e.follow = f /\ e.seen = "unread"
      BY <1>2, <1>3
    <2> HIDE DEF e
    <2>2. \E x \in [follow : Sources \cup {NoSource}, seen : FollowUpStatuses \cup {"unread"}] :
            x = e /\ x.follow = f /\ x.seen = "unread"
      BY <2>1
    <2> QED
      BY <2>2 DEF e
  <1>5. work' = [work EXCEPT ![w] = d]
    BY <1>4 DEF Claim, FollowInv, FollowUpsTypeOK
  <1>6. attempts[f] \in 0..FollowUpAttempts /\ attempts[f] + 1 \in 0..FollowUpAttempts
        /\ attempts[f] + 1 >= 1
    BY <1>1, <1>2, FollowUpsAssumption
  <1>7. /\ status'[f] = "processing" /\ attempts'[f] = attempts[f] + 1
        /\ \A s \in Sources \ {f} : status'[s] = status[s] /\ attempts'[s] = attempts[s]
        /\ status' \in [Sources -> FollowUpStatuses] /\ attempts' \in [Sources -> 0..FollowUpAttempts]
        /\ ripe' \in [Sources -> BOOLEAN]
    BY <1>1, <1>2, <1>6 DEF FollowUpStatuses
  <1>8. "checking" \in Labels /\ "checking" \notin Wording
    BY DEF Labels, Wording
  <1>9. Moves(w, f, "checking", d)
    BY <1>1, <1>4, <1>5, <1>7, <1>8 DEF Moves
  <1>10. Writes(w, f)
    BY <1>1, <1>2, <1>7 DEF Writes
  <1>11. Engaged("checking", f, d.seen)'
    BY <1>4, <1>6, <1>7 DEF Engaged, Wording
  <1>12. FirstOf("checking", f)'
    BY <1>7 DEF FirstOf, Early
  <1>13. FollowInv'
    BY <1>9, <1>10, <1>11, <1>12, SpeakerMoves
  <1>14. RepliesFirst
    BY <1>1, <1>8, RepliesOK
  <1>15. Revivals
    BY <1>1, <1>7 DEF Revivals
  <1>16. Tells
    BY <1>1, <1>7, NothingTold
  <1> QED
    BY <1>13, <1>14, <1>15, <1>16

\* The write that settles a row, whoever else has changed it since it was read.
LEMMA StoredOK ==
  ASSUME FollowInv, NEW w \in Speakers, Store(w), UNCHANGED <<userVars, talkVars>>,
         At(w) \in Settling, work[w].seen # "unread",
         NEW l \in {"idle", "retrying"}, pc' = [pc EXCEPT ![w] = l],
         NEW d \in [follow : Sources \cup {NoSource}, seen : FollowUpStatuses \cup {"unread"}],
         work' = [work EXCEPT ![w] = d],
         IF l = "idle" THEN d = NoWork ELSE d.follow = Follow(w) /\ d.seen = "unread"
  PROVE  FollowInv' /\ Revivals /\ RepliesFirst /\ Tells
  <1>1. At(w) # "idle" /\ UNCHANGED <<worded, heard, attempts>>
    BY DEF Settling, talkVars, Store
  <1>2. PICK f \in Sources, n \in Settling, k \in FollowUpStatuses :
          f = Follow(w) /\ n = At(w) /\ k = work[w].seen
    BY <1>1, UnderWay
  <1>3. Engaged(n, f, k) /\ SourceOK(f)
    BY <1>1, <1>2, UnderWay DEF FollowInv
  <1>4. /\ status \in [Sources -> FollowUpStatuses] /\ attempts \in [Sources -> 0..FollowUpAttempts]
        /\ ripe \in [Sources -> BOOLEAN] /\ worded \in [Sources -> BOOLEAN]
        /\ heard \in [Sources -> BOOLEAN]
    BY DEF FollowInv, FollowUpsTypeOK
  <1>5. PICK s \in FollowUpStatuses :
          /\ s = IF k = SettledAs(n) THEN status[f] ELSE SettledAs(n)
          /\ status' = [status EXCEPT ![f] = s]
          /\ ripe' = [ripe EXCEPT ![f] = ripe[f] /\ s # SettledAs(n)]
    <2>1. SettledAs(n) \in FollowUpStatuses
      BY DEF SettledAs, Settling, FollowUpStatuses
    <2> QED
      BY <1>2, <1>4, <2>1 DEF Store
  <1>6. /\ n \in {"cancelling", "yielding"} => SettledAs(n) = "cancelled"
        /\ n = "completing" => SettledAs(n) = "completed" /\ k # "cancelled"
        /\ n = "retrying" => SettledAs(n) = "failed" /\ k # "cancelled"
        /\ k # "absent" /\ status[f] # "absent"
    BY <1>2, <1>3 DEF SettledAs, Engaged, LeavesAlone, Settling, FollowUpStatuses
  <1>7. s # "absent" /\ (s = "completed" => heard[f])
    BY <1>2, <1>3, <1>5, <1>6 DEF Engaged, SourceOK, Settling
  <1>8. status[f] = "cancelled" /\ s # "cancelled" => k # "cancelled"
    BY <1>5, <1>6 DEF Settling
  <1>9. /\ status'[f] = s /\ \A u \in Sources \ {f} : status'[u] = status[u]
        /\ status' \in [Sources -> FollowUpStatuses]
        /\ ripe' \in [Sources -> BOOLEAN]
    <2>1. (ripe[f] /\ s # SettledAs(n)) \in BOOLEAN
      BY <1>4
    <2> QED
      BY <1>4, <1>5, <2>1
  <1>10. l \in Labels /\ l \notin Wording
    BY DEF Labels, Wording, Settling
  <1>11. Moves(w, f, l, d)
    BY <1>1, <1>2, <1>10 DEF Moves
  <1>12. Writes(w, f)
    BY <1>1, <1>3, <1>4, <1>6, <1>7, <1>9 DEF Writes
  <1>13. l # "idle" => Engaged(l, f, d.seen)' /\ FirstOf(l, f)'
    <2>1. attempts'[f] >= 1
      BY <1>1, <1>3 DEF Engaged
    <2> QED
      BY <1>2, <1>7, <1>9, <2>1 DEF Engaged, FirstOf, Wording, Early
  <1>14. FollowInv'
    BY <1>11, <1>12, <1>13, SpeakerMoves
  <1>15. RepliesFirst
    BY <1>10, RepliesOK
  <1>16. Revivals
    BY <1>2, <1>8, <1>9 DEF Revivals
  <1>17. Tells
    BY <1>1, <1>6, <1>7, <1>9, NothingTold
  <1> QED
    BY <1>14, <1>15, <1>16, <1>17

\* The outcome of a dispatch is written, or its writing fails.
LEMMA SettleRowOK ==
  ASSUME FollowInv, NEW w \in Speakers, NEW committed \in BOOLEAN,
         WriteRow(w) \/ SettlingFails(w, committed)
  PROVE  FollowInv' /\ Revivals /\ RepliesFirst /\ Tells
  <1>1. At(w) \in Settling /\ At(w) # "idle" /\ UNCHANGED <<userVars, talkVars>>
    BY DEF WriteRow, SettlingFails, Settling
  <1>2. \/ work[w].seen # "unread" /\ Store(w)
        \/ UNCHANGED rowVars
    BY DEF WriteRow, SettlingFails
  <1>3. PICK l \in {"idle", "retrying"},
             d \in [follow : Sources \cup {NoSource}, seen : FollowUpStatuses \cup {"unread"}] :
          /\ pc' = [pc EXCEPT ![w] = l] /\ work' = [work EXCEPT ![w] = d]
          /\ IF l = "idle" THEN d = NoWork ELSE d.follow = Follow(w) /\ d.seen = "unread"
    <2>1. CASE Return(w)
      <3>1. NoWork \in [follow : Sources \cup {NoSource}, seen : FollowUpStatuses \cup {"unread"}]
        BY DEF NoWork
      <3> QED
        BY <2>1, <3>1 DEF Return, Jump
    <2>2. CASE ~Return(w)
      <3> DEFINE e == [work[w] EXCEPT !.seen = "unread"]
      <3>1. pc' = [pc EXCEPT ![w] = "retrying"] /\ work' = [work EXCEPT ![w] = e]
        BY <2>2 DEF WriteRow, SettlingFails, Jump, FollowInv, FollowUpsTypeOK
      <3>2. /\ e \in [follow : Sources \cup {NoSource}, seen : FollowUpStatuses \cup {"unread"}]
            /\ e.follow = Follow(w) /\ e.seen = "unread"
        BY <1>1, UnderWay
      <3> HIDE DEF e
      <3> QED
        BY <3>1, <3>2
    <2> QED
      BY <2>1, <2>2
  <1>4. CASE UNCHANGED rowVars
    <2>1. l \in Labels /\ l \notin Wording
      BY DEF Labels, Wording, Settling
    <2>2. l # "idle" => Engaged(l, Follow(w), d.seen) /\ FirstOf(l, Follow(w))
      BY <1>1, <1>3, UnderWay DEF Engaged, FirstOf, Wording, Early
    <2> QED
      BY <1>1, <1>3, <1>4, <2>1, <2>2, QuietMove
  <1>5. CASE work[w].seen # "unread" /\ Store(w)
    BY <1>1, <1>3, <1>5, StoredOK
  <1> QED
    BY <1>2, <1>4, <1>5

\* No follow-up has been left, and the workers are idle.
LEMMA FollowUpsInitially == FollowUpsInit => FollowInv
  <1> SUFFICES ASSUME FollowUpsInit  PROVE FollowInv
    OBVIOUS
  <1>1. 0 \in 0..FollowUpAttempts
    BY FollowUpsAssumption
  <1>2. NoWork \in [follow : Sources \cup {NoSource}, seen : FollowUpStatuses \cup {"unread"}]
    BY DEF NoWork
  <1>3. FollowUpsTypeOK
    BY <1>1, <1>2 DEF FollowUpsInit, FollowUpsTypeOK, FollowUpStatuses, Labels
  <1>4. \A s \in Sources : SourceOK(s)
    BY DEF FollowUpsInit, SourceOK
  <1>5. (\A w \in Speakers : SpeakerOK(w)) /\ OneByOne /\ LockKept
    BY DEF FollowUpsInit, SpeakerOK, OneByOne, LockKept, At, Wording
  <1> QED
    BY <1>3, <1>4, <1>5 DEF FollowInv

\* Every step of the user, of a turn and of a worker.
LEMMA FollowUpsStep ==
  ASSUME FollowInv, [FollowUpsNext]_followUpVars
  PROVE  FollowInv' /\ Revivals /\ RepliesFirst /\ Tells
  <1>1. CASE UNCHANGED followUpVars
    <2>1. UNCHANGED <<optOut, turn, born, newer, status, attempts, ripe, worded, heard, pc, work>>
      BY <1>1 DEF followUpVars, userVars, rowVars, talkVars, procVars
    <2>2. FollowTypes'
      BY <2>1 DEF FollowInv, FollowUpsTypeOK, FollowTypes
    <2>3. \A s \in Sources : BySource(s)
      BY <2>1 DEF BySource
    <2>4. FollowInv'
      BY <2>1, <2>2, <2>3, SourcesOK
    <2> QED
      BY <2>1, <2>4, NothingTold DEF Revivals, RepliesFirst, At
  <1>2. CASE FollowUpsNext
    <2>1. CASE Inbound
      BY <2>1, ReceiveOK DEF Inbound
    <2>2. ASSUME NEW e \in Wakes, Wake(e)
          PROVE  FollowInv' /\ Revivals /\ RepliesFirst /\ Tells
      BY <2>2, TurnOK DEF Sources
    <2>3. ASSUME NEW s \in Sources, TurnStep(s) \/ Ripen(s)
          PROVE  FollowInv' /\ Revivals /\ RepliesFirst /\ Tells
      BY <2>3, TurnOK
    <2>4. ASSUME NEW w \in Speakers, Poll(w)
          PROVE  FollowInv' /\ Revivals /\ RepliesFirst /\ Tells
      BY <2>4, ClaimFollowUpOK DEF Poll
    <2>5. ASSUME NEW w \in Speakers, Crash(w)
          PROVE  FollowInv' /\ Revivals /\ RepliesFirst /\ Tells
      BY <2>5, ReadRowOK
    <2>6. ASSUME NEW w \in Speakers, SpeakerStep(w)
          PROVE  FollowInv' /\ Revivals /\ RepliesFirst /\ Tells
      <3>1. CASE Check(w) \/ Resolve(w) \/ TakeLock(w) \/ Recheck(w) \/ DispatchFails(w)
        BY <3>1, EarlyOK
      <3>2. CASE ReadRow(w)
        BY <3>2, ReadRowOK
      <3>3. CASE \E lost \in BOOLEAN : Persist(w, lost)
        BY <3>3, PersistOK
      <3>4. CASE Deliver(w) \/ \E taken \in BOOLEAN : DeliveryFails(w, taken)
        <4>1. TRUE \in BOOLEAN
          OBVIOUS
        <4> QED
          BY <3>4, <4>1, DeliverOK
      <3>5. CASE WriteRow(w) \/ \E committed \in BOOLEAN : SettlingFails(w, committed)
        <4>1. TRUE \in BOOLEAN
          OBVIOUS
        <4> QED
          BY <3>5, <4>1, SettleRowOK
      <3> QED
        BY <2>6, <3>1, <3>2, <3>3, <3>4, <3>5 DEF SpeakerStep
    <2> QED
      BY <1>2, <2>1, <2>2, <2>3, <2>4, <2>5, <2>6 DEF FollowUpsNext
  <1> QED
    BY <1>1, <1>2

\* And so throughout a behaviour.
LEMMA FollowUpsSteps ==
  FollowUpsSpec => []FollowInv /\ [][Revivals /\ RepliesFirst /\ Tells]_followUpVars
  <1>1. FollowInv /\ [FollowUpsNext]_followUpVars
          => FollowInv' /\ [Revivals /\ RepliesFirst /\ Tells]_followUpVars
    BY FollowUpsStep
  <1> QED
    BY <1>1, FollowUpsInitially, PTL DEF FollowUpsSpec

\* The rows and the workers of follow-ups keep their shape; attempts stay within
\* agent_follow_up_max_attempts.
THEOREM FollowUpTypes == FollowUpsSpec => []FollowUpsTypeOK
  <1>1. FollowInv => FollowUpsTypeOK
    BY DEF FollowInv
  <1> QED
    BY <1>1, FollowUpsSteps, PTL

\* run_follow_up_turn asks for words only under the lock of the conversation and only for a
\* follow-up that has none, however the dispatches of one follow-up overlap and repeat.
THEOREM Worded == FollowUpsSpec => []WordedOnce
  <1>1. FollowInv => WordedOnce
    <2> SUFFICES ASSUME FollowInv, NEW w \in Speakers, At(w) \in Wording
                 PROVE  ~worded[Follow(w)] /\ \A s \in Sources : turn[s] \notin Wording
      BY DEF WordedOnce, Wording
    <2>1. At(w) # "idle"
      BY DEF Wording
    <2>2. Engaged(At(w), Follow(w), work[w].seen)
      BY <2>1, UnderWay
    <2>3. ~worded[Follow(w)]
      BY <2>2 DEF Engaged
    <2> QED
      BY <2>3 DEF FollowInv, LockKept
  <1> QED
    BY <1>1, FollowUpsSteps, PTL

\* _complete_follow_up stores a follow-up as completed only when Linq has accepted it, whatever
\* failed and was retried before.
THEOREM Heard == FollowUpsSpec => []CompletedMeansHeard
  <1>1. FollowInv => CompletedMeansHeard
    BY DEF FollowInv, SourceOK, CompletedMeansHeard
  <1> QED
    BY <1>1, FollowUpsSteps, PTL

\* What the user says cancels a follow-up whose first dispatch has not worded or stored it yet.
THEOREM ReplyFirst == FollowUpsSpec => ReplyGoesFirst
  <1>1. [Revivals /\ RepliesFirst /\ Tells]_followUpVars =>
          [\A w \in Speakers :
             LET f == Follow(w)
             IN  pc'[w] # At(w) /\ pc'[w] \in {"running", "persisting"} /\ newer[f]
                   => attempts[f] > 1]_followUpVars
    BY DEF RepliesFirst
  <1> QED
    BY <1>1, FollowUpsSteps, PTL DEF ReplyGoesFirst

\* A cancelled follow-up is revived by no claim and by no outcome that was read after the
\* cancellation.
THEOREM FollowUpsCancelled == FollowUpsSpec => FollowUpsStayCancelled
  <1>1. [Revivals /\ RepliesFirst /\ Tells]_followUpVars =>
          [\A f \in Sources :
             status[f] = "cancelled" /\ status'[f] # "cancelled"
               => \E w \in Speakers :
                    Follow(w) = f /\ work[w].seen \notin {"unread", "cancelled"}]_followUpVars
    BY DEF Revivals
  <1> QED
    BY <1>1, FollowUpsSteps, PTL DEF FollowUpsStayCancelled

\* Follow-ups implement the promise of Telling: what is left is put into words once, and
\* delivered only then.
THEOREM FollowUpsTell == FollowUpsSpec => TellingSpec
  <1>1. FollowUpsInit => Telling!Init
    BY DEF FollowUpsInit, Telling!Init
  <1>2. [Revivals /\ RepliesFirst /\ Tells]_followUpVars => [Telling!Next]_(Telling!vars)
    <2>1. CASE UNCHANGED followUpVars
      BY <2>1 DEF followUpVars, rowVars, talkVars, Telling!vars
    <2>2. CASE Tells
      BY <2>2 DEF Tells
    <2> QED
      BY <2>1, <2>2
  <1>3. FollowUpsSpec => FollowUpsInit
    BY DEF FollowUpsSpec
  <1>4. FollowUpsSpec => Telling!Init /\ [][Telling!Next]_(Telling!vars)
    BY <1>1, <1>2, <1>3, FollowUpsSteps, PTL
  <1> QED
    BY <1>4 DEF TellingSpec, Telling!Spec

(***************************************************************************)
(* What the agent and the workers do, together.                            *)
(***************************************************************************)

\* One of the five moves, and the others stand.
LEMMA Parts ==
  ASSUME [Next]_allVars
  PROVE  /\ [ToolJournalNext]_toolVars /\ [MemoryJobsNext]_memoryVars
         /\ [BuildPipelineNext]_pipelineVars /\ [SchedulesNext]_taskVars
         /\ [FollowUpsNext]_followUpVars /\ UNCHANGED focus
  <1>1. CASE UNCHANGED allVars
    BY <1>1 DEF allVars
  <1>2. CASE Next
    BY <1>2 DEF Next
  <1> QED
    BY <1>1, <1>2

\* A behaviour of all is a behaviour of each.
LEMMA ComponentsWork ==
  Spec => /\ ToolJournalSpec /\ MemoryJobsSpec /\ BuildPipelineSpec /\ SchedulesSpec
          /\ FollowUpsSpec
  <1>1. Init => /\ ToolJournalInit /\ MemoryJobsInit /\ BuildPipelineInit /\ SchedulesInit
                /\ FollowUpsInit
    BY DEF Init
  <1>2. [Next]_allVars => /\ [ToolJournalNext]_toolVars /\ [MemoryJobsNext]_memoryVars
                          /\ [BuildPipelineNext]_pipelineVars /\ [SchedulesNext]_taskVars
                          /\ [FollowUpsNext]_followUpVars
    BY Parts
  <1> QED
    BY <1>1, <1>2, PTL DEF Spec, ToolJournalSpec, MemoryJobsSpec, BuildPipelineSpec, SchedulesSpec,
       FollowUpsSpec

\* No task leaves an occurrence behind that was not acted upon, and no follow-up counts as said
\* that was not heard, or is worded twice.
THEOREM ErrandsDone == Spec => ErrandsAreDone
  BY ComponentsWork, NothingLeft, Heard, Worded, PTL DEF ErrandsAreDone

\* What the user cancels, a task or a follow-up, comes back only by the write of a dispatch that
\* had read it before.
THEOREM Cancellations == Spec => CancellationsHold
  BY ComponentsWork, TasksCancelled, FollowUpsCancelled, PTL DEF CancellationsHold

\* The rows and the processes of the one that moves keep their shape and their limits.
THEOREM WorkTypes == Spec => []TypeOK
  <1> DEFINE Foci == focus \in {"tools", "memory", "pipeline", "tasks", "followups"}
  <1>1. Init => Foci
    BY DEF Init
  <1>2. Foci /\ [Next]_allVars => Foci'
    BY Parts
  <1>3. ASSUME Foci, ToolJournalTypeOK, MemoryJobsTypeOK, BuildPipelineTypeOK,
               SchedulesTypeOK, FollowUpsTypeOK
        PROVE  TypeOK
    <2>1. CASE focus = "tools"
      BY <1>3, <2>1 DEF TypeOK
    <2>2. CASE focus = "memory"
      BY <1>3, <2>2 DEF TypeOK
    <2>3. CASE focus = "pipeline"
      BY <1>3, <2>3 DEF TypeOK
    <2>4. CASE focus = "tasks"
      BY <1>3, <2>4 DEF TypeOK
    <2>5. CASE focus = "followups"
      BY <1>3, <2>5 DEF TypeOK
    <2> QED
      BY <1>3, <2>1, <2>2, <2>3, <2>4, <2>5
  <1> HIDE DEF Foci
  <1>4. Spec => []Foci
    BY <1>1, <1>2, PTL DEF Spec
  <1> QED
    BY <1>3, <1>4, ComponentsWork, JournalTypes, MemoryTypes, PipelineTypes, TasksTypes,
       FollowUpTypes, PTL
==============================================================================
