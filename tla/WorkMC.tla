-------------------------------- MODULE WorkMC --------------------------------
(***************************************************************************)
(* Instances of what the agent and the workers do for TLC: ToolJournal,    *)
(* MemoryJobs, BuildPipeline, ScheduledTasks and FollowUps.  They share no *)
(* state: a behaviour is one of any of them.                               *)
(***************************************************************************)
EXTENDS ToolJournal, MemoryJobs, BuildPipeline, ScheduledTasks, FollowUps, TLC

VARIABLE focus

CONSTANTS a, b

allVars == <<focus, toolVars, memoryVars, pipelineVars, taskVars, followUpVars>>

\* A call and one that takes its identity with another tool.
TwoRequests == {[tool |-> "create_personal_app"], [tool |-> "revise_custom_app"]}

\* The claims share an entity.
Linked == {<<a, b>>}

\* A first fact, another in its place, and the same facts again.
Learned ==
  {[action |-> "add", target |-> NoFact, claim |-> a]}
    \cup [action : {"reinforce"}, target : Facts, claim : {NoClaim}]
    \cup [action : {"supersede"}, target : Facts, claim : {b}]

Init ==
  /\ focus \in {"tools", "memory", "pipeline", "tasks", "followups"}
  /\ ToolJournalInit /\ MemoryJobsInit /\ BuildPipelineInit /\ SchedulesInit /\ FollowUpsInit
  /\ focus # "tools" => standing = "direct"
  /\ focus # "pipeline" => runner = "none"

Next ==
  \/ /\ focus = "tools" /\ ToolJournalNext
     /\ UNCHANGED <<focus, memoryVars, pipelineVars, taskVars, followUpVars>>
  \/ /\ focus = "memory" /\ MemoryJobsNext
     /\ UNCHANGED <<focus, toolVars, pipelineVars, taskVars, followUpVars>>
  \/ /\ focus = "pipeline" /\ BuildPipelineNext
     /\ UNCHANGED <<focus, toolVars, memoryVars, taskVars, followUpVars>>
  \/ /\ focus = "tasks" /\ SchedulesNext
     /\ UNCHANGED <<focus, toolVars, memoryVars, pipelineVars, followUpVars>>
  \/ /\ focus = "followups" /\ FollowUpsNext
     /\ UNCHANGED <<focus, toolVars, memoryVars, pipelineVars, taskVars>>

Spec == Init /\ [][Next]_allVars

Symmetry == Permutations(Workers) \cup Permutations(Facts) \cup Permutations(Jobs)

\* The rows and processes of the one that moves.
TypeOK ==
  CASE focus = "tools"     -> ToolJournalTypeOK
    [] focus = "memory"    -> MemoryJobsTypeOK
    [] focus = "pipeline"  -> BuildPipelineTypeOK
    [] focus = "tasks"     -> SchedulesTypeOK
    [] focus = "followups" -> FollowUpsTypeOK

\* What is to be done later is done: a task leaves nothing behind that was not
\* done, and a follow-up that counts as said was heard and was worded once.
ErrandsAreDone == NothingLeftBehind /\ []CompletedMeansHeard /\ []WordedOnce

\* What the user cancels comes back only if a dispatch had read it before.
CancellationsHold == TasksStayCancelled /\ FollowUpsStayCancelled
==============================================================================
