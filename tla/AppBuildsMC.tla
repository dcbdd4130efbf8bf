------------------------------ MODULE AppBuildsMC ------------------------------
(***************************************************************************)
(* Instances of AppBuilds for TLC.  Jobs are numbered; the processes are   *)
(* model values and share one worker_id, the harder case for the fence     *)
(* (containers that report the same host name and pid).                    *)
(***************************************************************************)
EXTENDS AppBuilds, TLC

CONSTANTS a1, a2, w

SharedWorkerId == [p \in Processes |-> w]

\* All jobs revise one app.
OneApp == [j \in Jobs |-> a1]

\* Odd jobs belong to one app, even jobs to the other.
TwoApps == [j \in Jobs |-> IF j % 2 = 1 THEN a1 ELSE a2]

\* The first revision stores tasks, later ones also notes.
GrowingManifest ==
  [j \in Jobs |-> IF j = 1 THEN {"task"} ELSE {"task", "note"}]
OneManifest == [j \in Jobs |-> Entities]

TaskSeed == [j \in Jobs |-> {"task"}]
NoSeed == [j \in Jobs |-> {}]

ProcessSymmetry == Permutations(Processes)
================================================================================
