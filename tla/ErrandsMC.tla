------------------------------- MODULE ErrandsMC -------------------------------
(***************************************************************************)
(* What has to come to an end, for TLC: the turns of Conversations, the    *)
(* tasks of ScheduledTasks and the follow-ups of FollowUps.  They share no *)
(* state: a behaviour is one of any of them.  In each, nothing happens     *)
(* before a request begins it, so the fairness of the two that do not move *)
(* asks for nothing.                                                       *)
(***************************************************************************)
EXTENDS Conversations, ScheduledTasks, FollowUps, TLC

VARIABLE focus

CONSTANTS hello, there

allVars == <<focus, turnVars, taskVars, followUpVars>>

\* Two events, with a message each.
TwoMessages == hello :> 1 @@ there :> 2

Init ==
  /\ focus \in {"turns", "tasks", "followups"}
  /\ ConversationsInit /\ SchedulesInit /\ FollowUpsInit
  /\ focus # "turns" => kind = "direct" /\ onboarded

Next ==
  \/ focus = "turns" /\ ConversationsNext /\ UNCHANGED <<focus, taskVars, followUpVars>>
  \/ focus = "tasks" /\ SchedulesNext /\ UNCHANGED <<focus, turnVars, followUpVars>>
  \/ focus = "followups" /\ FollowUpsNext /\ UNCHANGED <<focus, turnVars, taskVars>>

FairSpec ==
  /\ Init /\ [][Next]_allVars
  /\ ConversationsFairness /\ SchedulesFairness /\ FollowUpsFairness

\* What was put off comes about: due tasks are acted upon, and follow-ups end.
ErrandsEnd == DueTasksRun /\ FollowUpsEnd
==============================================================================
