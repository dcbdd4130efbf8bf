------------------------------ MODULE FollowUps ------------------------------
(***************************************************************************)
(* The follow-ups of one direct conversation over Linq: a turn of the      *)
(* agent may leave one, to be said if the user stays silent                *)
(* (agents/followups.py, services/agent_followups.py, and what             *)
(* agents/service.py does with guard_follow_up_id).                        *)
(*                                                                         *)
(* A follow-up is named by the turn that left it (source_agent_run_id is   *)
(* unique), and a turn by the message or the event that woke the agent.    *)
(* Inbound messages cancel follow-ups; turns and follow-ups are worded     *)
(* under the conversation lock and delivered after it; workers settle the  *)
(* row in a read and a later write of the columns that changed, without a  *)
(* lock and whoever holds the row by then.                                 *)
(*                                                                         *)
(* The bubbles of a turn are taken as one: UserEvents has them one by one. *)
(* A follow-up in the web chat has no delivery; it is a special case.      *)
(***************************************************************************)
EXTENDS Integers, FiniteSets

CONSTANTS
  Messages,          \* inbound messages of the user
  Wakes,             \* events that wake the agent in this conversation
  Speakers,          \* processes that dispatch due follow-ups
  NoSource,
  FollowUpAttempts,  \* agent_follow_up_max_attempts
  Outages            \* whether processes die and errors cannot be recorded

ASSUME FollowUpsAssumption ==
  /\ Messages \cap Wakes = {}
  /\ NoSource \notin Messages \cup Wakes
  /\ IsFiniteSet(Messages) /\ IsFiniteSet(Wakes)
  /\ FollowUpAttempts \in Nat \ {0}
  /\ Outages \in BOOLEAN

Sources == Messages \cup Wakes

VARIABLES
  optOut,    \* User.messaging_opted_out_at, and the Linq channel "opted_out"
  turn,      \* what became of the turn of a message or an event
  born,      \* AgentFollowUp.created_at, as a position among follow-ups; 0 before
  newer,     \* whether an inbound message with a later created_at is stored
  status,    \* AgentFollowUp.status, "absent" before the row is committed
  attempts,  \* .attempts
  ripe,      \* a time of the row has passed: due_at of a pending or failed row,
             \*   two minutes since locked_at of a row in processing
  worded,    \* whether the messages under the follow-up's key are stored
  heard,     \* whether Linq has accepted them
  pc,        \* where a worker is
  work       \* its follow-up, and the status it has read in order to settle it

rowVars  == <<status, attempts, ripe>>
userVars == <<optOut, turn, born, newer>>
talkVars == <<worded, heard>>
procVars == <<pc, work>>
followUpVars == <<userVars, rowVars, talkVars, procVars>>

NoWork == [follow |-> NoSource, seen |-> "unread"]
At(w) == pc[w]
Follow(w) == work[w].follow
FollowUpStatuses == {"absent", "pending", "processing", "completed", "cancelled", "failed"}

\* The follow-ups whose created_at is fixed.
Stamped == {s \in Sources : born[s] # 0}

-----------------------------------------------------------------------------
(***************************************************************************)
(* Faults.  Each operator is the definition of the same shape below with   *)
(* one plausible slip in it; no action uses them.                          *)
(***************************************************************************)

\* The empty result of the query for a stored turn is taken for one.
NoRowsIsATurn(f) == TRUE

\* Cancelling stops at the rows that are not being dispatched.
CancelsPending == {"pending"}

\* A row is retried or completed also when it was cancelled.
SettlesAnything(l, s) == FALSE

\* A delivery that raised counts as made.
CompletingAnyway == "completing"

\* Failed rows are not picked up again.
SayableOnce(f) == status[f] \in {"pending", "processing"} /\ ripe[f]

\* Turns of the user do not hold the lock.
LockOfFollowUps == \A v \in Speakers : At(v) \notin {"running", "persisting"}

\* The attempt limit is one too high.
OneTooMany(f) == attempts[f] <= FollowUpAttempts

-----------------------------------------------------------------------------
(***************************************************************************)
(* Decisions of the code                                                   *)
(***************************************************************************)

\* What _claim_follow_up selects.
Sayable(f) == status[f] \in {"pending", "failed", "processing"} /\ ripe[f]
AttemptsLeft(f) == attempts[f] < FollowUpAttempts

\* The rows cancel_pending_follow_ups updates.
CancelledByMessage == {"pending", "processing"}

\* conversation_turn_lock: nobody words a turn of the conversation.
LockFree ==
  /\ \A s \in Sources : turn[s] \notin {"running", "persisting"}
  /\ \A v \in Speakers : At(v) \notin {"running", "persisting"}

\* _should_cancel.
ShouldCancel(f) == optOut \/ newer[f]

\* _load_existing_turn.
TurnExists(f) == worded[f]

\* Which status keeps _complete_, _cancel_ and _retry_follow_up from writing.
Settling == {"completing", "cancelling", "yielding", "retrying"}
LeavesAlone(l, s) ==
  CASE l \in {"cancelling", "yielding"} -> s = "completed"
    [] l \in {"completing", "retrying"} -> s = "cancelled"
SettledAs(l) ==
  CASE l \in {"cancelling", "yielding"} -> "cancelled"
    [] l = "completing"                 -> "completed"
    [] l = "retrying"                   -> "failed"

\* What follows an error of the delivery.
OnDeliveryError == "retrying"

-----------------------------------------------------------------------------
FollowUpsInit ==
  /\ optOut = FALSE
  /\ turn = [s \in Sources |-> "absent"]
  /\ born = [s \in Sources |-> 0]
  /\ newer = [s \in Sources |-> FALSE]
  /\ status = [s \in Sources |-> "absent"]
  /\ attempts = [s \in Sources |-> 0]
  /\ ripe = [s \in Sources |-> FALSE]
  /\ worded = [s \in Sources |-> FALSE]
  /\ heard = [s \in Sources |-> FALSE]
  /\ pc = [w \in Speakers |-> "idle"]
  /\ work = [w \in Speakers |-> NoWork]

-----------------------------------------------------------------------------
(***************************************************************************)
(* The user and the turns of the agent                                     *)
(***************************************************************************)

\* The Linq webhook stores a message.  Linq gives its created_at, so a message
\* may be older than follow-ups that exist when it arrives: it is newer than
\* the first k of them.  It cancels, may opt the user out or in, and starts a
\* turn unless the user is opted out.
Receive(m, k, word) ==
  LET out == word = "stop" \/ (optOut /\ word # "start")
  IN  /\ turn[m] = "absent"
      /\ k <= Cardinality(Stamped)
      /\ newer' = [s \in Sources |-> newer[s] \/ (s \in Stamped /\ born[s] <= k)]
      /\ status' = [s \in Sources |-> IF status[s] \in CancelledByMessage THEN "cancelled"
                                                                           ELSE status[s]]
      /\ ripe' = [s \in Sources |-> ripe[s] /\ status[s] \notin CancelledByMessage]
      /\ optOut' = out
      /\ turn' = [turn EXCEPT ![m] = IF out THEN "done" ELSE "waiting"]
      /\ UNCHANGED <<born, attempts, talkVars, procVars>>

\* The outbox worker wakes the agent with an event.
Wake(e) ==
  /\ turn[e] = "absent"
  /\ turn' = [turn EXCEPT ![e] = "waiting"]
  /\ UNCHANGED <<optOut, born, newer, rowVars, talkVars, procVars>>

\* The turn gets the lock and calls the model.
StartTurn(s) ==
  /\ turn[s] = "waiting"
  /\ LockFree
  /\ turn' = [turn EXCEPT ![s] = "running"]
  /\ UNCHANGED <<optOut, born, newer, rowVars, talkVars, procVars>>

\* schedule_follow_up inside the transaction that stores the turn, for a
\* proposal of the model and a user who is not opted out.
PlanFollowUp(s) ==
  /\ turn[s] = "running"
  /\ ~optOut
  /\ born' = [born EXCEPT ![s] = Cardinality(Stamped) + 1]
  /\ turn' = [turn EXCEPT ![s] = "persisting"]
  /\ UNCHANGED <<optOut, newer, rowVars, talkVars, procVars>>

\* The transaction commits; messages that came meanwhile did not see the row.
CommitFollowUp(s) ==
  /\ turn[s] = "persisting"
  /\ turn' = [turn EXCEPT ![s] = "done"]
  /\ status' = [status EXCEPT ![s] = "pending"]
  /\ UNCHANGED <<optOut, born, newer, attempts, ripe, talkVars, procVars>>

\* The turn ends without a follow-up: none was proposed, it failed, or its
\* process died.
EndTurn(s) ==
  /\ turn[s] \in {"waiting", "running", "persisting"}
  /\ turn' = [turn EXCEPT ![s] = "done"]
  /\ UNCHANGED <<optOut, born, newer, rowVars, talkVars, procVars>>

\* due_at or the two minutes of a claim pass.
Ripen(f) ==
  /\ status[f] \in {"pending", "processing", "failed"} /\ ~ripe[f]
  /\ ripe' = [ripe EXCEPT ![f] = TRUE]
  /\ UNCHANGED <<userVars, status, attempts, talkVars, procVars>>

-----------------------------------------------------------------------------
(***************************************************************************)
(* dispatch_due_follow_up                                                  *)
(***************************************************************************)
Jump(w, l) == pc' = [pc EXCEPT ![w] = l]
Return(w) == Jump(w, "idle") /\ work' = [work EXCEPT ![w] = NoWork]

\* _claim_follow_up.
Claim(w, f) ==
  /\ At(w) = "idle"
  /\ Sayable(f)
  /\ AttemptsLeft(f)
  /\ status' = [status EXCEPT ![f] = "processing"]
  /\ attempts' = [attempts EXCEPT ![f] = @ + 1]
  /\ ripe' = [ripe EXCEPT ![f] = FALSE]
  /\ Jump(w, "checking")
  /\ work' = [work EXCEPT ![w].follow = f]
  /\ UNCHANGED <<userVars, talkVars>>

Check(w) ==
  /\ At(w) = "checking"
  /\ Jump(w, IF ShouldCancel(Follow(w)) THEN "cancelling" ELSE "resolving")
  /\ UNCHANGED <<userVars, rowVars, talkVars, work>>

\* _resolve_channel: an opted-out channel is not active.
Resolve(w) ==
  /\ At(w) = "resolving"
  /\ Jump(w, IF optOut THEN "cancelling" ELSE "waiting")
  /\ UNCHANGED <<userVars, rowVars, talkVars, work>>

\* run_follow_up_turn gets the lock: a stored turn is returned at once, a
\* cancelled follow-up gives way, else the model is called.
TakeLock(w) ==
  LET f == Follow(w)
  IN  /\ At(w) = "waiting"
      /\ LockFree
      /\ \/ TurnExists(f) /\ Jump(w, "delivering")
         \/ ~TurnExists(f) /\ status[f] = "cancelled" /\ Jump(w, "yielding")
         \/ ~TurnExists(f) /\ status[f] # "cancelled" /\ Jump(w, "running")
      /\ UNCHANGED <<userVars, rowVars, talkVars, work>>

\* The model has answered; the row is read once more.
Recheck(w) ==
  /\ At(w) = "running"
  /\ Jump(w, IF status[Follow(w)] = "cancelled" THEN "yielding" ELSE "persisting")
  /\ UNCHANGED <<userVars, rowVars, talkVars, work>>

\* The commit of the turn ends the lock; its answer may be lost.
Persist(w, lost) ==
  /\ At(w) = "persisting"
  /\ worded' = [worded EXCEPT ![Follow(w)] = TRUE]
  /\ Jump(w, IF lost THEN "retrying" ELSE "delivering")
  /\ UNCHANGED <<userVars, rowVars, heard, work>>

\* Anything before the commit raises.
DispatchFails(w) ==
  /\ At(w) \in {"checking", "resolving", "waiting", "running", "persisting"}
  /\ Jump(w, "retrying")
  /\ UNCHANGED <<userVars, rowVars, talkVars, work>>

\* deliver_linq_replies; bubbles Linq has already are not sent again.
Deliver(w) ==
  /\ At(w) = "delivering"
  /\ heard' = [heard EXCEPT ![Follow(w)] = TRUE]
  /\ Jump(w, "completing")
  /\ UNCHANGED <<userVars, rowVars, worded, work>>

\* The delivery raises, perhaps after Linq has taken the bubbles.
DeliveryFails(w, taken) ==
  /\ At(w) = "delivering"
  /\ heard' = [heard EXCEPT ![Follow(w)] = @ \/ taken]
  /\ Jump(w, OnDeliveryError)
  /\ UNCHANGED <<userVars, rowVars, worded, work>>

\* _complete_, _cancel_ and _retry_follow_up read the row without a lock.
ReadRow(w) ==
  LET s == status[Follow(w)]
  IN  /\ At(w) \in Settling
      /\ work[w].seen = "unread"
      /\ IF LeavesAlone(At(w), s)
         THEN Return(w)
         ELSE work' = [work EXCEPT ![w].seen = s] /\ UNCHANGED pc
      /\ UNCHANGED <<userVars, rowVars, talkVars>>

\* The UPDATE has the columns that changed since the row was read.
Store(w) ==
  LET f == Follow(w)
      s == IF work[w].seen = SettledAs(At(w)) THEN status[f] ELSE SettledAs(At(w))
  IN  /\ status' = [status EXCEPT ![f] = s]
      /\ ripe' = [ripe EXCEPT ![f] = @ /\ s # SettledAs(At(w))]
      /\ UNCHANGED attempts

WriteRow(w) ==
  /\ At(w) \in Settling
  /\ work[w].seen # "unread"
  /\ Store(w)
  /\ Return(w)
  /\ UNCHANGED <<userVars, talkVars>>

\* Reading or writing the row raises, perhaps after the commit was made.  The
\* exception is handled by a retry, except in the handlers themselves.
SettlingFails(w, committed) ==
  /\ At(w) \in Settling
  /\ At(w) \in {"yielding", "retrying"} => Outages
  /\ IF committed THEN work[w].seen # "unread" /\ Store(w) ELSE UNCHANGED rowVars
  /\ IF At(w) \in {"completing", "cancelling"}
     THEN Jump(w, "retrying") /\ work' = [work EXCEPT ![w].seen = "unread"]
     ELSE Return(w)
  /\ UNCHANGED <<userVars, talkVars>>

Crash(w) ==
  /\ Outages
  /\ At(w) # "idle"
  /\ Return(w)
  /\ UNCHANGED <<userVars, rowVars, talkVars>>

-----------------------------------------------------------------------------
Inbound == \E m \in Messages, k \in 0..Cardinality(Sources), word \in {"text", "stop", "start"} :
             Receive(m, k, word)
TurnStep(s) == StartTurn(s) \/ PlanFollowUp(s) \/ CommitFollowUp(s) \/ EndTurn(s)
Poll(w) == \E f \in Sources : Claim(w, f)
SpeakerStep(w) ==
  \/ Check(w)
  \/ Resolve(w)
  \/ TakeLock(w)
  \/ Recheck(w)
  \/ \E lost \in BOOLEAN : Persist(w, lost)
  \/ DispatchFails(w)
  \/ Deliver(w)
  \/ \E taken \in BOOLEAN : DeliveryFails(w, taken)
  \/ ReadRow(w)
  \/ WriteRow(w)
  \/ \E committed \in BOOLEAN : SettlingFails(w, committed)

FollowUpsNext ==
  \/ Inbound
  \/ \E e \in Wakes : Wake(e)
  \/ \E s \in Sources : TurnStep(s) \/ Ripen(s)
  \/ \E w \in Speakers : Poll(w) \/ SpeakerStep(w) \/ Crash(w)

FollowUpsSpec == FollowUpsInit /\ [][FollowUpsNext]_followUpVars

(***************************************************************************)
(* Fairness: turns end (the model call has a timeout), workers poll, every *)
(* call a dispatch makes ends, clocks advance.  The user and crashes are   *)
(* not fair.  Turns are finitely many, so the lock needs no more than weak *)
(* fairness.                                                               *)
(***************************************************************************)
FollowUpsFairness ==
  /\ \A s \in Sources : WF_followUpVars(TurnStep(s)) /\ WF_followUpVars(Ripen(s))
  /\ \A w \in Speakers : WF_followUpVars(Poll(w)) /\ WF_followUpVars(SpeakerStep(w))

FollowUpsFairSpec == FollowUpsSpec /\ FollowUpsFairness

-----------------------------------------------------------------------------
(***************************************************************************)
(* Properties                                                              *)
(***************************************************************************)
Labels == {"idle", "checking", "resolving", "waiting", "running", "persisting", "delivering"}
            \cup Settling

\* The shape of the rows and of the workers; attempts stay within
\* agent_follow_up_max_attempts.
FollowUpsTypeOK ==
  /\ optOut \in BOOLEAN
  /\ turn \in [Sources -> {"absent", "waiting", "running", "persisting", "done"}]
  /\ born \in [Sources -> Nat]
  /\ newer \in [Sources -> BOOLEAN]
  /\ status \in [Sources -> FollowUpStatuses]
  /\ attempts \in [Sources -> 0..FollowUpAttempts]
  /\ ripe \in [Sources -> BOOLEAN]
  /\ worded \in [Sources -> BOOLEAN]
  /\ heard \in [Sources -> BOOLEAN]
  /\ pc \in [Speakers -> Labels]
  /\ work \in [Speakers -> [follow : Sources \cup {NoSource},
                            seen : FollowUpStatuses \cup {"unread"}]]

\* The model is never asked for a follow-up that is stored already, however
\* dispatches overlap and repeat, and no other turn of the conversation is
\* worded meanwhile.
WordedOnce ==
  \A w \in Speakers : At(w) \in {"running", "persisting"} =>
    /\ ~worded[Follow(w)]
    /\ \A s \in Sources : turn[s] \notin {"running", "persisting"}

\* As long as one dispatch at a time has worked on a follow-up, a reply of the
\* user that is stored before its words are asked for keeps them from being
\* asked for, and one stored before the model has answered from being stored:
\* whether it comes before the row is committed, before the claim, or at any
\* point up to there.
ReplyGoesFirst ==
  [][\A w \in Speakers :
       LET f == Follow(w)
       IN  pc'[w] # At(w) /\ pc'[w] \in {"running", "persisting"} /\ newer[f]
             => attempts[f] > 1]_followUpVars

\* A cancelled follow-up is revived only by a dispatch that read its row before
\* the cancellation: no claim picks it up, no retry or completion that reads it
\* as cancelled changes it.
FollowUpsStayCancelled ==
  [][\A f \in Sources :
       status[f] = "cancelled" /\ status'[f] # "cancelled"
         => \E w \in Speakers :
              Follow(w) = f /\ work[w].seen \notin {"unread", "cancelled"}]_followUpVars

\* A follow-up that counts as completed was heard, whatever failed and was
\* retried on the way.
CompletedMeansHeard == \A f \in Sources : status[f] = "completed" => heard[f]

\* A follow-up is put into words once and heard only afterwards: the promise of
\* the outbox of events holds of follow-ups as well.
Telling == INSTANCE Telling WITH
             Events <- Sources,
             MaxBubbles <- 1,
             raised <- {f \in Sources : status[f] # "absent"},
             told <- [f \in Sources |-> IF worded[f] THEN 1 ELSE 0],
             heard <- [f \in Sources |-> IF heard[f] THEN {0} ELSE {}]

TellingSpec == Telling!Spec

\* A follow-up ends: completed, cancelled, or failed after its last attempt,
\* while errors can be recorded and no process dies.
FollowUpsEnd ==
  \A f \in Sources :
    status[f] = "pending"
      ~> status[f] \in {"completed", "cancelled"} \/ (status[f] = "failed" /\ ~AttemptsLeft(f))
==============================================================================
