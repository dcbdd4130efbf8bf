--------------------------- MODULE AccountDeletion ---------------------------
(***************************************************************************)
(* The end of one account: the tools that schedule and cancel it, and the  *)
(* worker that carries it out in services/account_management.py and        *)
(* services/user_reset.py, while the user goes on using Dot.               *)
(*                                                                         *)
(* A row stands for one of the user's in any table: Owned rows refer to    *)
(* the user by a key that cascades, Traces (webhook_events) only mention   *)
(* him.  A credential is a grant of a Google account or a bank connection  *)
(* and is known to its provider as well.                                   *)
(***************************************************************************)
EXTENDS Naturals, FiniteSets

CONSTANTS
  Owned, Traces,
  Credentials,
  Rooms,        \* groups the user has made
  DeletionAttempts  \* settings.scheduled_task_max_attempts

ASSUME AccountDeletionAssumption == DeletionAttempts \in Nat \ {0}

VARIABLES
  alive,      \* the row of users
  phrase,     \* the latest message of the user is the phrase that confirms
  deletion,   \* the scheduled task: its status, its attempts, whether it is due or abandoned
  cancel,     \* a cancellation that has read the task
  withdrawn,  \* the user has been told that the deletion is cancelled
  agreed,     \* the attempt under way was claimed before that
  rows,       \* rows of the user
  stored,     \* credentials Dot keeps
  valid,      \* credentials the provider still accepts
  company,    \* per room: the user has it alone or with others, or what became of it
  worker,     \* the one worker: where it is, whether its task is the latest, what it has still
              \*   to revoke, and the rows and rooms it has planned to delete
  spared,     \* credentials that a provider refused to revoke
  late        \* rows, credentials and company that came once the worker had listed them

deletionVars == <<alive, phrase, deletion, cancel, withdrawn, agreed, rows, stored, valid, company,
                  worker, spared, late>>
accountRows  == <<alive, rows, company>>

Resting == [at |-> "idle", own |-> TRUE, revoke |-> {}, plan |-> {}, rooms |-> {}]

-----------------------------------------------------------------------------
(***************************************************************************)
(* Faults.  Each operator is the definition of the same shape below with   *)
(* one plausible slip in it; no action uses them.                          *)
(***************************************************************************)

\* An attempt that fails is tried again.
TriesAgain == TRUE

\* Attempts are not counted when a task is claimed.
ClaimableForever == deletion.status \in {"active", "failed"} /\ deletion.due

-----------------------------------------------------------------------------
(***************************************************************************)
(* Decisions of the code                                                   *)
(***************************************************************************)

\* The rows that refer to the user, and the webhook events that contain an address of his.
OwnRows  == rows \cap Owned
Mentions == rows \cap Traces

\* The plan, and then the row of the user with every row that refers to it.
Remaining(plan) == (rows \ plan) \ Owned

\* Conversations that are still the user's once groups have been handed over.
DoomedRooms == {g \in Rooms : company[g] = "alone"}

\* _retry_task leaves a cancelled task alone; a later one is not its own.
StillWanted == worker.own /\ deletion.status # "cancelled"

\* _claim_task
Claimable ==
  /\ deletion.tries < DeletionAttempts
  /\ \/ deletion.status \in {"active", "failed"} /\ deletion.due
     \/ deletion.status = "processing" /\ deletion.due /\ worker.at = "idle"

-----------------------------------------------------------------------------
AccountDeletionInit ==
  /\ alive = TRUE
  /\ phrase = FALSE
  /\ deletion = [status |-> "none", tries |-> 0, due |-> FALSE]
  /\ cancel = FALSE /\ withdrawn = FALSE /\ agreed = FALSE
  /\ rows = {} /\ stored = {} /\ valid = {}
  /\ company \in [Rooms -> {"alone", "others"}]
  /\ worker = Resting
  /\ spared = {} /\ late = {}

Working == worker.at # "idle"
Planned == worker.at = "planned"

\* A message, a run, a memory or a session is written, and a webhook mentions the user.
Write(r) ==
  /\ alive /\ r \notin rows
  /\ rows' = rows \cup {r}
  /\ late' = IF Planned THEN late \cup {r} ELSE late
  /\ UNCHANGED <<alive, phrase, deletion, cancel, withdrawn, agreed, stored, valid, company,
                 worker, spared>>

\* complete_google_oauth or complete_plaid_link stores a credential.
Connect(c) ==
  /\ alive /\ c \notin stored \cup valid
  /\ stored' = stored \cup {c} /\ valid' = valid \cup {c}
  /\ late' = IF Working THEN late \cup {c} ELSE late
  /\ UNCHANGED <<alive, phrase, deletion, cancel, withdrawn, agreed, rows, company, worker,
                 spared>>

\* The user writes, the phrase or something else.
Say(text) ==
  /\ alive /\ phrase' = text
  /\ UNCHANGED <<accountRows, deletion, cancel, withdrawn, agreed, stored, valid, worker, spared,
                 late>>

\* Somebody joins a group of the user, or the last of the others leaves.
ChangeRoom(g) ==
  /\ alive /\ company[g] \in {"alone", "others"}
  /\ company' = [company EXCEPT ![g] = IF @ = "alone" THEN "others" ELSE "alone"]
  /\ late' = IF Planned THEN late \cup {g} ELSE late
  /\ UNCHANGED <<alive, phrase, deletion, cancel, withdrawn, agreed, rows, stored, valid, worker,
                 spared>>

\* DeleteAccountTool, with schedule_account_deletion.
Schedule ==
  /\ alive /\ phrase
  /\ deletion.status \in {"none", "cancelled"}
  /\ deletion' = [status |-> "active", tries |-> 0, due |-> FALSE]
  /\ withdrawn' = FALSE
  /\ worker' = [worker EXCEPT !.own = worker.at = "idle"]
  /\ UNCHANGED <<accountRows, phrase, cancel, agreed, stored, valid, spared, late>>

\* The grace period, a delay of a retry or the lock of an abandoned attempt ends.
FallDue ==
  /\ deletion.status \in {"active", "failed", "processing"} /\ ~deletion.due
  /\ deletion.status = "processing" => ~Working
  /\ deletion' = [deletion EXCEPT !.due = TRUE]
  /\ UNCHANGED <<accountRows, phrase, cancel, withdrawn, agreed, stored, valid, worker, spared,
                 late>>

\* CancelAccountDeletionTool reads the task, ...
BeginCancel ==
  /\ alive /\ ~cancel /\ deletion.status \in {"active", "failed"}
  /\ cancel' = TRUE
  /\ UNCHANGED <<accountRows, phrase, deletion, withdrawn, agreed, stored, valid, worker, spared,
                 late>>

\* ... and writes what it has decided, whatever the task has become.
CommitCancel ==
  /\ alive /\ cancel /\ cancel' = FALSE
  /\ deletion' = [deletion EXCEPT !.status = "cancelled"]
  /\ withdrawn' = TRUE
  /\ UNCHANGED <<accountRows, phrase, agreed, stored, valid, worker, spared, late>>

\* The worker claims the task and lists what it will revoke.
Claim ==
  /\ alive /\ ~Working /\ Claimable
  /\ deletion' = [status |-> "processing", tries |-> deletion.tries + 1, due |-> FALSE]
  /\ agreed' = ~withdrawn
  /\ worker' = [Resting EXCEPT !.at = "revoking", !.revoke = stored]
  /\ UNCHANGED <<accountRows, phrase, cancel, withdrawn, stored, valid, spared, late>>

\* disconnect_google_integration or disconnect_financial_connection, in a transaction of its
\*   own; a failure, before or after the provider has revoked it, is logged.
Revoke(c) ==
  /\ worker.at = "revoking" /\ c \in worker.revoke
  /\ worker' = [worker EXCEPT !.revoke = @ \ {c}]
  /\ \/ stored' = stored \ {c} /\ valid' = valid \ {c} /\ UNCHANGED spared
     \/ spared' = spared \cup {c} /\ valid' \in {valid, valid \ {c}} /\ UNCHANGED stored
  /\ UNCHANGED <<accountRows, phrase, deletion, cancel, withdrawn, agreed, late>>

\* The last transaction hands groups over and plans.
Plan ==
  /\ worker.at = "revoking" /\ worker.revoke = {}
  /\ worker' = [worker EXCEPT !.at = "planned", !.plan = OwnRows \cup Mentions,
                                 !.rooms = DoomedRooms]
  /\ UNCHANGED <<accountRows, phrase, deletion, cancel, withdrawn, agreed, stored, valid, spared,
                 late>>

\* It commits; everything that refers to the user is gone, his tasks included.
Purge ==
  /\ worker.at = "planned"
  /\ alive' = FALSE
  /\ rows' = Remaining(worker.plan)
  /\ stored' = {}
  /\ company' = [g \in Rooms |-> IF g \notin worker.rooms THEN "handed over"
                                 ELSE IF company[g] = "others" THEN "torn" ELSE "gone"]
  /\ deletion' = [status |-> "none", tries |-> 0, due |-> FALSE]
  /\ cancel' = FALSE
  /\ worker' = Resting
  /\ UNCHANGED <<phrase, withdrawn, agreed, valid, spared, late>>

\* It fails, and _retry_task unless the task has been cancelled.
Fail ==
  /\ Working
  /\ worker' = Resting
  /\ deletion' = IF StillWanted THEN [deletion EXCEPT !.status = "failed", !.due = FALSE]
                 ELSE deletion
  /\ late' = {}
  /\ UNCHANGED <<accountRows, phrase, cancel, withdrawn, agreed, stored, valid, spared>>

\* The worker dies.
Die ==
  /\ Working
  /\ worker' = Resting
  /\ late' = {}
  /\ UNCHANGED <<accountRows, phrase, deletion, cancel, withdrawn, agreed, stored, valid, spared>>

AccountDeletionNext ==
  \/ \E r \in Owned \cup Traces : Write(r)
  \/ \E c \in Credentials : Connect(c) \/ Revoke(c)
  \/ \E text \in BOOLEAN : Say(text)
  \/ \E g \in Rooms : ChangeRoom(g)
  \/ Schedule \/ FallDue \/ BeginCancel \/ CommitCancel
  \/ Claim \/ Plan \/ Purge \/ Fail \/ Die

-----------------------------------------------------------------------------
\* The account, its task and the worker.
AccountDeletionTypeOK ==
  /\ alive \in BOOLEAN /\ phrase \in BOOLEAN /\ cancel \in BOOLEAN
  /\ withdrawn \in BOOLEAN /\ agreed \in BOOLEAN
  /\ deletion \in [status : {"none", "active", "processing", "failed", "cancelled"},
                   tries : 0..DeletionAttempts, due : BOOLEAN]
  /\ rows \subseteq Owned \cup Traces
  /\ stored \subseteq Credentials /\ valid \subseteq Credentials /\ spared \subseteq Credentials
  /\ company \in [Rooms -> {"alone", "others", "handed over", "torn", "gone"}]
  /\ worker \in [at : {"idle", "revoking", "planned"}, own : BOOLEAN,
                 revoke : SUBSET Credentials, plan : SUBSET (Owned \cup Traces),
                 rooms : SUBSET Rooms]
  /\ late \subseteq Owned \cup Traces \cup Credentials \cup Rooms

\* Nothing that refers to the user is left, and no mention older than the plan; no credential
\*   is given up that could have been revoked, and no group that others were in.
LeavesNothingBehind ==
  ~alive => /\ rows \subseteq Traces \cap late
            /\ stored = {} /\ valid \subseteq spared \cup late
            /\ \A g \in Rooms : company[g] = "torn" => g \in late

\* An account is not deleted by an attempt that starts after its deletion has been cancelled.
DeletedAsAgreed == ~alive \/ worker.at # "idle" => agreed

\* execute_account_deletion against a user who goes on writing, connecting accounts, joining
\*   and cancelling, with attempts that fail halfway: what it removes is complete, and it is
\*   what the user had agreed to.
DeletionIsComplete == LeavesNothingBehind /\ DeletedAsAgreed
==============================================================================
