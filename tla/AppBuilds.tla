------------------------------ MODULE AppBuilds ------------------------------
(***************************************************************************)
(* The durable build queue of generated apps and the deployment pointer    *)
(* the queue publishes to: services/generated_apps_v2.py with its worker   *)
(* loop (app_builder/pipeline.py, app_builder/service_hooks.py) and the    *)
(* archive operation of services/generated_apps.py, for one user's apps.   *)
(*                                                                         *)
(* A database transaction is one step unless it can wait for a row lock    *)
(* while it holds another one.  Two operations do: complete_build locks    *)
(* its job row and then the app row, archive_generated_app locks the app   *)
(* row and then updates the job rows, so both are split at that point.     *)
(* The row locks are read off the program counters: a process in           *)
(* "completing" holds the row of its job, archiving[a] holds the row of a. *)
(*                                                                         *)
(* A job and the revision it publishes have the same identity: a build     *)
(* creates at most one revision (result_revision_id).                      *)
(***************************************************************************)
EXTENDS Integers, FiniteSets

CONSTANTS
  Apps,              \* generated_apps rows of one user
  Jobs,              \* generated_app_build_jobs rows, and their revisions
  Processes,         \* running app-builder processes
  WorkerIds,         \* "hostname:pid" strings
  Entities,          \* record kinds an app can store
  None,              \* NULL
  AppOf,             \* the app each job belongs to
  WorkerIdOf,        \* the worker_id each process reports; it may be shared
  Manifest,          \* the record kinds the revision of a job accepts
  Seed,              \* the record kinds the blueprint of a job seeds
  MaxBuildAttempts,  \* _MAX_BUILD_ATTEMPTS
  MaxLiveBuilds,     \* _MAX_LIVE_BUILDS_PER_USER
  MaxActiveApps,     \* _MAX_ACTIVE_CODE_APPS_PER_USER
  MaxVersion         \* bound on deployment_version, for the model checker

ASSUME ConstantsAssumption ==
  /\ IsFiniteSet(Jobs)
  /\ IsFiniteSet(Apps)
  /\ None \notin Jobs \cup WorkerIds
  /\ AppOf \in [Jobs -> Apps]
  /\ WorkerIdOf \in [Processes -> WorkerIds]
  /\ Manifest \in [Jobs -> SUBSET Entities]
  /\ Seed \in [Jobs -> SUBSET Entities]
  /\ \A j \in Jobs : Seed[j] \subseteq Manifest[j]
  /\ MaxBuildAttempts \in Nat \ {0}
  /\ MaxLiveBuilds \in Nat \ {0}
  /\ MaxActiveApps \in Nat \ {0}
  /\ MaxVersion \in Nat

VARIABLES
  status,       \* GeneratedAppBuildJob.status, "absent" before the row exists
  attempts,     \* .attempts, the fencing token
  claimedBy,    \* .claimed_by
  leaseLive,    \* whether .lease_expires_at is set and lies in the future
  base,         \* .base_revision_id
  createdAt,    \* .created_at, as a position in the order of creation
  announced,    \* outbox keys app-build-{completed,failed}:{job} of user_events
  appStatus,    \* GeneratedApp.status, "absent" before the row exists
  archiving,    \* an archive transaction holds the app row and updates the jobs
  active,       \* GeneratedAppDeployment.active_revision_id
  previous,     \* .previous_revision_id
  version,      \* .deployment_version, 0 while there is no deployment
  revNum,       \* GeneratedAppRevision.revision_number, 0 while there is none
  currentRev,   \* GeneratedApp.current_version
  records,      \* kinds of the GeneratedAppDataRecord rows of an app
  pc,           \* what a builder process is doing
  claim,        \* BuildClaim.job_id and .attempt a process keeps in memory
  retryable     \* BuildFailure.retryable, meaningful while it reports a failure

jobVars    == <<status, attempts, claimedBy, leaseLive, base, createdAt, announced>>
deployVars == <<active, previous, version, revNum, currentRev>>
procVars   == <<pc, claim, retryable>>
vars == <<jobVars, deployVars, procVars, appStatus, archiving, records>>

NoClaim == [job |-> None, attempt |-> 0]

(***************************************************************************)
(* Reading the rows                                                        *)
(***************************************************************************)
Live(j)    == status[j] \in {"queued", "claimed"}
Settled(j) == status[j] \in {"succeeded", "failed"}
LiveOf(a)  == {j \in Jobs : AppOf[j] = a /\ Live(j)}
ActiveApps == {a \in Apps : appStatus[a] = "active"}

\* FOR UPDATE on the job row by an open complete_build transaction.
RowLocked(j) == \E p \in Processes : pc[p] = "completing" /\ claim[p].job = j

\* _locked_active_app returns: the row is active and no archive holds it.
AppAvailable(a) == appStatus[a] = "active" /\ ~archiving[a]

CreatedCount == Cardinality({j \in Jobs : status[j] # "absent"})

UnderBuildQuota == Cardinality({j \in Jobs : Live(j)}) < MaxLiveBuilds

-----------------------------------------------------------------------------
(***************************************************************************)
(* Faults.  Each operator is the definition of the same shape below with   *)
(* one plausible slip in it; no action uses them.                          *)
(***************************************************************************)

\* The fence without the attempt counter.
FenceWithoutAttempt(p) ==
  LET j == claim[p].job
  IN  status[j] = "claimed" /\ claimedBy[j] = WorkerIdOf[p]

\* The fence looks at the worker and the attempt only: a job that an archive
\* or a terminalised lease settled meanwhile still passes.
FenceWithoutStatus(p) == attempts[claim[p].job] = claim[p].attempt

\* The exhausted lease is not looked for; the job is claimed once more.
ExhaustedNever(j) == FALSE

\* The next number counts from the deployed revision instead of the maximum.
NumberFromDeployed(a, n) == n = currentRev[a] + 1

\* No re-check of the live records against the manifest being deployed.
RecordsUnchecked(a, j) == TRUE

\* Seeds are planted whenever the app has no records.
SeededWheneverEmpty(a, j) == IF records[a] = {} THEN Seed[j] ELSE records[a]

\* Archiving forgets the leased jobs.
WithdrawnQueuedOnly(a) == {j \in LiveOf(a) : status[j] = "queued"}

\* A revision may be queued while another one is in progress.
NoOtherBuildUnchecked(a) == TRUE

\* An expired lease is not eligible.
EligibleQueuedOnly == {j \in Jobs : status[j] = "queued"}

\* Taking over an expired lease does not count as an attempt.
TakeoverKeepsAttempt(j) == IF status[j] = "queued" THEN attempts[j] + 1 ELSE attempts[j]

-----------------------------------------------------------------------------
(***************************************************************************)
(* Decisions the operations share                                          *)
(***************************************************************************)

\* _claimed_job: the lease holder whose attempt is still the current one.
Fence(p) ==
  LET j == claim[p].job
  IN  /\ status[j] = "claimed"
      /\ claimedBy[j] = WorkerIdOf[p]
      /\ attempts[j] = claim[p].attempt

RevisionNumbers(a) == {revNum[j] : j \in {i \in Jobs : AppOf[i] = a}}

\* n is max(revision_number) + 1 over the revisions of the app, or 1.
NextRevisionNumber(a, n) ==
  /\ \A m \in RevisionNumbers(a) : m < n
  /\ n = 1 \/ n - 1 \in RevisionNumbers(a)

\* promote_revision with expected_active_revision_id = job.base_revision_id.
BaseStillActive(j) == active[AppOf[j]] = base[j]

\* _validate_existing_records_for_manifest.
RecordsFit(a, j) == records[a] \subseteq Manifest[j]

\* Seeds go in with the first deployment only, and only into an empty app.
RecordsAfterPromotion(a, j) ==
  IF active[a] = None /\ records[a] = {} THEN Seed[j] ELSE records[a]

\* _ensure_no_live_build, and the partial unique index behind it.
NoLiveBuild(a) == LiveOf(a) = {}

\* The rows claim_next_build selects from: queued, or leased and expired.
Eligible == {j \in Jobs : \/ status[j] = "queued"
                          \/ status[j] = "claimed" /\ ~leaseLive[j]}

\* ORDER BY created_at LIMIT 1 FOR UPDATE SKIP LOCKED.
NextEligible(j) ==
  /\ j \in Eligible /\ ~RowLocked(j)
  /\ \A i \in Eligible : ~RowLocked(i) => createdAt[j] <= createdAt[i]

Exhausted(j) == attempts[j] >= MaxBuildAttempts

\* The attempt number a claim of the job gets.
NextAttempt(j) == attempts[j] + 1

\* should_retry of fail_build.
Requeues(p) == retryable[p] /\ attempts[claim[p].job] < MaxBuildAttempts

\* The job rows archive_generated_app updates.
Withdrawn(a) == LiveOf(a)

-----------------------------------------------------------------------------
(***************************************************************************)
(* The user's requests                                                     *)
(***************************************************************************)
Init ==
  /\ status = [j \in Jobs |-> "absent"]
  /\ attempts = [j \in Jobs |-> 0]
  /\ claimedBy = [j \in Jobs |-> None]
  /\ leaseLive = [j \in Jobs |-> FALSE]
  /\ base = [j \in Jobs |-> None]
  /\ createdAt = [j \in Jobs |-> 0]
  /\ announced = [j \in Jobs |-> {}]
  /\ appStatus = [a \in Apps |-> "absent"]
  /\ archiving = [a \in Apps |-> FALSE]
  /\ active = [a \in Apps |-> None]
  /\ previous = [a \in Apps |-> None]
  /\ version = [a \in Apps |-> 0]
  /\ revNum = [j \in Jobs |-> 0]
  /\ currentRev = [a \in Apps |-> 0]
  /\ records = [a \in Apps |-> {}]
  /\ pc = [p \in Processes |-> "idle"]
  /\ claim = [p \in Processes |-> NoClaim]
  /\ retryable = [p \in Processes |-> FALSE]

\* The row create_code_app_build and queue_code_app_revision insert.
InsertJob(j) ==
  /\ status[j] = "absent"
  /\ UnderBuildQuota
  /\ status' = [status EXCEPT ![j] = "queued"]
  /\ base' = [base EXCEPT ![j] = active[AppOf[j]]]
  /\ createdAt' = [createdAt EXCEPT ![j] = CreatedCount + 1]
  /\ UNCHANGED <<attempts, claimedBy, leaseLive, announced>>

\* create_code_app_build: the app and its first job.  A replay of the call
\* under the same idempotency key finds the job and changes nothing.
CreateApp(j) ==
  LET a == AppOf[j]
  IN  /\ appStatus[a] = "absent"
      /\ Cardinality(ActiveApps) < MaxActiveApps
      /\ appStatus' = [appStatus EXCEPT ![a] = "active"]
      /\ InsertJob(j)
      /\ UNCHANGED <<deployVars, procVars, archiving, records>>

\* queue_code_app_revision, by an owner or editor, under the app row lock.
QueueRevision(j) ==
  LET a == AppOf[j]
  IN  /\ AppAvailable(a)
      /\ NoLiveBuild(a)
      /\ InsertJob(j)
      /\ UNCHANGED <<deployVars, procVars, appStatus, archiving, records>>

\* The pointer swap of promote_revision, to the revision of job j.
Promote(a, j, n) ==
  /\ version[a] < MaxVersion
  /\ active' = [active EXCEPT ![a] = j]
  /\ previous' = [previous EXCEPT ![a] = active[a]]
  /\ version' = [version EXCEPT ![a] = @ + 1]
  /\ currentRev' = [currentRev EXCEPT ![a] = n]
  /\ records' = [records EXCEPT ![a] = RecordsAfterPromotion(a, j)]

\* rollback_owned_code_app: expected is the revision the owner inspected.
Rollback(a, expected) ==
  /\ AppAvailable(a)
  /\ previous[a] # None
  /\ active[a] = expected
  /\ NoLiveBuild(a)
  /\ RecordsFit(a, previous[a])
  /\ Promote(a, previous[a], revNum[previous[a]])
  /\ UNCHANGED <<jobVars, procVars, revNum, appStatus, archiving>>

\* create_data_record and delete_data_record, reduced to the kinds present.
WriteRecord(a, e) ==
  /\ AppAvailable(a)
  /\ active[a] # None
  /\ e \in Manifest[active[a]]
  /\ records' = [records EXCEPT ![a] = @ \cup {e}]
  /\ UNCHANGED <<jobVars, deployVars, procVars, appStatus, archiving>>

DeleteRecords(a, e) ==
  /\ AppAvailable(a)
  /\ active[a] # None
  /\ records' = [records EXCEPT ![a] = @ \ {e}]
  /\ UNCHANGED <<jobVars, deployVars, procVars, appStatus, archiving>>

\* archive_generated_app up to its UPDATE of the jobs: the app row is locked.
StartArchive(a) ==
  /\ AppAvailable(a)
  /\ archiving' = [archiving EXCEPT ![a] = TRUE]
  /\ UNCHANGED <<jobVars, deployVars, procVars, appStatus, records>>

\* The UPDATE waits for every job row it matches, then everything commits.
\* No event is enqueued: an archived app is not announced.
FinishArchive(a) ==
  /\ archiving[a]
  /\ \A j \in LiveOf(a) : ~RowLocked(j)
  /\ archiving' = [archiving EXCEPT ![a] = FALSE]
  /\ appStatus' = [appStatus EXCEPT ![a] = "archived"]
  /\ status' = [j \in Jobs |-> IF j \in Withdrawn(a) THEN "failed" ELSE status[j]]
  /\ claimedBy' = [j \in Jobs |-> IF j \in Withdrawn(a) THEN None ELSE claimedBy[j]]
  /\ leaseLive' = [j \in Jobs |-> leaseLive[j] /\ j \notin Withdrawn(a)]
  /\ UNCHANGED <<attempts, base, createdAt, announced, deployVars, procVars, records>>

-----------------------------------------------------------------------------
(***************************************************************************)
(* The builder processes                                                   *)
(***************************************************************************)

\* claim_next_build on a job with attempts left.
ClaimBuild(p, j) ==
  /\ pc[p] = "idle"
  /\ NextEligible(j)
  /\ ~Exhausted(j)
  /\ status' = [status EXCEPT ![j] = "claimed"]
  /\ claimedBy' = [claimedBy EXCEPT ![j] = WorkerIdOf[p]]
  /\ attempts' = [attempts EXCEPT ![j] = NextAttempt(j)]
  /\ leaseLive' = [leaseLive EXCEPT ![j] = TRUE]
  /\ pc' = [pc EXCEPT ![p] = "building"]
  /\ claim' = [claim EXCEPT ![p] = [job |-> j, attempt |-> NextAttempt(j)]]
  /\ UNCHANGED <<base, createdAt, announced, retryable, deployVars, appStatus,
                 archiving, records>>

\* _terminalize_exhausted_build_claim; the poller's loop goes on to the next.
TerminalizeExhausted(p, j) ==
  /\ pc[p] = "idle"
  /\ NextEligible(j)
  /\ Exhausted(j)
  /\ status' = [status EXCEPT ![j] = "failed"]
  /\ claimedBy' = [claimedBy EXCEPT ![j] = None]
  /\ leaseLive' = [leaseLive EXCEPT ![j] = FALSE]
  /\ announced' = [announced EXCEPT ![j] = @ \cup {"failed"}]
  /\ UNCHANGED <<attempts, base, createdAt, deployVars, procVars, appStatus,
                 archiving, records>>

\* The process goes on to report a failure of its claim to fail_build.
Report(p, again) ==
  /\ pc' = [pc EXCEPT ![p] = "failing"]
  /\ retryable' = [retryable EXCEPT ![p] = again]

\* The process drops its claim and polls again.
Release(p) ==
  /\ pc' = [pc EXCEPT ![p] = "idle"]
  /\ claim' = [claim EXCEPT ![p] = NoClaim]
  /\ retryable' = [retryable EXCEPT ![p] = FALSE]

\* pipeline.build raises: a rejected blueprint or source is final, a timeout
\* or a provider error may be retried.
BuildFails(p, again) ==
  /\ pc[p] = "building"
  /\ Report(p, again)
  /\ UNCHANGED <<jobVars, deployVars, claim, appStatus, archiving, records>>

\* complete_build takes its job row, or finds the claim stale: a conflict,
\* which the hook classifies as final.
BeginComplete(p) ==
  /\ pc[p] = "building"
  /\ ~RowLocked(claim[p].job)
  /\ IF Fence(p)
     THEN pc' = [pc EXCEPT ![p] = "completing"] /\ UNCHANGED retryable
     ELSE Report(p, FALSE)
  /\ UNCHANGED <<jobVars, deployVars, claim, appStatus, archiving, records>>

\* The rest of complete_build under both row locks: publish, settle the job
\* and enqueue its event in one commit.  The answer of the commit may be
\* lost, and then the hook reports an infrastructure failure of a build that
\* has succeeded.
CommitComplete(p, lost) ==
  LET j == claim[p].job
      a == AppOf[j]
  IN  /\ pc[p] = "completing"
      /\ AppAvailable(a)
      /\ RecordsFit(a, j)
      /\ BaseStillActive(j)
      /\ \E n \in 1..Cardinality(Jobs) :
           /\ NextRevisionNumber(a, n)
           /\ revNum' = [revNum EXCEPT ![j] = n]
           /\ Promote(a, j, n)
      /\ status' = [status EXCEPT ![j] = "succeeded"]
      /\ leaseLive' = [leaseLive EXCEPT ![j] = FALSE]
      /\ announced' = [announced EXCEPT ![j] = @ \cup {"completed"}]
      /\ IF lost THEN Report(p, TRUE) /\ UNCHANGED claim ELSE Release(p)
      /\ UNCHANGED <<attempts, claimedBy, base, createdAt, appStatus, archiving>>

\* complete_build raises under its locks and rolls back: the artifact, the
\* live records or the base do not fit (final), or the database fails.
AbortComplete(p, again) ==
  /\ pc[p] = "completing"
  /\ Report(p, again)
  /\ UNCHANGED <<jobVars, deployVars, claim, appStatus, archiving, records>>

\* The archive has the app row and waits for the job row, complete_build has
\* the job row and waits for the app row: PostgreSQL aborts one of the two.
BreakDeadlock(p) ==
  LET a == AppOf[claim[p].job]
  IN  /\ pc[p] = "completing"
      /\ archiving[a]
      /\ \/ /\ Report(p, TRUE)
            /\ UNCHANGED archiving
         \/ /\ archiving' = [archiving EXCEPT ![a] = FALSE]
            /\ UNCHANGED <<pc, retryable>>
      /\ UNCHANGED <<jobVars, deployVars, claim, appStatus, records>>

\* fail_build by the lease holder: back to the queue, or settled and announced.
FailBuild(p) ==
  LET j == claim[p].job
  IN  /\ pc[p] = "failing"
      /\ ~RowLocked(j)
      /\ Fence(p)
      /\ leaseLive' = [leaseLive EXCEPT ![j] = FALSE]
      /\ IF Requeues(p)
         THEN /\ status' = [status EXCEPT ![j] = "queued"]
              /\ claimedBy' = [claimedBy EXCEPT ![j] = None]
              /\ UNCHANGED announced
         ELSE /\ status' = [status EXCEPT ![j] = "failed"]
              /\ announced' = [announced EXCEPT ![j] = @ \cup {"failed"}]
              /\ UNCHANGED claimedBy
      /\ Release(p)
      /\ UNCHANGED <<attempts, base, createdAt, deployVars, appStatus, archiving, records>>

\* _fail_build_safely swallows a stale claim, and any error of fail_build:
\* the lease of the job, if it is still held, recovers it.
FailSwallowed(p) ==
  /\ pc[p] = "failing"
  /\ Release(p)
  /\ UNCHANGED <<jobVars, deployVars, appStatus, archiving, records>>

\* The process dies and a new one takes its place; an open transaction of the
\* dead one is rolled back.
Crash(p) ==
  /\ pc[p] # "idle"
  /\ Release(p)
  /\ UNCHANGED <<jobVars, deployVars, appStatus, archiving, records>>

\* lease_expires_at passes.
ExpireLease(j) ==
  /\ status[j] = "claimed" /\ leaseLive[j]
  /\ leaseLive' = [leaseLive EXCEPT ![j] = FALSE]
  /\ UNCHANGED <<status, attempts, claimedBy, base, createdAt, announced, deployVars,
                 procVars, appStatus, archiving, records>>

-----------------------------------------------------------------------------
RequestStep ==
  \/ \E j \in Jobs : CreateApp(j)
  \/ \E j \in Jobs : QueueRevision(j)
  \/ \E a \in Apps, j \in Jobs : Rollback(a, j)
  \/ \E a \in Apps, e \in Entities : WriteRecord(a, e)
  \/ \E a \in Apps, e \in Entities : DeleteRecords(a, e)
  \/ \E a \in Apps : StartArchive(a)
  \/ \E a \in Apps : FinishArchive(a)

ProcessStep(p) ==
  \/ \E j \in Jobs : ClaimBuild(p, j)
  \/ \E j \in Jobs : TerminalizeExhausted(p, j)
  \/ \E again \in BOOLEAN : BuildFails(p, again)
  \/ BeginComplete(p)
  \/ \E lost \in BOOLEAN : CommitComplete(p, lost)
  \/ \E again \in BOOLEAN : AbortComplete(p, again)
  \/ BreakDeadlock(p)
  \/ FailBuild(p)
  \/ FailSwallowed(p)
  \/ Crash(p)

Next ==
  \/ RequestStep
  \/ \E p \in Processes : ProcessStep(p)
  \/ \E j \in Jobs : ExpireLease(j)

Spec == Init /\ [][Next]_vars

-----------------------------------------------------------------------------
(***************************************************************************)
(* Fairness: the worker loops keep polling, every pipeline run ends (its   *)
(* global timeout), clocks advance, and PostgreSQL ends transactions,      *)
(* breaks deadlocks and hands a released row lock to the transaction that  *)
(* waits for it (hence strong fairness of EndComplete: an owner who keeps  *)
(* archiving cannot take the app row past a completion in the lock queue). *)
(* Requests of the user and crashes are not fair.                          *)
(***************************************************************************)
Poll(p)   == \E j \in Jobs : ClaimBuild(p, j) \/ TerminalizeExhausted(p, j)
EndBuild(p) == (\E again \in BOOLEAN : BuildFails(p, again)) \/ BeginComplete(p)
EndComplete(p) ==
  /\ pc[p] = "completing" => ~archiving[AppOf[claim[p].job]]
  /\ \/ \E lost \in BOOLEAN : CommitComplete(p, lost)
     \/ \E again \in BOOLEAN : AbortComplete(p, again)
EndReport(p) == FailBuild(p) \/ FailSwallowed(p)

Fairness ==
  /\ \A p \in Processes : /\ WF_vars(Poll(p))
                          /\ WF_vars(EndBuild(p))
                          /\ SF_vars(EndComplete(p))
                          /\ WF_vars(BreakDeadlock(p))
                          /\ WF_vars(EndReport(p))
  /\ \A j \in Jobs : WF_vars(ExpireLease(j))
  /\ \A a \in Apps : WF_vars(FinishArchive(a))

FairSpec == Spec /\ Fairness

-----------------------------------------------------------------------------
(***************************************************************************)
(* Properties                                                              *)
(***************************************************************************)

\* The shape of the rows; attempts never pass _MAX_BUILD_ATTEMPTS.
TypeOK ==
  /\ status \in [Jobs -> {"absent", "queued", "claimed", "succeeded", "failed"}]
  /\ attempts \in [Jobs -> 0..MaxBuildAttempts]
  /\ claimedBy \in [Jobs -> WorkerIds \cup {None}]
  /\ leaseLive \in [Jobs -> BOOLEAN]
  /\ base \in [Jobs -> Jobs \cup {None}]
  /\ createdAt \in [Jobs -> Nat]
  /\ announced \in [Jobs -> SUBSET {"completed", "failed"}]
  /\ appStatus \in [Apps -> {"absent", "active", "archived"}]
  /\ archiving \in [Apps -> BOOLEAN]
  /\ active \in [Apps -> Jobs \cup {None}]
  /\ previous \in [Apps -> Jobs \cup {None}]
  /\ version \in [Apps -> 0..MaxVersion]
  /\ revNum \in [Jobs -> Nat]
  /\ currentRev \in [Apps -> Nat]
  /\ records \in [Apps -> SUBSET Entities]
  /\ pc \in [Processes -> {"idle", "building", "completing", "failing"}]
  /\ claim \in [Processes -> [job : Jobs \cup {None}, attempt : 0..MaxBuildAttempts]]
  /\ retryable \in [Processes -> BOOLEAN]

\* Exactly the outcome of a job is announced: a success announces completion
\* only, a failure announces failure only, and silence about a failed job
\* means that its app was archived.  Late workers, takeovers and terminalised
\* leases all write these two pieces of state.
OutcomeAnnounced ==
  \A j \in Jobs :
    /\ "completed" \in announced[j] <=> status[j] = "succeeded"
    /\ "failed" \in announced[j] => status[j] = "failed"
    /\ status[j] = "failed" /\ announced[j] = {} => appStatus[AppOf[j]] = "archived"

\* No two processes hold the same attempt of a job, also when they report the
\* same worker_id: what makes the attempt a fencing token.
AttemptsAreUnique ==
  \A p, q \in Processes :
    p # q /\ claim[p].job # None /\ claim[p].job = claim[q].job
      => claim[p].attempt # claim[q].attempt

\* A lease is only given up by settling or requeueing in the hands of the
\* process that claimed the job last; a process that lost its lease to a
\* takeover publishes and fails nothing.
LatestClaimantSettles ==
  [][\A j \in Jobs :
       status[j] = "claimed" /\ status'[j] \in {"succeeded", "queued"}
         => \E p \in Processes :
              /\ claim[p] = [job |-> j, attempt |-> attempts[j]]
              /\ pc'[p] # pc[p]]_vars

\* A settled job never changes again, and no event is added to it.
SettlementIsFinal ==
  [][\A j \in Jobs : Settled(j) => status'[j] = status[j] /\ announced'[j] = announced[j]]_vars

\* At most one build per app is in progress (the partial unique index), and
\* the revision it was based on stays deployed until it is settled: rollbacks
\* and other builds wait, so a promotion never overwrites a revision the
\* build has not seen.
LiveBuildOwnsDeployment ==
  \A j \in Jobs : Live(j) =>
    /\ active[AppOf[j]] = base[j]
    /\ \A i \in LiveOf(AppOf[j]) : i = j

\* Once an app is archived none of its builds is in progress, so nothing can
\* reactivate or announce it later.
ArchivedIsQuiet == \A a \in Apps : appStatus[a] = "archived" => LiveOf(a) = {}

\* The live records of an app are valid under the deployed manifest, through
\* writes, promotions and rollbacks in any order.
RecordsFitDeployed ==
  \A a \in Apps : records[a] \subseteq (IF active[a] = None THEN {} ELSE Manifest[active[a]])

\* Revision numbers identify the revisions of an app, also after a rollback,
\* and the app's current_version is that of the deployed revision.
RevisionNumbersIdentify ==
  /\ \A i, j \in Jobs :
       i # j /\ AppOf[i] = AppOf[j] /\ revNum[i] # 0 => revNum[i] # revNum[j]
  /\ \A a \in Apps : active[a] # None => revNum[active[a]] = currentRev[a]

\* A promotion over a deployed revision leaves the records alone: a rollback
\* or a later revision never resurrects starter data.
NoReseed ==
  [][\A a \in Apps : active[a] # None /\ active'[a] # active[a]
                       => records'[a] = records[a]]_vars

\* The queue is sound: one build per app at a time, attempts that fence, none
\* left of an archived app, and the outcome announced that the row records.
QueueIsSound ==
  OutcomeAnnounced /\ AttemptsAreUnique /\ LiveBuildOwnsDeployment /\ ArchivedIsQuiet

\* The deployment is sound: its records are valid under its manifest, and its
\* number tells which revision it is.
DeploymentIsSound == RecordsFitDeployed /\ RevisionNumbersIdentify

\* No step takes a lease from its latest claimant, changes a settled build or
\* seeds an app again.
StepsAreSound == LatestClaimantSettles /\ SettlementIsFinal /\ NoReseed

\* Every build that was queued is settled, whatever crashes, lost commits and
\* expired leases happen: attempts are bounded and an exhausted lease is
\* terminalised.
EveryBuildSettles == \A j \in Jobs : Live(j) ~> Settled(j)

\* The queue with its workers implements the ledger of builds, in which a job
\* is published, failed or withdrawn in one step.
Outcome(j) ==
  CASE status[j] = "absent"                          -> "none"
    [] Live(j)                                       -> "pending"
    [] status[j] = "succeeded" /\ announced[j] = {"completed"} -> "published"
    [] status[j] = "failed" /\ announced[j] = {"failed"}       -> "failed"
    [] status[j] = "failed" /\ announced[j] = {}     -> "withdrawn"
    [] OTHER                                         -> "inconsistent"

Ledger == INSTANCE BuildLedger WITH
            Builds <- Jobs,
            outcome <- [j \in Jobs |-> Outcome(j)],
            deployed <- active,
            prior <- previous,
            closed <- [a \in Apps |-> appStatus[a] = "archived"]

LedgerSpec == Ledger!Spec
==============================================================================
