--------------------------- MODULE AppBuilds_proofs ---------------------------
(***************************************************************************)
(* What holds of AppBuilds for every number of apps, builds, processes and *)
(* attempts.                                                               *)
(***************************************************************************)
EXTENDS AppBuilds, FiniteSetTheorems, TLAPS

\* There are finitely many builds, so that their number is one.
LEMMA CardinalityOfJobs == Cardinality(Jobs) \in Nat /\ CreatedCount \in Nat
  <1>1. IsFiniteSet(Jobs)
    BY ConstantsAssumption
  <1>2. IsFiniteSet({j \in Jobs : status[j] # "absent"})
    BY <1>1, FS_Subset
  <1> QED
    BY <1>1, <1>2, FS_CardinalityType DEF CreatedCount

\* The parts of TypeOK an operation touches, one lemma per shared operator.
LEMMA InsertJobType ==
  ASSUME TypeOK, NEW j \in Jobs, InsertJob(j)
  PROVE  /\ status' \in [Jobs -> {"absent", "queued", "claimed", "succeeded", "failed"}]
         /\ base' \in [Jobs -> Jobs \cup {None}]
         /\ createdAt' \in [Jobs -> Nat]
         /\ UNCHANGED <<attempts, claimedBy, leaseLive, announced>>
  <1>1. AppOf[j] \in Apps
    BY ConstantsAssumption
  <1> QED
    BY <1>1, CardinalityOfJobs DEF TypeOK, InsertJob

\* promote_revision moves the pointers and version within their types.
LEMMA PromoteType ==
  ASSUME TypeOK, NEW a \in Apps, NEW j \in Jobs, NEW n \in Nat, Promote(a, j, n)
  PROVE  /\ active' \in [Apps -> Jobs \cup {None}]
         /\ previous' \in [Apps -> Jobs \cup {None}]
         /\ version' \in [Apps -> 0..MaxVersion]
         /\ currentRev' \in [Apps -> Nat]
         /\ records' \in [Apps -> SUBSET Entities]
  <1>1. active' \in [Apps -> Jobs \cup {None}] /\ previous' \in [Apps -> Jobs \cup {None}]
    BY DEF TypeOK, Promote
  <1>2. version' \in [Apps -> 0..MaxVersion]
    <2>1. version[a] + 1 \in 0..MaxVersion
      BY ConstantsAssumption DEF TypeOK, Promote
    <2> QED
      BY <2>1 DEF TypeOK, Promote
  <1>3. currentRev' \in [Apps -> Nat]
    BY DEF TypeOK, Promote
  <1>4. records' \in [Apps -> SUBSET Entities]
    <2>1. RecordsAfterPromotion(a, j) \in SUBSET Entities
      BY ConstantsAssumption DEF TypeOK, RecordsAfterPromotion
    <2> QED
      BY <2>1 DEF TypeOK, Promote
  <1> QED
    BY <1>1, <1>2, <1>3, <1>4

\* A worker that lets go of its claim returns to the types of an idle one.
LEMMA ReleaseType ==
  ASSUME TypeOK, NEW p \in Processes, Release(p)
  PROVE  /\ pc' \in [Processes -> {"idle", "building", "completing", "failing"}]
         /\ claim' \in [Processes -> [job : Jobs \cup {None}, attempt : 0..MaxBuildAttempts]]
         /\ retryable' \in [Processes -> BOOLEAN]
  <1>1. NoClaim \in [job : Jobs \cup {None}, attempt : 0..MaxBuildAttempts]
    BY ConstantsAssumption DEF NoClaim
  <1> QED
    BY <1>1 DEF TypeOK, Release

\* A worker that reports a failure keeps the types of its control state.
LEMMA ReportType ==
  ASSUME TypeOK, NEW p \in Processes, NEW again \in BOOLEAN, Report(p, again)
  PROVE  /\ pc' \in [Processes -> {"idle", "building", "completing", "failing"}]
         /\ retryable' \in [Processes -> BOOLEAN]
  BY DEF TypeOK, Report

\* The empty queue is of the right type.
LEMMA InitType == Init => TypeOK
  BY ConstantsAssumption DEF Init, TypeOK, NoClaim

\* A process that works holds a claim on a job.
BusyHoldsClaim == \A p \in Processes : pc[p] # "idle" => claim[p].job \in Jobs

\* Every operation keeps the types, attempts within their limit included.
LEMMA NextType == TypeOK /\ BusyHoldsClaim /\ [Next]_vars => TypeOK'
  <1> SUFFICES ASSUME TypeOK, BusyHoldsClaim, [Next]_vars
               PROVE  TypeOK'
    OBVIOUS
  <1> USE DEF jobVars, deployVars, procVars
  <1>1. ASSUME NEW j \in Jobs, CreateApp(j)
        PROVE  TypeOK'
    BY <1>1, InsertJobType DEF TypeOK, CreateApp
  <1>2. ASSUME NEW j \in Jobs, QueueRevision(j)
        PROVE  TypeOK'
    BY <1>2, InsertJobType DEF TypeOK, QueueRevision
  <1>3. ASSUME NEW a \in Apps, NEW j \in Jobs, Rollback(a, j)
        PROVE  TypeOK'
    <2>1. previous[a] \in Jobs /\ revNum[previous[a]] \in Nat
      BY <1>3 DEF TypeOK, Rollback
    <2> QED
      BY <1>3, <2>1, PromoteType DEF TypeOK, Rollback
  <1>4. ASSUME NEW a \in Apps, NEW e \in Entities, WriteRecord(a, e) \/ DeleteRecords(a, e)
        PROVE  TypeOK'
    BY <1>4 DEF TypeOK, WriteRecord, DeleteRecords
  <1>5. ASSUME NEW a \in Apps, StartArchive(a)
        PROVE  TypeOK'
    BY <1>5 DEF TypeOK, StartArchive
  <1>6. ASSUME NEW a \in Apps, FinishArchive(a)
        PROVE  TypeOK'
    <2>1. status' \in [Jobs -> {"absent", "queued", "claimed", "succeeded", "failed"}]
      BY <1>6 DEF TypeOK, FinishArchive
    <2>2. claimedBy' \in [Jobs -> WorkerIds \cup {None}] /\ leaseLive' \in [Jobs -> BOOLEAN]
      BY <1>6 DEF TypeOK, FinishArchive
    <2>3. archiving' \in [Apps -> BOOLEAN] /\ appStatus' \in [Apps -> {"absent", "active", "archived"}]
      BY <1>6 DEF TypeOK, FinishArchive
    <2> QED
      BY <1>6, <2>1, <2>2, <2>3 DEF TypeOK, FinishArchive
  <1>7. ASSUME NEW j \in Jobs, ExpireLease(j)
        PROVE  TypeOK'
    BY <1>7 DEF TypeOK, ExpireLease
  <1>8. ASSUME NEW p \in Processes, ProcessStep(p)
        PROVE  TypeOK'
    <2>1. ASSUME NEW j \in Jobs, ClaimBuild(p, j)
          PROVE  TypeOK'
      <3>1. NextAttempt(j) \in 0..MaxBuildAttempts
        BY <2>1, ConstantsAssumption DEF TypeOK, ClaimBuild, Exhausted, NextAttempt
      <3>2. WorkerIdOf[p] \in WorkerIds
        BY ConstantsAssumption
      <3> QED
        BY <2>1, <3>1, <3>2 DEF TypeOK, ClaimBuild
    <2>2. ASSUME NEW j \in Jobs, TerminalizeExhausted(p, j)
          PROVE  TypeOK'
      <3>1. announced' \in [Jobs -> SUBSET {"completed", "failed"}]
        BY <2>2 DEF TypeOK, TerminalizeExhausted
      <3>2. /\ status' \in [Jobs -> {"absent", "queued", "claimed", "succeeded", "failed"}]
            /\ claimedBy' \in [Jobs -> WorkerIds \cup {None}]
            /\ leaseLive' \in [Jobs -> BOOLEAN]
        BY <2>2 DEF TypeOK, TerminalizeExhausted
      <3> QED
        BY <2>2, <3>1, <3>2 DEF TypeOK, TerminalizeExhausted
    <2>3. ASSUME NEW again \in BOOLEAN, BuildFails(p, again) \/ AbortComplete(p, again)
          PROVE  TypeOK'
      BY <2>3, ReportType DEF TypeOK, BuildFails, AbortComplete
    <2>4. CASE BeginComplete(p)
      BY <2>4 DEF TypeOK, BeginComplete, Report
    <2>5. ASSUME NEW lost \in BOOLEAN, CommitComplete(p, lost)
          PROVE  TypeOK'
      <3> DEFINE j == claim[p].job
                 a == AppOf[j]
      <3>1. PICK n \in 1..Cardinality(Jobs) :
              revNum' = [revNum EXCEPT ![j] = n] /\ Promote(a, j, n)
        BY <2>5 DEF CommitComplete
      <3>2. n \in Nat /\ j \in Jobs /\ a \in Apps
        BY <2>5, CardinalityOfJobs, ConstantsAssumption DEF BusyHoldsClaim, CommitComplete
      <3>3. revNum' \in [Jobs -> Nat]
        BY <3>1, <3>2 DEF TypeOK
      <3>4. /\ active' \in [Apps -> Jobs \cup {None}]
            /\ previous' \in [Apps -> Jobs \cup {None}]
            /\ version' \in [Apps -> 0..MaxVersion]
            /\ currentRev' \in [Apps -> Nat]
            /\ records' \in [Apps -> SUBSET Entities]
        BY <3>1, <3>2, PromoteType
      <3>5. announced' \in [Jobs -> SUBSET {"completed", "failed"}]
        BY <2>5 DEF TypeOK, CommitComplete
      <3>6. /\ status' \in [Jobs -> {"absent", "queued", "claimed", "succeeded", "failed"}]
            /\ leaseLive' \in [Jobs -> BOOLEAN]
        BY <2>5 DEF TypeOK, CommitComplete
      <3>7. /\ pc' \in [Processes -> {"idle", "building", "completing", "failing"}]
            /\ claim' \in [Processes -> [job : Jobs \cup {None}, attempt : 0..MaxBuildAttempts]]
            /\ retryable' \in [Processes -> BOOLEAN]
        <4>1. CASE lost
          BY <2>5, <4>1, ReportType DEF TypeOK, CommitComplete
        <4>2. CASE ~lost
          BY <2>5, <4>2, ReleaseType DEF CommitComplete
        <4> QED
          BY <4>1, <4>2
      <3> QED
        BY <2>5, <3>3, <3>4, <3>5, <3>6, <3>7 DEF TypeOK, CommitComplete
    <2>6. CASE BreakDeadlock(p)
      BY <2>6 DEF TypeOK, BreakDeadlock, Report
    <2>7. CASE FailBuild(p)
      <3> DEFINE j == claim[p].job
      <3>1. announced' \in [Jobs -> SUBSET {"completed", "failed"}]
        <4>1. CASE Requeues(p)
          BY <2>7, <4>1 DEF TypeOK, FailBuild
        <4>2. CASE ~Requeues(p)
          BY <2>7, <4>2 DEF TypeOK, FailBuild
        <4> QED
          BY <4>1, <4>2
      <3>2. /\ status' \in [Jobs -> {"absent", "queued", "claimed", "succeeded", "failed"}]
            /\ claimedBy' \in [Jobs -> WorkerIds \cup {None}]
            /\ leaseLive' \in [Jobs -> BOOLEAN]
        <4>1. status' \in [Jobs -> {"absent", "queued", "claimed", "succeeded", "failed"}]
          BY <2>7 DEF TypeOK, FailBuild
        <4>2. claimedBy' \in [Jobs -> WorkerIds \cup {None}]
          BY <2>7 DEF TypeOK, FailBuild
        <4>3. leaseLive' \in [Jobs -> BOOLEAN]
          BY <2>7 DEF TypeOK, FailBuild
        <4> QED
          BY <4>1, <4>2, <4>3
      <3>3. /\ pc' \in [Processes -> {"idle", "building", "completing", "failing"}]
            /\ claim' \in [Processes -> [job : Jobs \cup {None}, attempt : 0..MaxBuildAttempts]]
            /\ retryable' \in [Processes -> BOOLEAN]
        BY <2>7, ReleaseType DEF FailBuild
      <3> QED
        BY <2>7, <3>1, <3>2, <3>3 DEF TypeOK, FailBuild
    <2>8. CASE FailSwallowed(p) \/ Crash(p)
      BY <2>8, ReleaseType DEF TypeOK, FailSwallowed, Crash
    <2> QED
      BY <1>8, <2>1, <2>2, <2>3, <2>4, <2>5, <2>6, <2>7, <2>8 DEF ProcessStep
  <1>9. CASE UNCHANGED vars
    BY <1>9 DEF TypeOK, vars
  <1> QED
    BY <1>1, <1>2, <1>3, <1>4, <1>5, <1>6, <1>7, <1>8, <1>9 DEF Next, RequestStep


-----------------------------------------------------------------------------
(***************************************************************************)
(* The fence.  A step either leaves the claims alone, drops one, moves a   *)
(* process on with its claim, or takes a claim with a fresh attempt.       *)
(***************************************************************************)
Drops(p) == attempts' = attempts /\ Release(p)
MovesOn(p) ==
  /\ UNCHANGED <<attempts, claim>>
  /\ pc[p] # "idle"
  /\ \E s \in {"building", "completing", "failing"} : pc' = [pc EXCEPT ![p] = s]
Claims(p, j) ==
  /\ attempts' = [attempts EXCEPT ![j] = @ + 1]
  /\ claim' = [claim EXCEPT ![p] = [job |-> j, attempt |-> attempts[j] + 1]]
  /\ pc' = [pc EXCEPT ![p] = "building"]

\* A step claims a build, moves a worker on, drops its claim, or does neither.
LEMMA StepKinds ==
  ASSUME TypeOK, [Next]_vars
  PROVE  \/ UNCHANGED <<attempts, claim, pc>>
         \/ \E p \in Processes : Drops(p) \/ MovesOn(p)
         \/ \E p \in Processes, j \in Jobs : Claims(p, j)
  <1> USE DEF jobVars, deployVars, procVars
  <1>1. CASE \E j \in Jobs : CreateApp(j) \/ QueueRevision(j) \/ ExpireLease(j)
    BY <1>1 DEF CreateApp, QueueRevision, InsertJob, ExpireLease
  <1>2. CASE \E a \in Apps : \/ StartArchive(a) \/ FinishArchive(a)
                             \/ \E j \in Jobs : Rollback(a, j)
                             \/ \E e \in Entities : WriteRecord(a, e) \/ DeleteRecords(a, e)
    BY <1>2 DEF StartArchive, FinishArchive, Rollback, WriteRecord, DeleteRecords
  <1>3. ASSUME NEW p \in Processes, ProcessStep(p)
        PROVE  \/ UNCHANGED <<attempts, claim, pc>>
               \/ Drops(p) \/ MovesOn(p) \/ \E j \in Jobs : Claims(p, j)
    <2>1. CASE \E j \in Jobs : ClaimBuild(p, j)
      BY <2>1 DEF ClaimBuild, NextAttempt, Claims, TypeOK
    <2>2. CASE \E j \in Jobs : TerminalizeExhausted(p, j)
      BY <2>2 DEF TerminalizeExhausted
    <2>3. CASE BeginComplete(p)
      BY <2>3 DEF BeginComplete, Report, MovesOn
    <2>4. CASE \E again \in BOOLEAN : BuildFails(p, again) \/ AbortComplete(p, again)
      BY <2>4 DEF BuildFails, AbortComplete, Report, MovesOn
    <2>5. CASE \E lost \in BOOLEAN : CommitComplete(p, lost)
      BY <2>5 DEF CommitComplete, Report, MovesOn, Drops
    <2>6. CASE BreakDeadlock(p)
      BY <2>6 DEF BreakDeadlock, Report, MovesOn
    <2>7. CASE FailBuild(p) \/ FailSwallowed(p) \/ Crash(p)
      BY <2>7 DEF FailBuild, FailSwallowed, Crash, Drops
    <2> QED
      BY <1>3, <2>1, <2>2, <2>3, <2>4, <2>5, <2>6, <2>7 DEF ProcessStep
  <1>4. CASE UNCHANGED vars
    BY <1>4 DEF vars
  <1> QED
    BY <1>1, <1>2, <1>3, <1>4 DEF Next, RequestStep

\* Attempts a process remembers were handed out: they lie in 1..attempts.
ClaimsAreCounted ==
  \A p \in Processes :
    claim[p].job \in Jobs => claim[p].attempt \in 1..attempts[claim[p].job]

ClaimInv == BusyHoldsClaim /\ ClaimsAreCounted /\ AttemptsAreUnique

\* Without claims there is nothing to violate about them.
LEMMA InitClaims == Init => ClaimInv
  BY ConstantsAssumption
  DEF Init, ClaimInv, BusyHoldsClaim, ClaimsAreCounted, AttemptsAreUnique, NoClaim

\* Claims stay counted and unique through claims, take-overs and crashes.
LEMMA NextClaims == TypeOK /\ ClaimInv /\ [Next]_vars => ClaimInv'
  <1> SUFFICES ASSUME TypeOK, ClaimInv, [Next]_vars
               PROVE  ClaimInv'
    OBVIOUS
  <1> USE DEF ClaimInv, BusyHoldsClaim, ClaimsAreCounted, AttemptsAreUnique
  <1>1. CASE UNCHANGED <<attempts, claim, pc>>
    BY <1>1
  <1>2. ASSUME NEW p \in Processes, Drops(p)
        PROVE  ClaimInv'
    <2>1. /\ claim'[p] = NoClaim /\ pc'[p] = "idle"
          /\ \A q \in Processes : q # p => claim'[q] = claim[q] /\ pc'[q] = pc[q]
      BY <1>2 DEF Drops, Release, TypeOK
    <2> QED
      BY <1>2, <2>1, ConstantsAssumption DEF Drops, NoClaim
  <1>3. ASSUME NEW p \in Processes, MovesOn(p)
        PROVE  ClaimInv'
    BY <1>3 DEF MovesOn, TypeOK
  <1>4. ASSUME NEW p \in Processes, NEW j \in Jobs, Claims(p, j)
        PROVE  ClaimInv'
    <2>1. /\ claim'[p] = [job |-> j, attempt |-> attempts[j] + 1]
          /\ \A q \in Processes : q # p => claim'[q] = claim[q] /\ pc'[q] = pc[q]
          /\ attempts'[j] = attempts[j] + 1
          /\ \A i \in Jobs : i # j => attempts'[i] = attempts[i]
          /\ \A i \in Jobs : attempts[i] \in Nat
          /\ \A q \in Processes : claim[q].attempt \in Nat
      BY <1>4, ConstantsAssumption DEF Claims, TypeOK
    <2>2. BusyHoldsClaim'
      BY <2>1
    <2>3. ClaimsAreCounted'
      BY <2>1
    <2>4. AttemptsAreUnique'
      BY <2>1, <2>3, ConstantsAssumption
    <2> QED
      BY <2>2, <2>3, <2>4
  <1> QED
    BY <1>1, <1>2, <1>3, <1>4, StepKinds

-----------------------------------------------------------------------------
(***************************************************************************)
(* The row lock.  While complete_build holds its job row the fence it      *)
(* passed stays true: nobody else can touch the row.                       *)
(***************************************************************************)
CompletingIsFenced == \A p \in Processes : pc[p] = "completing" => Fence(p)

Inv == TypeOK /\ ClaimInv /\ CompletingIsFenced

\* Two processes never complete the same job at once.
LEMMA OneCompleter ==
  ASSUME Inv, NEW p \in Processes, NEW q \in Processes,
         pc[p] = "completing", Fence(q), claim[q].job \in Jobs, claim[p].job = claim[q].job
  PROVE  p = q
  BY ConstantsAssumption DEF Inv, CompletingIsFenced, Fence, ClaimInv, AttemptsAreUnique

\* A step keeps the rows of the jobs another process is completing.
SameRow(j) ==
  /\ status'[j] = status[j]
  /\ claimedBy'[j] = claimedBy[j]
  /\ attempts'[j] = attempts[j]

\* While a completion holds its job row nobody else changes that row.
LEMMA LockedRowsKept ==
  ASSUME Inv, [Next]_vars, NEW p \in Processes, pc[p] = "completing", pc'[p] = "completing"
  PROVE  SameRow(claim[p].job) /\ claim'[p] = claim[p]
  <1> DEFINE j == claim[p].job
  <1>1. j \in Jobs /\ RowLocked(j) /\ Fence(p) /\ AppOf[j] \in Apps
    BY ConstantsAssumption DEF Inv, ClaimInv, BusyHoldsClaim, RowLocked, CompletingIsFenced
  <1> USE DEF SameRow, Inv, jobVars, deployVars, procVars
  <1>2. CASE \E i \in Jobs : CreateApp(i) \/ QueueRevision(i)
    BY <1>1, <1>2 DEF CreateApp, QueueRevision, InsertJob, Fence, TypeOK
  <1>3. CASE \E a \in Apps, i \in Jobs : Rollback(a, i)
    BY <1>3 DEF Rollback
  <1>4. CASE \E a \in Apps, e \in Entities : WriteRecord(a, e) \/ DeleteRecords(a, e)
    BY <1>4 DEF WriteRecord, DeleteRecords
  <1>5. CASE \E a \in Apps : StartArchive(a)
    BY <1>5 DEF StartArchive
  <1>6. ASSUME NEW a \in Apps, FinishArchive(a)
        PROVE  SameRow(j) /\ claim'[p] = claim[p]
    <2>1. j \notin Withdrawn(a)
      BY <1>1, <1>6 DEF FinishArchive, Withdrawn
    <2> QED
      BY <1>1, <1>6, <2>1 DEF FinishArchive
  <1>7. CASE \E i \in Jobs : ExpireLease(i)
    BY <1>7 DEF ExpireLease
  <1>8. ASSUME NEW q \in Processes, ProcessStep(q)
        PROVE  SameRow(j) /\ claim'[p] = claim[p]
    <2>1. ASSUME NEW i \in Jobs, ClaimBuild(q, i) \/ TerminalizeExhausted(q, i)
          PROVE  SameRow(j) /\ claim'[p] = claim[p]
      <3>1. i # j
        BY <1>1, <2>1 DEF ClaimBuild, TerminalizeExhausted, NextEligible
      <3>2. q # p
        BY <2>1 DEF ClaimBuild, TerminalizeExhausted
      <3> QED
        BY <1>1, <2>1, <3>1, <3>2 DEF ClaimBuild, TerminalizeExhausted, TypeOK
    <2>2. ASSUME NEW again \in BOOLEAN, BuildFails(q, again) \/ AbortComplete(q, again)
          PROVE  SameRow(j) /\ claim'[p] = claim[p]
      BY <2>2 DEF BuildFails, AbortComplete
    <2>3. CASE BeginComplete(q) \/ BreakDeadlock(q)
      BY <2>3 DEF BeginComplete, BreakDeadlock
    <2>4. ASSUME NEW lost \in BOOLEAN, CommitComplete(q, lost)
          PROVE  SameRow(j) /\ claim'[p] = claim[p]
      <3>1. q # p
        BY <2>4 DEF CommitComplete, Report, Release, TypeOK
      <3>2. claim[q].job # j
        BY <1>1, <2>4, <3>1, OneCompleter DEF CommitComplete, CompletingIsFenced
      <3>3. claim'[p] = claim[p]
        BY <2>4, <3>1 DEF CommitComplete, Release, TypeOK
      <3> QED
        BY <1>1, <2>4, <3>2, <3>3 DEF CommitComplete, TypeOK
    <2>5. CASE FailBuild(q)
      <3>1. claim[q].job # j /\ q # p
        BY <1>1, <2>5 DEF FailBuild
      <3> QED
        BY <1>1, <2>5, <3>1 DEF FailBuild, Release, TypeOK
    <2>6. CASE FailSwallowed(q) \/ Crash(q)
      <3>1. q # p
        BY <2>6 DEF FailSwallowed, Crash, Release, TypeOK
      <3> QED
        BY <2>6, <3>1 DEF FailSwallowed, Crash, Release, TypeOK
    <2> QED
      BY <1>8, <2>1, <2>2, <2>3, <2>4, <2>5, <2>6 DEF ProcessStep
  <1>9. CASE UNCHANGED vars
    BY <1>9 DEF vars
  <1> QED
    BY <1>2, <1>3, <1>4, <1>5, <1>6, <1>7, <1>8, <1>9 DEF Next, RequestStep

\* Only the fence lets a process into "completing".
LEMMA EnterFenced ==
  ASSUME Inv, [Next]_vars, NEW p \in Processes, pc[p] # "completing", pc'[p] = "completing"
  PROVE  Fence(p) /\ SameRow(claim[p].job) /\ claim'[p] = claim[p]
  <1> USE DEF Inv, TypeOK, jobVars, deployVars, procVars
  <1>1. CASE \E q \in Processes : BeginComplete(q)
    BY <1>1 DEF BeginComplete, Report, SameRow
  <1>2. ASSUME ~\E q \in Processes : BeginComplete(q)
        PROVE  pc'[p] # "completing"
    <2>1. CASE RequestStep \/ (\E j \in Jobs : ExpireLease(j)) \/ UNCHANGED vars
      BY <2>1 DEF RequestStep, CreateApp, QueueRevision, Rollback, WriteRecord,
                  DeleteRecords, StartArchive, FinishArchive, ExpireLease, vars
    <2>2. ASSUME NEW q \in Processes, ProcessStep(q)
          PROVE  pc'[p] # "completing"
      <3>1. CASE \E j \in Jobs : ClaimBuild(q, j) \/ TerminalizeExhausted(q, j)
        BY <3>1 DEF ClaimBuild, TerminalizeExhausted
      <3>2. CASE \E b \in BOOLEAN : BuildFails(q, b) \/ AbortComplete(q, b)
                                      \/ CommitComplete(q, b)
        BY <3>2 DEF BuildFails, AbortComplete, CommitComplete, Report, Release
      <3>3. CASE BreakDeadlock(q) \/ FailBuild(q) \/ FailSwallowed(q) \/ Crash(q)
        BY <3>3 DEF BreakDeadlock, FailBuild, FailSwallowed, Crash, Report, Release
      <3> QED
        BY <1>2, <2>2, <3>1, <3>2, <3>3 DEF ProcessStep
    <2> QED
      BY <2>1, <2>2 DEF Next
  <1> QED
    BY <1>1, <1>2

\* The inductive invariant of the claims holds at first.
LEMMA InitInv == Init => Inv
  <1>1. Init => CompletingIsFenced
    BY DEF Init, CompletingIsFenced
  <1> QED
    BY <1>1, InitType, InitClaims DEF Inv

\* Every step preserves the inductive invariant of the claims.
LEMMA NextInv == Inv /\ [Next]_vars => Inv'
  <1> SUFFICES ASSUME Inv, [Next]_vars
               PROVE  Inv'
    OBVIOUS
  <1>1. TypeOK' /\ ClaimInv'
    BY NextType, NextClaims DEF Inv, ClaimInv
  <1>2. ASSUME NEW p \in Processes, pc'[p] = "completing"
        PROVE  Fence(p)'
    <2>1. Fence(p) /\ SameRow(claim[p].job) /\ claim'[p] = claim[p]
      BY <1>2, LockedRowsKept, EnterFenced DEF Inv, CompletingIsFenced
    <2> QED
      BY <2>1 DEF Fence, SameRow
  <1> QED
    BY <1>1, <1>2 DEF Inv, CompletingIsFenced

\* TypeOK for every instance: in particular attempts never pass the limit.
THEOREM TypeCorrect == Spec => []TypeOK
  <1>1. Inv => TypeOK
    BY DEF Inv
  <1> QED
    BY <1>1, InitInv, NextInv, PTL DEF Spec

\* The attempt is a fencing token: no two processes hold the same one.
THEOREM AttemptsUnique == Spec => []AttemptsAreUnique
  <1>1. Inv => AttemptsAreUnique
    BY DEF Inv, ClaimInv
  <1> QED
    BY <1>1, InitInv, NextInv, PTL DEF Spec

-----------------------------------------------------------------------------
(***************************************************************************)
(* Settling.                                                               *)
(***************************************************************************)

\* A lease is settled or requeued by the claimant whose attempt is current.
THEOREM LatestClaimantSettlesAlways == Spec => LatestClaimantSettles
  <1> DEFINE Settles(j) ==
        status[j] = "claimed" /\ status'[j] \in {"succeeded", "queued"}
          => \E p \in Processes :
               /\ claim[p] = [job |-> j, attempt |-> attempts[j]]
               /\ pc'[p] # pc[p]
  <1>1. ASSUME Inv, Next, NEW j \in Jobs, status[j] = "claimed",
               status'[j] \in {"succeeded", "queued"}
        PROVE  \E p \in Processes : claim[p] = [job |-> j, attempt |-> attempts[j]]
                                      /\ pc'[p] # pc[p]
    <2> USE DEF Inv, jobVars, deployVars, procVars
    <2>1. ASSUME ~\E p \in Processes : FailBuild(p) \/ \E lost \in BOOLEAN : CommitComplete(p, lost)
          PROVE  FALSE
      <3>1. CASE RequestStep
        <4>1. CASE \E i \in Jobs : CreateApp(i) \/ QueueRevision(i)
          BY <1>1, <4>1 DEF CreateApp, QueueRevision, InsertJob, TypeOK
        <4>2. CASE \E a \in Apps : FinishArchive(a)
          BY <1>1, <4>2 DEF FinishArchive
        <4>3. CASE UNCHANGED status
          BY <1>1, <4>3
        <4> QED
          BY <3>1, <4>1, <4>2, <4>3
          DEF RequestStep, Rollback, WriteRecord, DeleteRecords, StartArchive
      <3>2. CASE \E i \in Jobs : ExpireLease(i)
        BY <1>1, <3>2 DEF ExpireLease
      <3>3. ASSUME NEW p \in Processes, ProcessStep(p)
            PROVE  FALSE
        <4>1. CASE \E i \in Jobs : ClaimBuild(p, i) \/ TerminalizeExhausted(p, i)
          BY <1>1, <4>1 DEF ClaimBuild, TerminalizeExhausted, TypeOK
        <4>2. CASE \E b \in BOOLEAN : BuildFails(p, b) \/ AbortComplete(p, b)
          BY <1>1, <4>2 DEF BuildFails, AbortComplete
        <4>3. CASE BeginComplete(p) \/ BreakDeadlock(p) \/ FailSwallowed(p) \/ Crash(p)
          BY <1>1, <4>3 DEF BeginComplete, BreakDeadlock, FailSwallowed, Crash
        <4> QED
          BY <2>1, <3>3, <4>1, <4>2, <4>3 DEF ProcessStep
      <3> QED
        BY <1>1, <3>1, <3>2, <3>3 DEF Next
    <2>2. ASSUME NEW p \in Processes,
                 FailBuild(p) \/ \E lost \in BOOLEAN : CommitComplete(p, lost)
          PROVE  claim[p] = [job |-> j, attempt |-> attempts[j]] /\ pc'[p] # pc[p]
      <3>1. Fence(p) /\ pc[p] \in {"completing", "failing"}
        <4>1. CASE FailBuild(p)
          BY <4>1 DEF FailBuild
        <4>2. CASE \E lost \in BOOLEAN : CommitComplete(p, lost)
          BY <1>1, <4>2 DEF CommitComplete, CompletingIsFenced
        <4> QED
          BY <2>2, <4>1, <4>2
      <3>2. claim[p].job = j /\ pc'[p] # pc[p]
        <4>1. CASE FailBuild(p)
          BY <1>1, <4>1 DEF FailBuild, Release, TypeOK
        <4>2. CASE \E lost \in BOOLEAN : CommitComplete(p, lost)
          BY <1>1, <4>2 DEF CommitComplete, Report, Release, TypeOK
        <4> QED
          BY <2>2, <4>1, <4>2
      <3>3. claim[p] \in [job : Jobs \cup {None}, attempt : 0..MaxBuildAttempts]
        BY <1>1 DEF TypeOK
      <3> QED
        BY <3>1, <3>2, <3>3 DEF Fence
    <2> QED
      BY <2>1, <2>2
  <1>2. Inv /\ [Next]_vars => [\A j \in Jobs : Settles(j)]_vars
    BY <1>1
  <1> QED
    BY <1>2, InitInv, NextInv, PTL DEF Spec, LatestClaimantSettles

-----------------------------------------------------------------------------
(***************************************************************************)
(* What a step means for the builds: nothing, a request, a failure, a      *)
(* publication, a rollback or an archive.                                  *)
(***************************************************************************)
LiveStates == {"queued", "claimed"}

Quiet ==
  /\ UNCHANGED <<announced, base, revNum, appStatus, active, previous>>
  /\ \A j \in Jobs : \/ status'[j] = status[j]
                     \/ status[j] \in LiveStates /\ status'[j] \in LiveStates

Requested(j) ==
  /\ status[j] = "absent"
  /\ \/ appStatus[AppOf[j]] = "absent"
     \/ appStatus[AppOf[j]] = "active" /\ NoLiveBuild(AppOf[j])
  /\ status' = [status EXCEPT ![j] = "queued"]
  /\ base' = [base EXCEPT ![j] = active[AppOf[j]]]
  /\ appStatus' = [appStatus EXCEPT ![AppOf[j]] = "active"]
  /\ UNCHANGED <<announced, revNum, active, previous>>

Failed(j) ==
  /\ Live(j)
  /\ status' = [status EXCEPT ![j] = "failed"]
  /\ announced' = [announced EXCEPT ![j] = @ \cup {"failed"}]
  /\ UNCHANGED <<base, revNum, appStatus, active, previous>>

Published(j) ==
  LET a == AppOf[j]
  IN  /\ Live(j)
      /\ appStatus[a] = "active"
      /\ status' = [status EXCEPT ![j] = "succeeded"]
      /\ announced' = [announced EXCEPT ![j] = @ \cup {"completed"}]
      /\ active' = [active EXCEPT ![a] = j]
      /\ previous' = [previous EXCEPT ![a] = active[a]]
      /\ UNCHANGED <<base, appStatus>>

\* What a step does to builds and deployments: nothing, or one of six changes.
LEMMA StepMeaning ==
  ASSUME Inv, [Next]_vars
  PROVE  \/ Quiet
         \/ \E j \in Jobs : Requested(j) \/ Failed(j) \/ Published(j)
         \/ \E a \in Apps, j \in Jobs : Rollback(a, j)
         \/ \E a \in Apps : FinishArchive(a)
  <1> USE DEF Inv, TypeOK, jobVars, deployVars, procVars, LiveStates
  <1>1. ASSUME NEW j \in Jobs, CreateApp(j) \/ QueueRevision(j)
        PROVE  Requested(j)
    BY <1>1, ConstantsAssumption DEF CreateApp, QueueRevision, InsertJob, AppAvailable, Requested
  <1>2. CASE \/ \E a \in Apps, e \in Entities : WriteRecord(a, e) \/ DeleteRecords(a, e)
             \/ \E a \in Apps : StartArchive(a)
             \/ \E j \in Jobs : ExpireLease(j)
    BY <1>2 DEF WriteRecord, DeleteRecords, StartArchive, ExpireLease, Quiet
  <1>3. ASSUME NEW p \in Processes, NEW j \in Jobs, ClaimBuild(p, j)
        PROVE  Quiet
    BY <1>3 DEF ClaimBuild, NextEligible, Eligible, Quiet
  <1>4. ASSUME NEW p \in Processes, NEW j \in Jobs, TerminalizeExhausted(p, j)
        PROVE  Failed(j)
    BY <1>4 DEF TerminalizeExhausted, NextEligible, Eligible, Failed, Live
  <1>5. ASSUME NEW p \in Processes,
               \/ BeginComplete(p) \/ BreakDeadlock(p) \/ FailSwallowed(p) \/ Crash(p)
               \/ \E again \in BOOLEAN : BuildFails(p, again) \/ AbortComplete(p, again)
        PROVE  Quiet
    BY <1>5 DEF BeginComplete, BreakDeadlock, FailSwallowed, Crash, BuildFails, AbortComplete, Quiet
  <1>6. ASSUME NEW p \in Processes, NEW lost \in BOOLEAN, CommitComplete(p, lost)
        PROVE  Published(claim[p].job) /\ claim[p].job \in Jobs
    <2>1. claim[p].job \in Jobs /\ Live(claim[p].job)
      BY <1>6 DEF CommitComplete, CompletingIsFenced, Fence, ClaimInv, BusyHoldsClaim, Live
    <2> QED
      BY <1>6, <2>1 DEF CommitComplete, Promote, AppAvailable, Published
  <1>7. ASSUME NEW p \in Processes, FailBuild(p)
        PROVE  Quiet \/ (Failed(claim[p].job) /\ claim[p].job \in Jobs)
    <2>1. claim[p].job \in Jobs /\ status[claim[p].job] = "claimed"
      BY <1>7 DEF FailBuild, Fence, ClaimInv, BusyHoldsClaim
    <2>2. CASE Requeues(p)
      BY <1>7, <2>1, <2>2 DEF FailBuild, Quiet
    <2>3. CASE ~Requeues(p)
      BY <1>7, <2>1, <2>3 DEF FailBuild, Failed, Live
    <2> QED
      BY <2>1, <2>2, <2>3
  <1>8. CASE UNCHANGED vars
    BY <1>8 DEF vars, Quiet
  <1> QED
    BY <1>1, <1>2, <1>3, <1>4, <1>5, <1>6, <1>7, <1>8 DEF Next, RequestStep, ProcessStep

\* The order of an app's life: requests make it, an archive ends it.
AppOrder ==
  /\ \A j \in Jobs : status[j] # "absent" => appStatus[AppOf[j]] # "absent"
  /\ \A a \in Apps : archiving[a] => appStatus[a] = "active"

QueueInv == Inv /\ AppOrder /\ OutcomeAnnounced /\ LiveBuildOwnsDeployment /\ ArchivedIsQuiet

\* The inductive invariant of the queue holds at first.
LEMMA InitQueue == Init => QueueInv
  <1>1. Init => AppOrder /\ OutcomeAnnounced /\ LiveBuildOwnsDeployment /\ ArchivedIsQuiet
    BY ConstantsAssumption DEF Init, AppOrder, OutcomeAnnounced, LiveBuildOwnsDeployment,
         ArchivedIsQuiet, Live, LiveOf
  <1> QED
    BY <1>1, InitInv DEF QueueInv

\* An app whose archive is under way is still active.
LEMMA ArchivingKept ==
  ASSUME TypeOK, AppOrder, [Next]_vars, NEW a \in Apps, archiving'[a]
  PROVE  appStatus'[a] = "active"
  <1> USE DEF TypeOK, AppOrder, jobVars, deployVars, procVars
  <1>1. CASE \E j \in Jobs : CreateApp(j) \/ QueueRevision(j) \/ ExpireLease(j)
    BY <1>1, ConstantsAssumption DEF CreateApp, QueueRevision, ExpireLease
  <1>2. CASE \E b \in Apps : StartArchive(b) \/ FinishArchive(b)
    BY <1>2 DEF StartArchive, FinishArchive, AppAvailable
  <1>3. CASE \E b \in Apps : \/ \E j \in Jobs : Rollback(b, j)
                             \/ \E e \in Entities : WriteRecord(b, e) \/ DeleteRecords(b, e)
    BY <1>3 DEF Rollback, WriteRecord, DeleteRecords
  <1>4. ASSUME NEW p \in Processes, ProcessStep(p)
        PROVE  appStatus' = appStatus /\ (archiving'[a] => archiving[a])
    BY <1>4 DEF ProcessStep, ClaimBuild, TerminalizeExhausted, BuildFails, BeginComplete,
         CommitComplete, AbortComplete, BreakDeadlock, FailBuild, FailSwallowed, Crash
  <1>5. CASE UNCHANGED vars
    BY <1>5 DEF vars
  <1> QED
    BY <1>1, <1>2, <1>3, <1>4, <1>5 DEF Next, RequestStep

\* A step that changes no outcome and no pointer preserves the invariant.
LEMMA QuietKeeps ==
  ASSUME TypeOK, AppOrder, OutcomeAnnounced, LiveBuildOwnsDeployment, ArchivedIsQuiet, Quiet
  PROVE  /\ \A j \in Jobs : status'[j] # "absent" => appStatus'[AppOf[j]] # "absent"
         /\ OutcomeAnnounced' /\ LiveBuildOwnsDeployment' /\ ArchivedIsQuiet'
  <1>1. ASSUME NEW j \in Jobs
        PROVE  /\ Live(j)' <=> Live(j)
               /\ ~Live(j) => status'[j] = status[j]
               /\ announced'[j] = announced[j]
    BY DEF Quiet, LiveStates, Live
  <1>2. \A a \in Apps : LiveOf(a)' = LiveOf(a)
    BY <1>1 DEF LiveOf
  <1>3. \A j \in Jobs : status'[j] # "absent" => appStatus'[AppOf[j]] # "absent"
    BY <1>1 DEF AppOrder, Quiet, Live
  <1>4. OutcomeAnnounced'
    BY <1>1 DEF OutcomeAnnounced, Quiet, Live
  <1>5. LiveBuildOwnsDeployment' /\ ArchivedIsQuiet'
    BY <1>1, <1>2, ConstantsAssumption DEF LiveBuildOwnsDeployment, ArchivedIsQuiet, Quiet
  <1> QED
    BY <1>3, <1>4, <1>5

\* Every step preserves the inductive invariant of the queue.
LEMMA NextQueue == QueueInv /\ [Next]_vars => QueueInv'
  <1> SUFFICES ASSUME QueueInv, [Next]_vars
               PROVE  QueueInv'
    OBVIOUS
  <1> DEFINE Goal == AppOrder /\ OutcomeAnnounced /\ LiveBuildOwnsDeployment /\ ArchivedIsQuiet
  <1> HIDE DEF Goal
  <1>1. Inv' /\ \A a \in Apps : archiving'[a] => appStatus'[a] = "active"
    BY NextInv, ArchivingKept DEF QueueInv, Inv
  <1> USE DEF QueueInv, Inv, TypeOK, AppOrder, OutcomeAnnounced, LiveBuildOwnsDeployment,
              ArchivedIsQuiet, Live, LiveOf
  <1>2. CASE Quiet
    BY <1>1, <1>2, QuietKeeps DEF Goal
  <1>3. ASSUME NEW j \in Jobs, Requested(j)
        PROVE  Goal'
    BY <1>1, <1>3, ConstantsAssumption DEF Requested, NoLiveBuild, Goal
  <1>4. ASSUME NEW j \in Jobs, Failed(j)
        PROVE  Goal'
    BY <1>1, <1>4, ConstantsAssumption DEF Failed, Goal
  <1>5. ASSUME NEW j \in Jobs, Published(j)
        PROVE  Goal'
    BY <1>1, <1>5, ConstantsAssumption DEF Published, Goal
  <1>6. ASSUME NEW a \in Apps, NEW j \in Jobs, Rollback(a, j)
        PROVE  Goal'
    BY <1>1, <1>6 DEF Rollback, Promote, NoLiveBuild, jobVars, Goal
  <1>7. ASSUME NEW a \in Apps, FinishArchive(a)
        PROVE  Goal'
    BY <1>1, <1>7 DEF FinishArchive, Withdrawn, deployVars, Goal
  <1> QED
    BY <1>1, <1>2, <1>3, <1>4, <1>5, <1>6, <1>7, StepMeaning DEF Goal

\* Each outcome is announced as what it is, and only an archive is silent.
THEOREM OutcomesAnnounced == Spec => []OutcomeAnnounced
  <1>1. QueueInv => OutcomeAnnounced
    BY DEF QueueInv
  <1> QED
    BY <1>1, InitQueue, NextQueue, PTL DEF Spec

\* One build per app at a time, whose base revision stays deployed.
THEOREM LiveBuildOwns == Spec => []LiveBuildOwnsDeployment
  <1>1. QueueInv => LiveBuildOwnsDeployment
    BY DEF QueueInv
  <1> QED
    BY <1>1, InitQueue, NextQueue, PTL DEF Spec

\* An archived app has no build in progress.
THEOREM ArchivedStaysQuiet == Spec => []ArchivedIsQuiet
  <1>1. QueueInv => ArchivedIsQuiet
    BY DEF QueueInv
  <1> QED
    BY <1>1, InitQueue, NextQueue, PTL DEF Spec

\* A settled build keeps its outcome and its announcement.
THEOREM SettledForGood == Spec => SettlementIsFinal
  <1>1. ASSUME QueueInv, [Next]_vars, NEW j \in Jobs, Settled(j)
        PROVE  status'[j] = status[j] /\ announced'[j] = announced[j]
    <2> USE <1>1 DEF QueueInv, Inv, TypeOK, Settled, Live
    <2>1. CASE Quiet
      BY <2>1 DEF Quiet, LiveStates
    <2>2. ASSUME NEW i \in Jobs, Requested(i) \/ Failed(i) \/ Published(i)
          PROVE  status'[j] = status[j] /\ announced'[j] = announced[j]
      BY <2>2 DEF Requested, Failed, Published
    <2>3. CASE \E a \in Apps, i \in Jobs : Rollback(a, i)
      BY <2>3 DEF Rollback, jobVars
    <2>4. CASE \E a \in Apps : FinishArchive(a)
      BY <2>4 DEF FinishArchive, Withdrawn, LiveOf
    <2> QED
      BY <2>1, <2>2, <2>3, <2>4, StepMeaning
  <1>2. QueueInv /\ [Next]_vars =>
          [\A j \in Jobs : Settled(j) => status'[j] = status[j] /\ announced'[j] = announced[j]]_vars
    BY <1>1
  <1> QED
    BY <1>2, InitQueue, NextQueue, PTL DEF Spec, SettlementIsFinal

-----------------------------------------------------------------------------
(***************************************************************************)
(* The queue implements the ledger.                                        *)
(***************************************************************************)
\* What each outcome says of the job row and its announcement.
LEMMA OutcomeCases ==
  ASSUME QueueInv, NEW j \in Jobs
  PROVE  /\ Outcome(j) = "none" <=> status[j] = "absent"
         /\ Outcome(j) = "pending" <=> Live(j)
         /\ Outcome(j) = "published" <=> status[j] = "succeeded"
         /\ Outcome(j) = "failed" <=> status[j] = "failed" /\ announced[j] = {"failed"}
         /\ Outcome(j) = "withdrawn" <=> status[j] = "failed" /\ announced[j] = {}
         /\ Live(j) => announced[j] = {}
  BY DEF QueueInv, OutcomeAnnounced, Inv, TypeOK, Outcome, Live

\* The pending builds of the ledger are the live ones of the queue.
LEMMA PendingIsLive ==
  ASSUME QueueInv, NEW a \in Apps
  PROVE  Ledger!Pending(a) = LiveOf(a)
  BY OutcomeCases DEF Ledger!Pending, LiveOf

\* How the outcome of one build changes with the rows it is read from.
LEMMA OutcomeKept ==
  ASSUME NEW j \in Jobs, UNCHANGED <<status[j], announced[j]>>
  PROVE  Outcome(j)' = Outcome(j)
  BY DEF Outcome, Live

\* Each step of the queue is a step of the ledger or leaves it alone.
LEMMA StepRefines ==
  ASSUME QueueInv, QueueInv', [Next]_vars
  PROVE  [Ledger!Next]_(Ledger!vars)
  <1> DEFINE old == [j \in Jobs |-> Outcome(j)]
             wasClosed == [a \in Apps |-> appStatus[a] = "archived"]
             isClosed == [a \in Apps |-> appStatus'[a] = "archived"]
  <1>0. \A j \in Jobs : AppOf[j] \in Apps
    BY ConstantsAssumption
  <1>d. DOMAIN appStatus = Apps /\ DOMAIN status = Jobs /\ DOMAIN announced = Jobs
    BY DEF QueueInv, Inv, TypeOK
  <1>o. AppOrder
    BY DEF QueueInv
  <1>1. CASE Quiet
    <2>1. \A j \in Jobs : Outcome(j)' = Outcome(j)
      <3>1. ASSUME NEW j \in Jobs, status'[j] # status[j]
            PROVE  Outcome(j)' = Outcome(j)
        BY <1>1, <3>1 DEF Quiet, LiveStates, Outcome, Live
      <3> QED
        BY <1>1, <3>1, OutcomeKept DEF Quiet
    <2> QED
      BY <1>1, <2>1 DEF Quiet, Ledger!vars
  <1>2. ASSUME NEW j \in Jobs, Requested(j)
        PROVE  Ledger!Request(j)
    <2>0. announced[j] = {}
      <3>1. announced[j] \subseteq {"completed", "failed"}
        BY DEF QueueInv, Inv, TypeOK
      <3>2. "completed" \notin announced[j] /\ "failed" \notin announced[j]
        BY <1>2 DEF QueueInv, OutcomeAnnounced, Requested
      <3> QED
        BY <3>1, <3>2
    <2>1. Outcome(j) = "none" /\ Outcome(j)' = "pending"
      BY <1>2, <1>d, <2>0 DEF Requested, Outcome, Live
    <2>2. \A i \in Jobs : i # j => Outcome(i)' = Outcome(i)
      BY <1>2, OutcomeKept DEF Requested
    <2>3. Ledger!Pending(AppOf[j]) = {}
      <3>1. LiveOf(AppOf[j]) = {}
        <4>1. CASE NoLiveBuild(AppOf[j])
          BY <4>1 DEF NoLiveBuild
        <4>2. CASE appStatus[AppOf[j]] = "absent"
          <5>1. \A i \in Jobs : AppOf[i] = AppOf[j] => status[i] = "absent"
            BY <1>o, <4>2 DEF AppOrder
          <5> QED
            BY <5>1 DEF LiveOf, Live
        <4> QED
          BY <1>2, <4>1, <4>2 DEF Requested
      <3> QED
        BY <1>0, <3>1, PendingIsLive
    <2>4. isClosed = wasClosed /\ ~wasClosed[AppOf[j]]
      BY <1>0, <1>2, <1>d DEF Requested
    <2>5. [i \in Jobs |-> Outcome(i)]' = [old EXCEPT ![j] = "pending"]
      BY <2>1, <2>2
    <2> QED
      BY <2>5, <1>0, <1>2, <2>1, <2>2, <2>3, <2>4 DEF Requested, Ledger!Request
  <1>3. ASSUME NEW j \in Jobs, Failed(j)
        PROVE  Ledger!Fail(j)
    <2>1. Outcome(j) = "pending" /\ Outcome(j)' = "failed"
      BY <1>3, <1>d, OutcomeCases DEF Failed, Outcome, Live
    <2>2. \A i \in Jobs : i # j => Outcome(i)' = Outcome(i)
      BY <1>3, OutcomeKept DEF Failed
    <2>5. [i \in Jobs |-> Outcome(i)]' = [old EXCEPT ![j] = "failed"]
      BY <2>1, <2>2
    <2> QED
      BY <2>5, <1>3, <2>1, <2>2 DEF Failed, Ledger!Fail
  <1>4. ASSUME NEW j \in Jobs, Published(j)
        PROVE  Ledger!Publish(j)
    <2>1. Outcome(j) = "pending" /\ Outcome(j)' = "published"
      BY <1>4, <1>d, OutcomeCases DEF Published, Outcome, Live
    <2>2. \A i \in Jobs : i # j => Outcome(i)' = Outcome(i)
      BY <1>4, OutcomeKept DEF Published
    <2>5. [i \in Jobs |-> Outcome(i)]' = [old EXCEPT ![j] = "published"]
      BY <2>1, <2>2
    <2> QED
      BY <2>5, <1>4, <2>1, <2>2 DEF Published, Ledger!Publish
  <1>5. ASSUME NEW a \in Apps, NEW j \in Jobs, Rollback(a, j)
        PROVE  Ledger!SwapBack(a)
    <2>1. \A i \in Jobs : Outcome(i)' = Outcome(i)
      BY <1>5, OutcomeKept DEF Rollback, jobVars
    <2>2. Ledger!Pending(a) = {}
      BY <1>5, PendingIsLive DEF Rollback, NoLiveBuild
    <2> QED
      BY <1>5, <2>1, <2>2 DEF Rollback, Promote, AppAvailable, Ledger!SwapBack
  <1>6. ASSUME NEW a \in Apps, FinishArchive(a)
        PROVE  Ledger!Close(a)
    <2>1. \A j \in LiveOf(a) : Outcome(j)' = "withdrawn"
      BY <1>6, OutcomeCases DEF FinishArchive, Withdrawn, LiveOf, Outcome, Live
    <2>2. \A j \in Jobs : j \notin LiveOf(a) => Outcome(j)' = Outcome(j)
      BY <1>6, OutcomeKept DEF FinishArchive, Withdrawn
    <2>3. wasClosed[a] = FALSE /\ isClosed = [wasClosed EXCEPT ![a] = TRUE]
      <3>1. appStatus[a] = "active"
        BY <1>6, <1>o DEF FinishArchive, AppOrder
      <3>2. appStatus' = [appStatus EXCEPT ![a] = "archived"] /\ DOMAIN appStatus = Apps
        BY <1>6, <1>d DEF FinishArchive
      <3>3. appStatus'[a] = "archived" /\ \A b \in Apps \ {a} : appStatus'[b] = appStatus[b]
        BY <3>2
      <3> QED
        BY <3>1, <3>3
    <2> QED
      BY <1>6, <2>1, <2>2, <2>3, PendingIsLive DEF FinishArchive, deployVars, Ledger!Close
  <1> QED
    <2>0. Inv
      BY DEF QueueInv
    <2>1. \/ Quiet
          \/ \E j \in Jobs : Requested(j) \/ Failed(j) \/ Published(j)
          \/ \E a \in Apps, j \in Jobs : Rollback(a, j)
          \/ \E a \in Apps : FinishArchive(a)
      BY <2>0, StepMeaning
    <2> QED
      BY <2>1, <1>1, <1>2, <1>3, <1>4, <1>5, <1>6 DEF Ledger!Next

\* Workers, leases, retries, crashes and late completions are invisible to
\* the owner: the queue is the ledger, in which each request is decided once
\* and a build is deployed exactly when it is announced as published.
THEOREM QueueImplementsLedger == Spec => LedgerSpec
  <1>1. Init => Ledger!Init
    <2> SUFFICES ASSUME Init
                 PROVE  Ledger!Init
      OBVIOUS
    <2>1. \A j \in Jobs : Outcome(j) = "none"
      <3>1. ASSUME NEW j \in Jobs
            PROVE  status[j] = "absent"
        BY DEF Init
      <3> QED
        BY <3>1 DEF Outcome, Live
    <2> QED
      BY <2>1 DEF Init, Ledger!Init
  <1>2. QueueInv /\ QueueInv' /\ [Next]_vars => [Ledger!Next]_(Ledger!vars)
    BY StepRefines
  <1> QED
    BY <1>1, <1>2, InitQueue, NextQueue, PTL DEF Spec, LedgerSpec, Ledger!Spec

-----------------------------------------------------------------------------
(***************************************************************************)
(* The records.                                                            *)
(***************************************************************************)
RecordsInv == Inv /\ RecordsFitDeployed

\* Only promotions and record writes touch the records or the pointer.
LEMMA RecordSteps ==
  ASSUME [Next]_vars
  PROVE  \/ UNCHANGED <<records, active>>
         \/ \E a \in Apps, j \in Jobs : Rollback(a, j)
         \/ \E p \in Processes, lost \in BOOLEAN : CommitComplete(p, lost)
         \/ \E a \in Apps, e \in Entities : WriteRecord(a, e) \/ DeleteRecords(a, e)
  <1> USE DEF deployVars, procVars, jobVars
  <1>1. CASE \/ \E j \in Jobs : CreateApp(j) \/ QueueRevision(j) \/ ExpireLease(j)
             \/ \E a \in Apps : StartArchive(a) \/ FinishArchive(a)
             \/ UNCHANGED vars
    BY <1>1 DEF CreateApp, QueueRevision, ExpireLease, StartArchive, FinishArchive, vars
  <1>2. ASSUME NEW p \in Processes, ProcessStep(p)
        PROVE  UNCHANGED <<records, active>> \/ \E lost \in BOOLEAN : CommitComplete(p, lost)
    BY <1>2 DEF ProcessStep, ClaimBuild, TerminalizeExhausted, BuildFails, BeginComplete,
         AbortComplete, BreakDeadlock, FailBuild, FailSwallowed, Crash
  <1> QED
    BY <1>1, <1>2 DEF Next, RequestStep

\* A promotion that checked the records leaves them valid.
LEMMA PromoteKeepsFit ==
  ASSUME Inv, RecordsFitDeployed, NEW a \in Apps, NEW j \in Jobs, NEW n,
         RecordsFit(a, j), Promote(a, j, n)
  PROVE  RecordsFitDeployed'
  <1>1. records'[a] \subseteq Manifest[j] /\ active'[a] = j /\ j # None
    BY ConstantsAssumption DEF Promote, RecordsAfterPromotion, RecordsFit, Inv, TypeOK
  <1>2. \A b \in Apps : b # a => records'[b] = records[b] /\ active'[b] = active[b]
    BY DEF Promote, Inv, TypeOK
  <1> QED
    BY <1>1, <1>2 DEF RecordsFitDeployed

\* The live records of an app are always valid under the deployed manifest.
THEOREM RecordsAlwaysFit == Spec => []RecordsFitDeployed
  <1>1. Init => RecordsFitDeployed
    BY DEF Init, RecordsFitDeployed
  <1>2. ASSUME RecordsInv, [Next]_vars
        PROVE  RecordsFitDeployed'
    <2> USE <1>2 DEF RecordsInv
    <2>1. CASE UNCHANGED <<records, active>>
      BY <2>1 DEF RecordsFitDeployed
    <2>2. ASSUME NEW a \in Apps, NEW j \in Jobs, Rollback(a, j)
          PROVE  RecordsFitDeployed'
      <3>1. previous[a] \in Jobs
        BY <2>2 DEF Rollback, Inv, TypeOK
      <3> QED
        BY <2>2, <3>1, PromoteKeepsFit DEF Rollback
    <2>3. ASSUME NEW p \in Processes, NEW lost \in BOOLEAN, CommitComplete(p, lost)
          PROVE  RecordsFitDeployed'
      <3>1. claim[p].job \in Jobs /\ AppOf[claim[p].job] \in Apps
        BY <2>3, ConstantsAssumption DEF CommitComplete, Inv, ClaimInv, BusyHoldsClaim
      <3> QED
        BY <2>3, <3>1, PromoteKeepsFit DEF CommitComplete
    <2>4. ASSUME NEW a \in Apps, NEW e \in Entities, WriteRecord(a, e) \/ DeleteRecords(a, e)
          PROVE  RecordsFitDeployed'
      BY <2>4 DEF WriteRecord, DeleteRecords, deployVars, RecordsFitDeployed, Inv, TypeOK
    <2> QED
      BY <2>1, <2>2, <2>3, <2>4, RecordSteps
  <1>3. RecordsInv /\ [Next]_vars => RecordsInv'
    BY <1>2, NextInv DEF RecordsInv
  <1>4. RecordsInv => RecordsFitDeployed
    BY DEF RecordsInv
  <1>5. Init => RecordsInv
    BY <1>1, InitInv DEF RecordsInv
  <1> QED
    BY <1>3, <1>4, <1>5, PTL DEF Spec

\* A promotion over a deployed revision never brings seed records back.
THEOREM NeverReseeded == Spec => NoReseed
  <1>1. ASSUME Inv, [Next]_vars, NEW a \in Apps, active[a] # None, active'[a] # active[a]
        PROVE  records'[a] = records[a]
    <2>1. ASSUME NEW b \in Apps, NEW j, NEW n, Promote(b, j, n)
          PROVE  records'[a] = records[a]
      BY <1>1, <2>1 DEF Promote, RecordsAfterPromotion, Inv, TypeOK
    <2> QED
      BY <1>1, <2>1, RecordSteps, ConstantsAssumption
      DEF Rollback, CommitComplete, WriteRecord, DeleteRecords, deployVars, Inv, ClaimInv,
          BusyHoldsClaim
  <1>2. Inv /\ [Next]_vars =>
          [\A a \in Apps : active[a] # None /\ active'[a] # active[a]
                             => records'[a] = records[a]]_vars
    BY <1>1
  <1> QED
    BY <1>2, InitInv, NextInv, PTL DEF Spec, NoReseed

-----------------------------------------------------------------------------
(***************************************************************************)
(* The revision numbers.                                                   *)
(***************************************************************************)
PointersStayHome ==
  \A a \in Apps : /\ active[a] # None => AppOf[active[a]] = a
                  /\ previous[a] # None => AppOf[previous[a]] = a

NumbersInv == Inv /\ PointersStayHome /\ RevisionNumbersIdentify

\* Only rollbacks and completions deploy.
LEMMA DeploySteps ==
  ASSUME [Next]_vars
  PROVE  \/ UNCHANGED deployVars
         \/ \E a \in Apps, j \in Jobs : Rollback(a, j)
         \/ \E p \in Processes, lost \in BOOLEAN : CommitComplete(p, lost)
  <1> USE DEF procVars, jobVars
  <1>1. CASE \/ \E j \in Jobs : CreateApp(j) \/ QueueRevision(j) \/ ExpireLease(j)
             \/ \E a \in Apps : StartArchive(a) \/ FinishArchive(a)
             \/ \E a \in Apps, e \in Entities : WriteRecord(a, e) \/ DeleteRecords(a, e)
             \/ UNCHANGED vars
    BY <1>1 DEF CreateApp, QueueRevision, ExpireLease, StartArchive, FinishArchive,
         WriteRecord, DeleteRecords, vars
  <1>2. ASSUME NEW p \in Processes, ProcessStep(p)
        PROVE  UNCHANGED deployVars \/ \E lost \in BOOLEAN : CommitComplete(p, lost)
    BY <1>2 DEF ProcessStep, ClaimBuild, TerminalizeExhausted, BuildFails, BeginComplete,
         AbortComplete, BreakDeadlock, FailBuild, FailSwallowed, Crash
  <1> QED
    BY <1>1, <1>2 DEF Next, RequestStep

\* Every step preserves the inductive invariant of revision numbers.
LEMMA NextNumbers == NumbersInv /\ [Next]_vars => NumbersInv'
  <1> SUFFICES ASSUME NumbersInv, [Next]_vars
               PROVE  PointersStayHome' /\ RevisionNumbersIdentify'
    BY NextInv DEF NumbersInv
  <1> USE DEF NumbersInv, PointersStayHome, RevisionNumbersIdentify, Inv, TypeOK
  <1>1. CASE UNCHANGED deployVars
    BY <1>1 DEF deployVars
  <1>2. ASSUME NEW a \in Apps, NEW j \in Jobs, Rollback(a, j)
        PROVE  PointersStayHome' /\ RevisionNumbersIdentify'
    BY <1>2 DEF Rollback, Promote
  <1>3. ASSUME NEW p \in Processes, NEW lost \in BOOLEAN, CommitComplete(p, lost)
        PROVE  PointersStayHome' /\ RevisionNumbersIdentify'
    <2> DEFINE j == claim[p].job
               a == AppOf[j]
    <2>1. j \in Jobs /\ a \in Apps /\ j # None
      <3>1. pc[p] = "completing" /\ ClaimInv
        BY <1>3 DEF CommitComplete
      <3>2. j \in Jobs
        BY <3>1 DEF ClaimInv, BusyHoldsClaim
      <3> QED
        BY <3>2, ConstantsAssumption
    <2>2. PICK n \in 1..Cardinality(Jobs) :
            /\ NextRevisionNumber(a, n)
            /\ revNum' = [revNum EXCEPT ![j] = n]
            /\ Promote(a, j, n)
      BY <1>3 DEF CommitComplete
    <2>3. n \in Nat /\ \A i \in Jobs : AppOf[i] = a => revNum[i] < n
      BY <2>2, CardinalityOfJobs DEF NextRevisionNumber, RevisionNumbers
    <2>4. /\ active'[a] = j /\ previous'[a] = active[a] /\ currentRev'[a] = n
          /\ \A b \in Apps : b # a => UNCHANGED <<active[b], previous[b], currentRev[b]>>
          /\ revNum'[j] = n /\ \A i \in Jobs : i # j => revNum'[i] = revNum[i]
      BY <2>1, <2>2 DEF Promote
    <2>5. PointersStayHome'
      BY <2>1, <2>4
    <2> HIDE DEF j, a
    <2>6. ASSUME NEW i \in Jobs, NEW k \in Jobs, i # k, AppOf[i] = AppOf[k], revNum'[i] # 0
          PROVE  revNum'[i] # revNum'[k]
      <3>1. CASE i = j
        BY <2>3, <2>4, <2>6, <3>1 DEF a
      <3>2. CASE k = j
        BY <2>3, <2>4, <2>6, <3>2 DEF a
      <3>3. CASE i # j /\ k # j
        BY <2>4, <2>6, <3>3
      <3> QED
        BY <3>1, <3>2, <3>3
    <2>7. ASSUME NEW b \in Apps, active'[b] # None
          PROVE  revNum'[active'[b]] = currentRev'[b]
      BY <2>1, <2>4, <2>7 DEF a
    <2> QED
      BY <2>5, <2>6, <2>7
  <1> QED
    BY <1>1, <1>2, <1>3, DeploySteps

\* Numbers identify revisions, also of builds that follow a rollback.
THEOREM NumbersIdentify == Spec => []RevisionNumbersIdentify
  <1>1. Init => NumbersInv
    <2>1. Init => PointersStayHome /\ RevisionNumbersIdentify
      BY DEF Init, PointersStayHome, RevisionNumbersIdentify
    <2> QED
      BY <2>1, InitInv DEF NumbersInv
  <1>2. NumbersInv => RevisionNumbersIdentify
    BY DEF NumbersInv
  <1> QED
    BY <1>1, <1>2, NextNumbers, PTL DEF Spec

-----------------------------------------------------------------------------
(***************************************************************************)
(* The conjunctions that the runs check.                                   *)
(***************************************************************************)

\* The queue of builds is sound in every state: fenced, exclusive and honest.
THEOREM QueueAlwaysSound == Spec => []QueueIsSound
  <1>1. OutcomeAnnounced /\ AttemptsAreUnique /\ LiveBuildOwnsDeployment /\ ArchivedIsQuiet
          => QueueIsSound
    BY DEF QueueIsSound
  <1> QED
    BY <1>1, OutcomesAnnounced, AttemptsUnique, LiveBuildOwns, ArchivedStaysQuiet, PTL

\* The deployment of every app is sound in every state.
THEOREM DeploymentAlwaysSound == Spec => []DeploymentIsSound
  <1>1. RecordsFitDeployed /\ RevisionNumbersIdentify => DeploymentIsSound
    BY DEF DeploymentIsSound
  <1> QED
    BY <1>1, RecordsAlwaysFit, NumbersIdentify, PTL

\* Every step of the queue is sound.
THEOREM StepsAlwaysSound == Spec => StepsAreSound
  BY LatestClaimantSettlesAlways, SettledForGood, NeverReseeded DEF StepsAreSound

===============================================================================
