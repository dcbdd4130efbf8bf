----------------------------- MODULE Work_proofs -----------------------------
(***************************************************************************)
(* What holds of BuildPipeline, ToolJournal and MemoryJobs for every       *)
(* number of executors, requests, repairs, reviews, jobs and workers and   *)
(* every set of acceptance failures, facts and claims.  The three share no *)
(* state; each part is about the behaviours of one of them.                *)
(***************************************************************************)
EXTENDS BuildPipeline, ToolJournal, MemoryJobs, FiniteSetTheorems, TLAPS

(***************************************************************************)
(* The build pipeline.                                                     *)
(***************************************************************************)
BuildPipelineSpec == BuildPipelineInit /\ [][BuildPipelineNext]_pipelineVars

\* The gates a candidate has passed: the policy and the compiler; and the smoke run,
\* where there is one.
Compiles == candidate \cap {Blocking, Forbidden, Compile} = {}
Passed   == Compiles /\ (runner # "none" => candidate \subseteq {Style})

PipelineType ==
  /\ stage \in Building \cup {"idle", "complete", "failing"}
  /\ candidate \subseteq Defects
  /\ failure \in {"none", "final", "retryable"}
  /\ stored \in {"queued", "claimed", "reclaimed", "completed", "failed"}
  /\ history \in [seen : SUBSET SUBSET Acceptance, generations : Nat, repairs : Nat,
                  reviews : Nat, clean : BOOLEAN]
  /\ IsFiniteSet(history.seen)

\* What is known of the candidate at each stage.
Gated ==
  /\ stage = "smoke" => Compiles
  /\ stage = "review" => Passed
  /\ stage = "judge" /\ issues = {} => Passed
  /\ stage \in {"package", "complete"} => Passed
  /\ stored = "completed" => Passed
  /\ stage \in Building \cup {"complete"} => stored \in {"claimed", "reclaimed"}

\* Every generation but the first, and every failure that was seen, was paid for by a repair.
Spent ==
  /\ history.repairs <= MaxRepairs /\ history.reviews <= MaxReviews
  /\ stage = "review" => history.reviews < MaxReviews
  /\ stage = "validate" => history.generations = 0
  /\ stage \in {"repair", "regenerate"} => history.generations <= history.repairs
  /\ history.generations <= history.repairs + 1
  /\ Cardinality(history.seen) <= history.repairs

PipelineInv == PipelineType /\ Gated /\ Spent

\* The pipeline starts with nothing built and nothing spent.
LEMMA PipelineInitially ==
  ASSUME BuildPipelineInit
  PROVE  PipelineInv
  <1>1. IsFiniteSet({}) /\ Cardinality({}) = 0
    BY FS_EmptySet
  <1> QED
    BY <1>1, BuildPipelineAssumption
       DEF BuildPipelineInit, PipelineInv, PipelineType, Gated, Spent, Building, Compiles, Passed,
           Defects, NoHistory

\* A new candidate costs a generation, and is known to have passed nothing.
LEMMA CandidateOK ==
  ASSUME PipelineInv, NEW source \in SUBSET Defects, NextCandidate(source),
         stage \in {"validate", "repair", "regenerate"}
  PROVE  PipelineInv'
  <1>1. /\ history' = [history EXCEPT !.generations = history.generations + 1]
        /\ stage' = "inspect" /\ candidate' = source
        /\ UNCHANGED <<runner, issues, bundle, smoke, failure, stored>>
    BY DEF NextCandidate
  <1>2. PipelineType'
    BY <1>1 DEF PipelineInv, PipelineType, Building
  <1>3. Gated'
    BY <1>1 DEF PipelineInv, Gated, Building
  <1>4. history.generations <= history.repairs
    BY DEF PipelineInv, PipelineType, Spent
  <1>5. Spent'
    BY <1>1, <1>4 DEF PipelineInv, PipelineType, Spent
  <1> QED
    BY <1>2, <1>3, <1>5 DEF PipelineInv

\* The end of a round: a repair is paid for, and remembers at most one failure.
LEMMA JudgeOK ==
  ASSUME PipelineInv, Judge
  PROVE  PipelineInv'
  <1>0. stage = "judge" /\ UNCHANGED <<runner, candidate, issues, bundle, smoke, stored>>
    BY DEF Judge, gateVars
  <1>1. CASE UNCHANGED history /\ stage' \in {"package", "failing"}
    <2>1. failure' \in {"none", "final", "retryable"} /\ (stage' = "package" => issues = {})
      BY <1>0, <1>1 DEF Judge, Fail, Accepted, PipelineInv, PipelineType
    <2> QED
      BY <1>0, <1>1, <2>1
         DEF PipelineInv, PipelineType, Gated, Spent, Passed, Compiles, Building
  <1>2. CASE /\ ~Accepted(issues) /\ ~Exhausted(issues)
             /\ stage' \in {"regenerate", "repair"} /\ UNCHANGED failure
             /\ history' = [history EXCEPT
                              !.repairs = @ + 1, !.clean = @ \/ Repeated(issues),
                              !.seen = IF Fingerprint(issues) = {} THEN @
                                       ELSE @ \cup {Fingerprint(issues)}]
    <2> DEFINE seen == IF Fingerprint(issues) = {} THEN history.seen
                       ELSE history.seen \cup {Fingerprint(issues)}
    <2>1. history.repairs \in Nat /\ history.repairs < MaxRepairs /\ MaxRepairs \in Nat
      BY <1>2, BuildPipelineAssumption DEF Exhausted, PipelineInv, PipelineType
    <2>2. /\ seen \in SUBSET SUBSET Acceptance /\ IsFiniteSet(seen)
          /\ Cardinality(seen) <= Cardinality(history.seen) + 1
          /\ Cardinality(seen) \in Nat /\ Cardinality(history.seen) \in Nat
      <3>1. IsFiniteSet(history.seen) /\ history.seen \subseteq SUBSET Acceptance
        BY DEF PipelineInv, PipelineType
      <3>2. /\ IsFiniteSet(history.seen \cup {Fingerprint(issues)})
            /\ Cardinality(history.seen \cup {Fingerprint(issues)})
                 \in {Cardinality(history.seen), Cardinality(history.seen) + 1}
        BY <3>1, FS_AddElement
      <3>3. Cardinality(history.seen) \in Nat
        BY <3>1, FS_CardinalityType
      <3>4. Fingerprint(issues) \subseteq Acceptance
        BY DEF Fingerprint
      <3> QED
        BY <3>1, <3>2, <3>3, <3>4
    <2>3. /\ history'.seen = seen /\ history'.repairs = history.repairs + 1
          /\ history'.generations = history.generations /\ history'.reviews = history.reviews
          /\ history' \in [seen : SUBSET SUBSET Acceptance, generations : Nat, repairs : Nat,
                           reviews : Nat, clean : BOOLEAN]
      <3>1. (history.clean \/ Repeated(issues)) \in BOOLEAN
        OBVIOUS
      <3>2. history' = [history EXCEPT !.repairs = history.repairs + 1,
                          !.clean = history.clean \/ Repeated(issues), !.seen = seen]
        BY <1>2
      <3>3. ASSUME NEW c \in BOOLEAN, NEW s \in SUBSET SUBSET Acceptance, NEW n \in Nat,
                   history' = [history EXCEPT !.repairs = n, !.clean = c, !.seen = s]
            PROVE  /\ history'.seen = s /\ history'.repairs = n
                   /\ history'.generations = history.generations /\ history'.reviews = history.reviews
                   /\ history' \in [seen : SUBSET SUBSET Acceptance, generations : Nat, repairs : Nat,
                                    reviews : Nat, clean : BOOLEAN]
        BY <3>3 DEF PipelineInv, PipelineType
      <3>4. history.repairs + 1 \in Nat
        BY <2>1
      <3> HIDE DEF seen
      <3> QED
        BY <2>2, <3>1, <3>2, <3>3, <3>4
    <2>4. PipelineType'
      BY <1>0, <1>2, <2>2, <2>3 DEF PipelineInv, PipelineType, Building
    <2>5. Gated'
      BY <1>0, <1>2 DEF PipelineInv, Gated, Building, Passed, Compiles
    <2>6. Spent'
      <3>1. /\ history.generations \in Nat /\ history.reviews \in Nat /\ MaxReviews \in Nat
            /\ history.reviews <= MaxReviews
            /\ history.generations <= history.repairs + 1
            /\ Cardinality(history.seen) <= history.repairs
        BY BuildPipelineAssumption DEF PipelineInv, PipelineType, Spent
      <3>2. stage' \in {"regenerate", "repair"}
        BY <1>2
      <3>3. Cardinality(history'.seen) <= Cardinality(history.seen) + 1
        BY <2>2, <2>3
      <3>4. Cardinality(history'.seen) \in Nat /\ Cardinality(history.seen) \in Nat
        BY <2>2, <2>3
      <3> HIDE DEF seen
      <3> QED
        BY <2>1, <2>3, <3>1, <3>2, <3>3, <3>4 DEF Spent
    <2> QED
      BY <2>4, <2>5, <2>6 DEF PipelineInv
  <1> QED
    BY <1>1, <1>2 DEF Judge, Fail

\* Every step keeps what the gates have found and what was spent.
LEMMA PipelineStep ==
  ASSUME PipelineInv, [BuildPipelineNext]_pipelineVars
  PROVE  PipelineInv'
  <1>1. ASSUME NEW source \in SUBSET Defects, Generate(source) \/ Repair(source) \/ Regenerate(source)
        PROVE  PipelineInv'
    BY <1>1, CandidateOK DEF Generate, Repair, Regenerate
  <1>2. ASSUME Judge
        PROVE  PipelineInv'
    BY <1>2, JudgeOK
  <1>3. ASSUME ClaimBuild
        PROVE  PipelineInv'
    <2>1. IsFiniteSet({}) /\ Cardinality({}) = 0
      BY FS_EmptySet
    <2>2. /\ history' = NoHistory /\ stage' = "validate" /\ stored' = "claimed"
          /\ UNCHANGED <<candidate, failure>>
      BY <1>3 DEF ClaimBuild, gateVars
    <2>3. PipelineType'
      BY <2>1, <2>2 DEF PipelineInv, PipelineType, Building, NoHistory
    <2>4. Spent'
      BY <2>1, <2>2, BuildPipelineAssumption DEF Spent, NoHistory
    <2>5. Gated'
      BY <2>2 DEF Gated, Building
    <2> QED
      BY <2>3, <2>4, <2>5 DEF PipelineInv
  <1>4. ASSUME Inspect
        PROVE  PipelineInv'
    <2>1. /\ stage = "inspect" /\ stage' \in {"smoke", "judge"} /\ (issues' = {} <=> stage' = "smoke")
          /\ UNCHANGED <<runner, candidate, history, failure, stored>>
      BY <1>4 DEF Inspect, Accepted
    <2>2. issues' = {} => Compiles
      BY <1>4 DEF Inspect, PolicyIssues, CompileIssues, Compiles
    <2>3. PipelineType' /\ Spent'
      BY <2>1 DEF PipelineInv, PipelineType, Spent, Building
    <2>4. Gated'
      BY <2>1, <2>2 DEF PipelineInv, Gated, Building, Passed, Compiles
    <2> QED
      BY <2>3, <2>4 DEF PipelineInv
  <1>5. ASSUME Smoke
        PROVE  PipelineInv'
    <2>1. /\ stage = "smoke" /\ stage' \in {"review", "judge"}
          /\ UNCHANGED <<runner, candidate, history, failure, stored>>
          /\ stage' = "review" => issues' = {} /\ history.reviews < MaxReviews /\ runner # "none"
      BY <1>5 DEF Smoke
    <2>2. Compiles /\ candidate \subseteq Defects
      BY <2>1 DEF PipelineInv, Gated, PipelineType
    <2>3. runner # "none" /\ issues' = {} => candidate \subseteq {Style}
      <3>1. CASE runner # "none" /\ SmokeIssues(candidate) = {}
        <4>1. candidate \cap {Runtime} = {} /\ candidate \cap Acceptance = {}
          BY <3>1 DEF SmokeIssues, GuestIssues, BrowserIssues
        <4> QED
          BY <2>2, <4>1 DEF Compiles, Defects
      <3> QED
        BY <1>5, <3>1 DEF Smoke
    <2>4. issues' = {} => Passed'
      BY <2>1, <2>2, <2>3 DEF Passed, Compiles
    <2>5. PipelineType' /\ Spent'
      BY <2>1 DEF PipelineInv, PipelineType, Spent, Building
    <2>6. Gated'
      BY <2>1, <2>4 DEF PipelineInv, Gated, Building, Passed, Compiles
    <2> QED
      BY <2>5, <2>6 DEF PipelineInv
  <1>6. ASSUME Review
        PROVE  PipelineInv'
    <2>1. /\ stage = "review" /\ stage' = "judge"
          /\ UNCHANGED <<runner, candidate, failure, stored>>
          /\ history' = [history EXCEPT !.reviews = history.reviews + 1]
      BY <1>6 DEF Review
    <2>2. PipelineType'
      BY <2>1 DEF PipelineInv, PipelineType, Building
    <2>3. Spent'
      BY <2>1, BuildPipelineAssumption DEF PipelineInv, PipelineType, Spent
    <2>4. Gated'
      BY <2>1 DEF PipelineInv, Gated, Building, Passed, Compiles
    <2> QED
      BY <2>2, <2>3, <2>4 DEF PipelineInv
  <1>7. ASSUME RejectBlueprint \/ Package \/ Interrupted \/ Complete \/ RecordFailure
                 \/ LoseLease \/ BuilderDies
        PROVE  PipelineInv'
    <2>1. UNCHANGED <<runner, candidate, issues, history>>
      BY <1>7 DEF RejectBlueprint, Package, Interrupted, Complete, RecordFailure, LoseLease,
           BuilderDies, gateVars
    <2>2. /\ stage' \in {stage, "idle", "failing"} \/ (stage = "package" /\ stage' = "complete")
          /\ failure' \in {failure, "none", "final", "retryable"}
          /\ stored' \in {"queued", "claimed", "reclaimed", "completed", "failed"}
      BY <1>7 DEF RejectBlueprint, Package, Interrupted, Complete, RecordFailure, LoseLease,
           BuilderDies, Fail, PipelineInv, PipelineType
    <2>3. PipelineType'
      BY <2>1, <2>2 DEF PipelineInv, PipelineType
    <2>4. Spent'
      BY <2>1, <2>2 DEF PipelineInv, Spent
    <2>5. /\ stored' = "completed" => stored = "completed" \/ stage = "complete"
          /\ stage' \in {"idle", "failing"} \/ stored' = stored
               \/ (stored = "claimed" /\ stored' = "reclaimed")
      BY <1>7 DEF RejectBlueprint, Package, Interrupted, Complete, RecordFailure, LoseLease,
           BuilderDies, Fail
    <2>6. Gated'
      BY <2>1, <2>2, <2>5 DEF PipelineInv, Gated, Building, Passed, Compiles
    <2> QED
      BY <2>3, <2>4, <2>6 DEF PipelineInv
  <1>8. CASE UNCHANGED pipelineVars
    BY <1>8 DEF pipelineVars, PipelineInv, PipelineType, Gated, Spent, Passed, Compiles
  <1> QED
    BY <1>1, <1>2, <1>3, <1>4, <1>5, <1>6, <1>7, <1>8 DEF BuildPipelineNext

\* What complete_build stores has passed every configured gate with the source that is
\* stored, and a claim costs no more than max_repair_attempts and max_visual_reviews allow.
THEOREM BuildsVerified == BuildPipelineSpec => []BuildsAreVerified
  <1>1. ASSUME PipelineInv
        PROVE  BuildsAreVerified
    <2>1. Cardinality(history.seen) \in Nat
      BY <1>1, FS_CardinalityType DEF PipelineInv, PipelineType
    <2>2. SpendingIsBounded
      BY <1>1, <2>1, BuildPipelineAssumption DEF PipelineInv, PipelineType, Spent, SpendingIsBounded
    <2>3. PublishedIsVerified
      BY <1>1 DEF PipelineInv, Gated, Passed, Compiles, PublishedIsVerified
    <2> QED
      BY <2>2, <2>3 DEF BuildsAreVerified
  <1> QED
    BY PipelineInitially, PipelineStep, <1>1, PTL DEF BuildPipelineSpec

\* What the gates have found are defects of the candidate, or of one before.
LEMMA IssuesAreDefects ==
  ASSUME PipelineInv, issues \subseteq Defects, [BuildPipelineNext]_pipelineVars
  PROVE  issues' \subseteq Defects
  <1>1. candidate \subseteq Defects
    BY DEF PipelineInv, PipelineType
  <1>2. CASE Inspect
    BY <1>1, <1>2 DEF Inspect, PolicyIssues, CompileIssues
  <1>3. CASE Smoke
    <2>1. SmokeIssues(candidate) \subseteq Defects
      BY <1>1 DEF SmokeIssues, GuestIssues, BrowserIssues
    <2> QED
      BY <1>3, <2>1 DEF Smoke
  <1>4. CASE Review
    BY <1>1, <1>4 DEF Review, Verdicts
  <1>5. CASE UNCHANGED issues
    BY <1>5
  <1>6. CASE ~UNCHANGED issues
    <2>1. Inspect \/ Smoke \/ Review
      BY <1>6 DEF BuildPipelineNext, ClaimBuild, Generate, Repair, Regenerate, NextCandidate,
         RejectBlueprint, Judge, Package, Interrupted, Complete, RecordFailure, LoseLease,
         BuilderDies, gateVars, pipelineVars
    <2> QED
      BY <1>2, <1>3, <1>4, <2>1
  <1> QED
    BY <1>5, <1>6

\* The worker, its candidate and what the queue holds keep their shape.
THEOREM PipelineTypes == BuildPipelineSpec => []BuildPipelineTypeOK
  <1>1. BuildPipelineInit => PipelineInv /\ issues \subseteq Defects
    BY PipelineInitially DEF BuildPipelineInit
  <1>2. PipelineInv /\ issues \subseteq Defects /\ [BuildPipelineNext]_pipelineVars
          => (PipelineInv /\ issues \subseteq Defects)'
    BY PipelineStep, IssuesAreDefects
  <1>3. PipelineInv /\ issues \subseteq Defects => BuildPipelineTypeOK
    BY DEF PipelineInv, PipelineType, BuildPipelineTypeOK
  <1> QED
    BY <1>1, <1>2, <1>3, PTL DEF BuildPipelineSpec

-----------------------------------------------------------------------------
(***************************************************************************)
(* The journal of tool calls.                                              *)
(***************************************************************************)
ToolJournalSpec == ToolJournalInit /\ [][ToolJournalNext]_toolVars

CallType ==
  /\ call \in [status : Results \cup {"absent", "running"}, request : Requests \cup {NoOne},
               by : Executors \cup {NoOne}, leased : BOOLEAN]
  /\ effects \in {0, 1}
  /\ exec \in [Executors -> Working \cup {"idle", "answered", "raised"}]
  /\ asked \in [Executors -> Requests \cup {NoOne}]
  /\ beat \in [Executors -> {"on", "off", "failed"}]
  /\ output \in [Executors -> Results \cup {"none"}]
  /\ given \subseteq Results

\* A result that claims success, in the row or in the hands of an executor about to
\* record it, follows the effect.
SuccessIsReal ==
  /\ call.status = "completed" => effects = 1
  /\ \A e \in Executors :
       exec[e] = "done" => output[e] \in Results /\ (output[e] = "completed" => effects = 1)

JournalInv == CallType /\ SuccessIsReal

\* The result of the call, as CallOnce sees it, and the steps CallOnce allows.
Answer   == IF Settled THEN call.status ELSE "none"
OnceStep == [Once!Next]_(Once!callVars)

\* No call has been made.
LEMMA JournalInitially ==
  ASSUME ToolJournalInit
  PROVE  JournalInv /\ Once!Init
  BY DEF ToolJournalInit, JournalInv, CallType, SuccessIsReal, Once!Init, Settled, Results, NoCall,
     Working

\* Whoever claims the call finds it without a result.
LEMMA LeaseOK ==
  ASSUME JournalInv, NEW e \in Executors, exec[e] \in {"insert", "takeover"}, ~Settled, Lease(e),
         UNCHANGED <<effects, asked, output, given>>
  PROVE  JournalInv' /\ OnceStep
  <1>1. call' = [call EXCEPT !.by = e, !.leased = TRUE, !.status = "running", !.request = asked[e]]
    BY DEF Lease
  <1>2. /\ call'.status = "running"
        /\ call' \in [status : Results \cup {"absent", "running"}, request : Requests \cup {NoOne},
                      by : Executors \cup {NoOne}, leased : BOOLEAN]
    BY <1>1 DEF JournalInv, CallType
  <1>3. exec' = [exec EXCEPT ![e] = "run"] /\ beat' = [beat EXCEPT ![e] = "on"]
    BY DEF Lease, Goto
  <1>4. CallType'
    BY <1>2, <1>3 DEF JournalInv, CallType, Working
  <1>5. SuccessIsReal'
    BY <1>2, <1>3 DEF JournalInv, CallType, SuccessIsReal
  <1>6. ~Settled'
    BY <1>2 DEF Settled, Results
  <1>7. given' = given
    BY DEF Lease
  <1> QED
    BY <1>4, <1>5, <1>6 DEF JournalInv, OnceStep, Once!callVars

\* Steps of an executor that leave the row, the effects and the answers alone.
LEMMA QuietOK ==
  ASSUME JournalInv, UNCHANGED <<call, effects, given>>,
         asked' \in [Executors -> Requests \cup {NoOne}],
         beat' \in [Executors -> {"on", "off", "failed"}], UNCHANGED output,
         NEW e \in Executors,
         NEW where \in (Working \ {"done"}) \cup {"idle", "answered", "raised"},
         exec' \in {exec, [exec EXCEPT ![e] = where]}
  PROVE  JournalInv' /\ OnceStep
  <1>1. exec' \in [Executors -> Working \cup {"idle", "answered", "raised"}]
    BY DEF JournalInv, CallType
  <1>2. \A x \in Executors : exec'[x] = "done" => exec[x] = "done"
    BY DEF JournalInv, CallType
  <1> QED
    BY <1>1, <1>2 DEF JournalInv, CallType, SuccessIsReal, Settled, OnceStep, Once!callVars

\* What a tool does under the key of its call is done once.
LEMMA PerformOK ==
  ASSUME JournalInv, NEW e \in Executors, Perform(e)
  PROVE  JournalInv' /\ OnceStep
  <1>1. PICK out \in Results : Effect(e, out) /\ output' = [output EXCEPT ![e] = out]
    BY DEF Perform
  <1>2. /\ effects' \in {0, 1}
        /\ effects' = effects \/ (effects = 0 /\ effects' = 1)
        /\ out = "completed" => effects' = 1
    BY <1>1 DEF Effect, KeyPerCall, JournalInv, CallType
  <1>3. /\ exec' = [exec EXCEPT ![e] = IF beat[e] = "failed" THEN "raised" ELSE "done"]
        /\ beat' = [beat EXCEPT ![e] = "off"] /\ UNCHANGED <<call, asked, given>>
    BY DEF Perform, Goto
  <1>4. CallType'
    BY <1>1, <1>2, <1>3 DEF JournalInv, CallType, Working
  <1>5. SuccessIsReal'
    BY <1>1, <1>2, <1>3 DEF JournalInv, CallType, SuccessIsReal
  <1>6. UNCHANGED Answer
    BY <1>3 DEF Answer, Settled
  <1>7. OnceStep
    BY <1>2, <1>3, <1>6 DEF OnceStep, Answer, Once!Next, Once!TakeEffect, Once!callVars
  <1> QED
    BY <1>4, <1>5, <1>7 DEF JournalInv

\* The end of an execution: who holds the call settles it, everyone else gets the
\* result there is or an error.
LEMMA FinishOK ==
  ASSUME JournalInv, NEW e \in Executors, Finish(e)
  PROVE  JournalInv' /\ OnceStep
  <1>0. exec[e] = "done" /\ UNCHANGED <<effects, asked, beat, output>>
    BY DEF Finish
  <1>1. CASE Settled /\ Goto(e, "answered") /\ given' = given \cup {call.status} /\ UNCHANGED call
    <2>1. JournalInv'
      BY <1>0, <1>1 DEF Goto, JournalInv, CallType, SuccessIsReal, Settled, Results
    <2>2. Once!Give
      BY <1>0, <1>1 DEF Once!Give, Settled, Results
    <2> QED
      BY <2>1, <2>2 DEF OnceStep, Once!Next
  <1>2. CASE /\ HoldsCall(e) /\ Goto(e, "answered") /\ given' = given \cup {output[e]}
             /\ call' = [call EXCEPT !.status = output[e], !.by = NoOne, !.leased = FALSE]
    <2>1. output[e] \in Results /\ (output[e] = "completed" => effects = 1)
      BY <1>0 DEF JournalInv, SuccessIsReal
    <2>2. /\ call'.status = output[e]
          /\ call' \in [status : Results \cup {"absent", "running"}, request : Requests \cup {NoOne},
                        by : Executors \cup {NoOne}, leased : BOOLEAN]
      BY <1>2, <2>1 DEF JournalInv, CallType
    <2>3. exec' = [exec EXCEPT ![e] = "answered"] /\ given' = given \cup {output[e]}
      BY <1>2 DEF Goto
    <2>4. CallType'
      BY <1>0, <2>1, <2>2, <2>3 DEF JournalInv, CallType
    <2>5. SuccessIsReal'
      BY <1>0, <2>1, <2>2, <2>3 DEF JournalInv, CallType, SuccessIsReal
    <2>6. ~Settled /\ Settled' /\ call.status = "running"
      BY <1>2, <2>1, <2>2 DEF HoldsCall, Settled, Results
    <2>7. Once!Settle(output[e])
      BY <1>0, <2>1, <2>2, <2>3, <2>6 DEF Once!Settle
    <2> QED
      BY <2>1, <2>4, <2>5, <2>7 DEF JournalInv, OnceStep, Once!Next
  <1>3. CASE ~Settled /\ ~HoldsCall(e) /\ Goto(e, "raised") /\ UNCHANGED <<call, given>>
    <2>1. JournalInv'
      BY <1>0, <1>3 DEF Goto, JournalInv, CallType, SuccessIsReal, Settled
    <2> QED
      BY <1>0, <1>3, <2>1 DEF OnceStep, Once!callVars, Settled
  <1> QED
    BY <1>1, <1>2, <1>3 DEF Finish

\* A row that keeps its result and its answers shows nothing.
LEMMA RowOnlyOK ==
  ASSUME JournalInv, NEW lease \in BOOLEAN, call' = [call EXCEPT !.leased = lease],
         UNCHANGED <<effects, exec, asked, beat, output, given>>
  PROVE  JournalInv' /\ OnceStep
  <1>1. /\ call'.status = call.status
        /\ call' \in [status : Results \cup {"absent", "running"}, request : Requests \cup {NoOne},
                      by : Executors \cup {NoOne}, leased : BOOLEAN]
    BY DEF JournalInv, CallType
  <1> QED
    BY <1>1 DEF JournalInv, CallType, SuccessIsReal, Settled, OnceStep, Once!callVars

\* Every step of the journal keeps the invariant and is one of CallOnce, or does not show.
LEMMA JournalStep ==
  ASSUME JournalInv, [ToolJournalNext]_toolVars
  PROVE  JournalInv' /\ OnceStep
  <1>t. CallType
    BY DEF JournalInv
  <1>1. ASSUME NEW e \in Executors, NEW r \in Requests, Execute(e, r)
        PROVE  JournalInv' /\ OnceStep
    <2>1. /\ exec' = [exec EXCEPT ![e] = "start"] /\ asked' = [asked EXCEPT ![e] = r]
          /\ UNCHANGED <<call, effects, beat, output, given>>
      BY <1>1 DEF Execute, Goto
    <2>2. asked' \in [Executors -> Requests \cup {NoOne}] /\ beat' \in [Executors -> {"on", "off", "failed"}]
      BY <1>t, <2>1 DEF CallType
    <2> QED
      BY <2>1, <2>2, QuietOK DEF Working
  <1>2. ASSUME NEW e \in Executors, Look(e)
        PROVE  JournalInv' /\ OnceStep
    <2>1. UNCHANGED <<call, effects, asked, beat, output>>
      BY <1>2 DEF Look
    <2>2. CASE Settled /\ Goto(e, "answered") /\ given' = given \cup {call.status}
      <3>1. JournalInv'
        BY <1>t, <2>1, <2>2 DEF Goto, JournalInv, CallType, SuccessIsReal, Settled, Results
      <3>2. Once!Give
        BY <2>1, <2>2 DEF Once!Give, Settled, Results
      <3> QED
        BY <3>1, <3>2 DEF OnceStep, Once!Next
    <2>3. CASE given' = given /\ \E where \in {"insert", "raised", "takeover"} : Goto(e, where)
      BY <1>t, <2>1, <2>3, QuietOK DEF Goto, Working, CallType
    <2> QED
      BY <1>2, <2>2, <2>3 DEF Look
  <1>3. ASSUME NEW e \in Executors, Insert(e) \/ TakeOver(e)
        PROVE  JournalInv' /\ OnceStep
    <2>1. UNCHANGED <<effects, asked, output, given>> /\ exec[e] \in {"insert", "takeover"}
      BY <1>3 DEF Insert, TakeOver
    <2>2. CASE Lease(e) /\ call.status \in {"absent", "running"}
      BY <2>1, <2>2, LeaseOK DEF Settled, Results
    <2>3. CASE Goto(e, "start") /\ UNCHANGED <<call, beat>>
      BY <1>t, <2>1, <2>3, QuietOK DEF Goto, Working, CallType
    <2> QED
      BY <1>3, <2>2, <2>3 DEF Insert, TakeOver
  <1>4. ASSUME NEW e \in Executors, Renew(e)
        PROVE  JournalInv' /\ OnceStep
    <2>1. UNCHANGED <<effects, exec, asked, output, given>>
      BY <1>4 DEF Renew
    <2>2. CASE call' = [call EXCEPT !.leased = TRUE] /\ UNCHANGED beat
      BY <2>1, <2>2, RowOnlyOK
    <2>3. CASE beat' = [beat EXCEPT ![e] = "off"] /\ UNCHANGED call
      <3>1. beat' \in [Executors -> {"on", "off", "failed"}]
        BY <1>t, <2>3 DEF CallType
      <3>2. asked' \in [Executors -> Requests \cup {NoOne}]
        BY <1>t, <2>1 DEF CallType
      <3> QED
        BY <2>1, <2>3, <3>1, <3>2, QuietOK
    <2> QED
      BY <1>4, <2>2, <2>3 DEF Renew
  <1>5. ASSUME NEW e \in Executors, BeatFails(e) \/ Break(e)
        PROVE  JournalInv' /\ OnceStep
    <2>1. /\ UNCHANGED <<call, effects, asked, output, given>>
          /\ exec' \in {exec, [exec EXCEPT ![e] = "raised"]}
      BY <1>5 DEF BeatFails, Break, Goto
    <2>2. beat' \in [Executors -> {"on", "off", "failed"}] /\ asked' \in [Executors -> Requests \cup {NoOne}]
      BY <1>t, <1>5, <2>1 DEF BeatFails, Break, CallType
    <2> QED
      BY <2>1, <2>2, QuietOK
  <1>6. ASSUME LeaseLapses
        PROVE  JournalInv' /\ OnceStep
    BY <1>6, RowOnlyOK DEF LeaseLapses, runVars
  <1>7. ASSUME LeaveConversation \/ UNCHANGED toolVars
        PROVE  JournalInv' /\ OnceStep
    <2>1. UNCHANGED <<call, effects, exec, asked, beat, output, given>>
      BY <1>7 DEF LeaveConversation, runVars, toolVars
    <2> QED
      BY <2>1 DEF JournalInv, CallType, SuccessIsReal, Settled, OnceStep, Once!callVars
  <1> QED
    BY <1>1, <1>2, <1>3, <1>4, <1>5, <1>6, <1>7, PerformOK, FinishOK DEF ToolJournalNext

\* _start_tool_call, _renew_tool_call_lease and _finish_tool_call together: a call takes
\* effect once and has one result, however executors are suspended, die or take over.
THEOREM CallsOnce == ToolJournalSpec => CallsTakeEffectOnce
  <1>1. ToolJournalSpec => Once!Init /\ [][OnceStep]_(Once!callVars)
    <2>1. OnceStep => [OnceStep]_(Once!callVars)
      OBVIOUS
    <2> QED
      BY JournalInitially, JournalStep, <2>1, PTL DEF ToolJournalSpec
  <1>2. [OnceStep]_(Once!callVars) => [Once!Next]_(Once!callVars)
    BY DEF OnceStep
  <1> QED
    BY <1>1, <1>2, PTL DEF CallsTakeEffectOnce, Once!Spec

\* The journal's row, leases and results keep their shape.
THEOREM JournalTypes == ToolJournalSpec => []ToolJournalTypeOK
  <1>1. JournalInv => ToolJournalTypeOK
    BY DEF JournalInv, CallType, ToolJournalTypeOK
  <1> QED
    BY JournalInitially, JournalStep, <1>1, PTL DEF ToolJournalSpec

-----------------------------------------------------------------------------
(***************************************************************************)
(* Memory.                                                                 *)
(***************************************************************************)
MemoryJobsSpec == MemoryJobsInit /\ [][MemoryJobsNext]_memoryVars

JobRows == [status : {"none", "gone", "pending", "processing", "processed", "failed", "skipped"},
            attempts : Nat, lapsed : BOOLEAN]
FactRows == [status : Rows \cup {"absent", "forgotten"}, claim : Claims \cup {NoClaim},
             current : BOOLEAN]
Ops == [action : {"none", "add", "reinforce", "supersede"}, target : Facts \cup {NoFact},
        claim : Claims \cup {NoClaim}]
MemoryWorkers ==
  [at : {"idle", "load", "persist", "commit", "finish", "retry"}, job : Jobs \cup {NoJob},
   op : Ops, keep : BOOLEAN, row : Facts \cup {NoFact},
   outcome : {"none", "skipped", "processed", "duplicate"}]

MemoryType ==
  /\ user \in BOOLEAN
  /\ job \in [Jobs -> JobRows]
  /\ episode \in [Jobs -> {"none", "retrievable", "kept", "forgotten"}]
  /\ fact \in [Facts -> FactRows]
  /\ worker \in [Workers -> MemoryWorkers]

\* What a worker knows of its job: a job it will call processed has its episode, or has
\* gone with the user.
MemoryWorkerOK(w) ==
  /\ worker[w].at # "idle" => worker[w].job \in Jobs /\ job[worker[w].job].status # "none"
  /\ worker[w].at = "finish" => worker[w].outcome \in {"skipped", "processed"}
  /\ worker[w].at = "finish" /\ worker[w].outcome = "processed" /\ Exists(worker[w].job)
       => episode[worker[w].job] # "none"

MemoryInv ==
  /\ MemoryType
  /\ \A w \in Workers : MemoryWorkerOK(w)
  /\ \A j \in Jobs : job[j].status = "processed" => episode[j] # "none"
  /\ ~user => /\ \A f \in Facts : fact[f].status = "absent"
              /\ \A j \in Jobs : episode[j] = "none" /\ ~Exists(j)

\* Nothing is remembered at first.
LEMMA MemoryInitially ==
  ASSUME MemoryJobsInit
  PROVE  MemoryInv
  <1>1. Idle \in MemoryWorkers
    BY DEF Idle, MemoryWorkers, NoOp, Ops
  <1>2. NoRow \in FactRows
    BY DEF NoRow, FactRows
  <1>3. MemoryType
    BY <1>1, <1>2 DEF MemoryJobsInit, MemoryType, JobRows
  <1>4. \A w \in Workers : MemoryWorkerOK(w)
    BY DEF MemoryJobsInit, MemoryWorkerOK, Idle
  <1> QED
    BY <1>3, <1>4 DEF MemoryJobsInit, MemoryInv

\* What a step may do to the facts and the episodes: learn from a turn that was not
\* consolidated, or make nothing known.
Learns ==
  \E j \in Jobs : episode[j] = "none" /\ episode'[j] # "none"

MakesNothingKnown ==
  \A f \in Facts : fact'[f].status \in Rows /\ fact'[f].current
    => fact[f] = fact'[f]

\* Steps that leave what is stored alone, and move a worker on with its job.
LEMMA MoveWorker ==
  ASSUME MemoryInv, UNCHANGED storedVars, NEW w \in Workers, NEW r \in MemoryWorkers,
         worker' = [worker EXCEPT ![w] = r],
         r.at # "idle" => r.job \in Jobs /\ job'[r.job].status # "none",
         r.at = "finish" => r.outcome \in {"skipped", "processed"},
         r.at = "finish" /\ r.outcome = "processed" => episode[r.job] # "none",
         job' \in [Jobs -> JobRows],
         \A j \in Jobs : job[j].status # "none" =>
                          job'[j].status # "none" /\ (Exists(j)' => Exists(j)),
         ~user => \A j \in Jobs : ~Exists(j)',
         \A j \in Jobs : job'[j].status = "processed" => episode[j] # "none"
  PROVE  MemoryInv' /\ MakesNothingKnown
  <1>1. MemoryType'
    BY DEF storedVars, MemoryInv, MemoryType
  <1>2. ASSUME NEW v \in Workers
        PROVE  MemoryWorkerOK(v)'
    <2>1. CASE v = w
      <3>1. worker'[v] = r
        BY <2>1 DEF MemoryInv, MemoryType
      <3> QED
        BY <2>1, <3>1 DEF storedVars, MemoryInv, MemoryWorkerOK
    <2>2. CASE v # w
      <3>1. worker'[v] = worker[v] /\ MemoryWorkerOK(v)
        BY <2>2 DEF MemoryInv, MemoryType
      <3>2. worker[v].at # "idle" => (Exists(worker[v].job)' => Exists(worker[v].job))
        <4>1. Exists(worker[v].job)' = (job'[worker'[v].job].status \notin {"none", "gone"})
          BY DEF Exists
        <4> QED
          BY <3>1, <4>1 DEF MemoryWorkerOK, Exists
      <3>3. worker[v].at # "idle" => job'[worker[v].job].status # "none"
        BY <3>1 DEF MemoryWorkerOK
      <3> QED
        BY <3>1, <3>2, <3>3 DEF storedVars, MemoryWorkerOK
    <2> QED
      BY <2>1, <2>2
  <1>3. ~user' => /\ \A f \in Facts : fact'[f].status = "absent"
                  /\ \A j \in Jobs : episode'[j] = "none" /\ ~Exists(j)'
    BY DEF storedVars, MemoryInv
  <1>4. \A j \in Jobs : job'[j].status = "processed" => episode'[j] # "none"
    BY DEF storedVars
  <1> QED
    BY <1>1, <1>2, <1>3, <1>4 DEF MemoryInv, MakesNothingKnown, storedVars

\* Changes to the jobs alone leave the workers with theirs.
LEMMA JobsOnlyOK ==
  ASSUME MemoryInv, UNCHANGED <<storedVars, worker>>, NEW j \in Jobs, NEW r \in JobRows,
         job' = [job EXCEPT ![j] = r], r.status # "processed", r.status # "none",
         user \/ r.status = "gone",
         r.status # "gone" => job[j].status # "gone"
  PROVE  MemoryInv' /\ MakesNothingKnown
  <1>1. /\ job' \in [Jobs -> JobRows] /\ job'[j] = r
        /\ \A k \in Jobs \ {j} : job'[k] = job[k]
    BY DEF MemoryInv, MemoryType
  <1>2. MemoryType'
    BY <1>1 DEF storedVars, MemoryInv, MemoryType
  <1>3. ASSUME NEW v \in Workers
        PROVE  MemoryWorkerOK(v)'
    <2>1. MemoryWorkerOK(v) /\ worker'[v] = worker[v]
      BY DEF MemoryInv
    <2> DEFINE k == worker[v].job
    <2>2. k \in Jobs /\ job[k].status # "none" =>
            job'[k].status # "none" /\ (job'[k].status # "gone" => job[k].status # "gone")
      BY <1>1
    <2> QED
      BY <2>1, <2>2 DEF MemoryWorkerOK, Exists, storedVars
  <1>4. ~user' => /\ \A f \in Facts : fact'[f].status = "absent"
                  /\ \A k \in Jobs : episode'[k] = "none" /\ ~Exists(k)'
    BY <1>1 DEF storedVars, MemoryInv, Exists
  <1> QED
    BY <1>1, <1>2, <1>3, <1>4 DEF storedVars, MemoryInv, MakesNothingKnown

\* The transaction of a consolidation stores the episode with whatever it states.
LEMMA CommitPersistOK ==
  ASSUME MemoryInv, NEW w \in Workers, CommitPersist(w)
  PROVE  MemoryInv' /\ Learns
  <1> DEFINE v == worker[w]
  <1>1. /\ v.at = "commit" /\ user /\ Exists(v.job) /\ episode[v.job] = "none"
        /\ UNCHANGED <<user, job, chat>>
    BY DEF CommitPersist, CanCommit, NotStored
  <1>2. /\ v \in MemoryWorkers /\ v.job \in Jobs /\ job[v.job].status # "none"
    BY <1>1 DEF MemoryInv, MemoryType, MemoryWorkerOK
  <1>3. /\ episode' \in [Jobs -> {"none", "retrievable", "kept", "forgotten"}]
        /\ episode'[v.job] # "none"
        /\ \A j \in Jobs : episode[j] # "none" => episode'[j] # "none"
    BY <1>2 DEF CommitPersist, MemoryInv, MemoryType
  <1>4. fact' \in [Facts -> FactRows]
    <2>1. CASE UNCHANGED fact
      BY <2>1 DEF MemoryInv, MemoryType
    <2>2. CASE \E f \in Facts, later \in BOOLEAN :
                 NewFact(v, f, TRUE, v.op.action = "supersede" /\ later)
      <3>1. PICK f \in Facts, later \in BOOLEAN :
                 NewFact(v, f, TRUE, v.op.action = "supersede" /\ later)
        BY <2>2
      <3>2. PICK still \in BOOLEAN : still = (v.op.action = "supersede" /\ later)
        OBVIOUS
      <3>3. fact' = [g \in Facts |->
                IF g = f THEN [status |-> "active", claim |-> v.op.claim, current |-> TRUE]
                ELSE IF g = v.row THEN [fact[g] EXCEPT !.status = "superseded", !.current = still]
                ELSE fact[g]]
        BY <3>1, <3>2 DEF NewFact
      <3>4. [status |-> "active", claim |-> v.op.claim, current |-> TRUE] \in FactRows
        BY <1>2 DEF FactRows, MemoryWorkers, Ops, Rows
      <3>5. \A g \in Facts : /\ fact[g] \in FactRows
                             /\ [fact[g] EXCEPT !.status = "superseded", !.current = still] \in FactRows
        BY DEF MemoryInv, MemoryType, FactRows, Rows
      <3> QED
        BY <3>3, <3>4, <3>5
    <2> QED
      BY <2>1, <2>2 DEF CommitPersist
  <1> DEFINE r == [Idle EXCEPT !.at = "finish", !.job = v.job, !.outcome = "processed"]
  <1>5. /\ worker' = [worker EXCEPT ![w] = r] /\ r \in MemoryWorkers
        /\ r.job = v.job /\ r.outcome = "processed"
    BY <1>2 DEF CommitPersist, Idle, MemoryWorkers, NoOp, Ops
  <1>6. MemoryType'
    BY <1>1, <1>3, <1>4, <1>5 DEF MemoryInv, MemoryType
  <1>7. ASSUME NEW x \in Workers
        PROVE  MemoryWorkerOK(x)'
    <2> HIDE DEF r
    <2>1. CASE x = w
      <3>1. worker'[x] = r
        BY <1>5, <2>1 DEF MemoryInv, MemoryType
      <3>2. worker'[x].job = v.job /\ worker'[x].outcome = "processed"
        BY <1>5, <3>1
      <3> QED
        BY <1>1, <1>2, <1>3, <3>2 DEF MemoryWorkerOK
    <2>2. CASE x # w
      <3>1. worker'[x] = worker[x] /\ MemoryWorkerOK(x)
        BY <1>5, <2>2 DEF MemoryInv, MemoryType
      <3> QED
        BY <1>1, <1>3, <3>1 DEF MemoryWorkerOK, Exists
    <2> QED
      BY <2>1, <2>2
  <1> QED
    BY <1>1, <1>2, <1>3, <1>6, <1>7 DEF MemoryInv, Learns

\* Forgetting blanks what there is, and states nothing.
LEMMA CommitForgetOK ==
  ASSUME MemoryInv, CommitForget
  PROVE  MemoryInv' /\ MakesNothingKnown
  <1>1. /\ episode' \in [Jobs -> {"none", "retrievable", "kept", "forgotten"}]
        /\ \A j \in Jobs : (episode'[j] = "none") <=> (episode[j] = "none")
        /\ UNCHANGED <<user, job, worker>>
    BY DEF CommitForget, MemoryInv, MemoryType
  <1>2. [NoRow EXCEPT !.status = "forgotten"] \in FactRows
    BY DEF NoRow, FactRows
  <1>3. \A f \in Facts : \/ fact'[f] = fact[f]
                         \/ fact[f].status \in Rows /\ fact'[f] = [NoRow EXCEPT !.status = "forgotten"]
    <2>1. ASSUME NEW r \in FactRows,
                 fact' = [f \in Facts |-> IF f \in chat.rows /\ fact[f].status \in Rows
                                          THEN r ELSE fact[f]]
          PROVE  \A f \in Facts : \/ fact'[f] = fact[f]
                                  \/ fact[f].status \in Rows /\ fact'[f] = r
      <3> TAKE f \in Facts
      <3>1. fact'[f] = IF f \in chat.rows /\ fact[f].status \in Rows THEN r ELSE fact[f]
        BY <2>1
      <3> QED
        BY <3>1
    <2> QED
      BY <1>2, <2>1 DEF CommitForget
  <1>4. fact' \in [Facts -> FactRows]
    BY <1>2 DEF CommitForget, MemoryInv, MemoryType
  <1>5. [NoRow EXCEPT !.status = "forgotten"].status = "forgotten"
    BY DEF NoRow
  <1>6. MakesNothingKnown
    BY <1>3, <1>5 DEF MakesNothingKnown, Rows
  <1>7. MemoryType'
    BY <1>1, <1>4 DEF MemoryInv, MemoryType
  <1>8. \A v \in Workers : MemoryWorkerOK(v)'
    BY <1>1 DEF MemoryInv, MemoryWorkerOK, Exists
  <1>9. ~user' => \A f \in Facts : fact'[f].status = "absent"
    BY <1>1, <1>3 DEF MemoryInv, Rows
  <1> QED
    BY <1>1, <1>6, <1>7, <1>8, <1>9 DEF MemoryInv, Exists

\* The cascade leaves nothing; a job a worker still has is gone.
LEMMA EraseUserOK ==
  ASSUME MemoryInv, EraseUser
  PROVE  MemoryInv' /\ MakesNothingKnown
  <1>1. /\ user' = FALSE /\ episode' = [j \in Jobs |-> "none"] /\ fact' = [f \in Facts |-> NoRow]
        /\ worker' = worker
    BY DEF EraseUser
  <1>2. NoRow \in FactRows /\ NoRow.status = "absent"
    BY DEF NoRow, FactRows
  <1>3. ASSUME NEW j \in Jobs
        PROVE  /\ job'[j] \in JobRows /\ ~Exists(j)' /\ job'[j].status # "processed"
               /\ job[j].status # "none" => job'[j].status # "none"
    <2>1. job[j] \in JobRows
      BY DEF MemoryInv, MemoryType
    <2>2. CASE Exists(j)
      <3>1. job'[j] = [job[j] EXCEPT !.status = "gone"]
        BY <2>2 DEF EraseUser
      <3> QED
        BY <2>1, <3>1 DEF JobRows, Exists
    <2>3. CASE ~Exists(j)
      <3>1. job'[j] = [job[j] EXCEPT !.status = job[j].status]
        BY <2>3 DEF EraseUser
      <3>2. job'[j] = job[j]
        BY <2>1, <3>1 DEF JobRows
      <3> QED
        BY <2>1, <2>3, <3>2 DEF Exists
    <2> QED
      BY <2>2, <2>3
  <1>4. job' \in [Jobs -> JobRows]
    BY <1>3 DEF EraseUser
  <1>5. MemoryType'
    BY <1>1, <1>2, <1>4 DEF MemoryInv, MemoryType
  <1>6. ASSUME NEW v \in Workers
        PROVE  MemoryWorkerOK(v)'
    <2>1. MemoryWorkerOK(v) /\ worker'[v] = worker[v]
      BY <1>1 DEF MemoryInv
    <2>2. worker[v].job \in Jobs => job'[worker'[v].job].status \in {"none", "gone"}
      BY <1>3, <2>1 DEF Exists
    <2> QED
      BY <1>3, <2>1, <2>2 DEF MemoryWorkerOK, Exists
  <1> QED
    BY <1>1, <1>2, <1>3, <1>5, <1>6 DEF MemoryInv, MakesNothingKnown, Rows

\* A worker's steps outside its transaction.
LEMMA MoveOK ==
  ASSUME MemoryInv, NEW w \in Workers,
         \/ \E j \in Jobs : ClaimJob(w, j)
         \/ \E op \in Operations \cup {NoOp}, keep \in BOOLEAN : BeginPersist(w, op, keep)
         \/ LoadInput(w) \/ Raise(w) \/ WorkerDies(w)
  PROVE  MemoryInv' /\ MakesNothingKnown
  <1>0. worker[w] \in MemoryWorkers /\ MemoryWorkerOK(w) /\ UNCHANGED storedVars
    BY DEF MemoryInv, MemoryType, ClaimJob, BeginPersist, LoadInput, Raise, WorkerDies
  <1>i. Idle \in MemoryWorkers /\ Idle.at = "idle"
    BY DEF Idle, MemoryWorkers, NoOp, Ops
  <1>s. ~user => \A j \in Jobs : ~Exists(j)
    BY DEF MemoryInv
  <1>m. ASSUME NEW r \in MemoryWorkers, worker' = [worker EXCEPT ![w] = r], UNCHANGED job,
               r.at # "idle" => r.job = worker[w].job /\ worker[w].at # "idle",
               r.at = "finish" => r.outcome \in {"skipped", "processed"},
               r.at = "finish" /\ r.outcome = "processed" => episode[r.job] # "none"
        PROVE  MemoryInv' /\ MakesNothingKnown
    <2>1. /\ job' \in [Jobs -> JobRows]
          /\ \A j \in Jobs : job[j].status # "none" =>
               job'[j].status # "none" /\ (Exists(j)' => Exists(j))
          /\ ~user => \A j \in Jobs : ~Exists(j)'
          /\ \A j \in Jobs : job'[j].status = "processed" => episode[j] # "none"
      BY <1>m, <1>s DEF MemoryInv, MemoryType, Exists
    <2>2. r.at # "idle" => r.job \in Jobs /\ job'[r.job].status # "none"
      BY <1>0, <1>m DEF MemoryWorkerOK
    <2> QED
      BY <1>0, <1>m, <2>1, <2>2, MoveWorker
  <1>1. ASSUME NEW j \in Jobs, ClaimJob(w, j)
        PROVE  MemoryInv' /\ MakesNothingKnown
    <2> DEFINE r == [worker[w] EXCEPT !.at = "load", !.job = j]
    <2> DEFINE row == [status |-> "processing", attempts |-> job[j].attempts + 1, lapsed |-> FALSE]
    <2>1. /\ r \in MemoryWorkers /\ r.job = j /\ r.at = "load"
          /\ worker' = [worker EXCEPT ![w] = r]
      BY <1>0, <1>1 DEF ClaimJob, MemoryWorkers, MemoryInv, MemoryType
    <2>2. job[j] \in JobRows /\ Exists(j) /\ job' = [job EXCEPT ![j] = row]
      BY <1>1 DEF ClaimJob, Eligible, Exists, MemoryInv, MemoryType
    <2>3. row \in JobRows /\ row.status = "processing"
      BY <2>2 DEF JobRows
    <2> HIDE DEF r, row
    <2>4. job' \in [Jobs -> JobRows] /\ job'[j] = row /\ \A k \in Jobs \ {j} : job'[k] = job[k]
      BY <2>2, <2>3 DEF MemoryInv, MemoryType
    <2>5. /\ \A k \in Jobs : job[k].status # "none" =>
               job'[k].status # "none" /\ (Exists(k)' => Exists(k))
          /\ ~user => \A k \in Jobs : ~Exists(k)'
          /\ \A k \in Jobs : job'[k].status = "processed" => episode[k] # "none"
      BY <1>s, <2>2, <2>3, <2>4 DEF MemoryInv, Exists
    <2> QED
      BY <1>0, <2>1, <2>3, <2>4, <2>5, MoveWorker
  <1>2. ASSUME LoadInput(w)
        PROVE  MemoryInv' /\ MakesNothingKnown
    <2>1. worker[w].at = "load" /\ UNCHANGED job
      BY <1>2 DEF LoadInput
    <2>2. CASE worker' = [worker EXCEPT ![w].at = "persist"]
      <3> DEFINE r == [worker[w] EXCEPT !.at = "persist"]
      <3>1. r \in MemoryWorkers /\ r.job = worker[w].job /\ r.at = "persist"
        BY <1>0 DEF MemoryWorkers
      <3>2. worker' = [worker EXCEPT ![w] = r]
        BY <2>2 DEF MemoryInv, MemoryType
      <3> HIDE DEF r
      <3> QED
        BY <1>m, <2>1, <3>1, <3>2
    <2>3. CASE worker' = [worker EXCEPT ![w].at = "finish", ![w].outcome = "skipped"]
      <3> DEFINE r == [worker[w] EXCEPT !.at = "finish", !.outcome = "skipped"]
      <3>1. r \in MemoryWorkers /\ r.job = worker[w].job /\ r.outcome = "skipped"
        BY <1>0 DEF MemoryWorkers
      <3>2. worker' = [worker EXCEPT ![w] = r]
        BY <2>3 DEF MemoryInv, MemoryType
      <3> HIDE DEF r
      <3> QED
        BY <1>m, <2>1, <3>1, <3>2
    <2> QED
      BY <1>2, <2>2, <2>3 DEF LoadInput
  <1>3. ASSUME Raise(w) \/ WorkerDies(w)
        PROVE  MemoryInv' /\ MakesNothingKnown
    <2> DEFINE r == [Idle EXCEPT !.at = "retry", !.job = worker[w].job]
    <2>1. r \in MemoryWorkers /\ r.job = worker[w].job /\ r.at = "retry"
      BY <1>0, <1>i DEF MemoryWorkers, Idle
    <2>2. /\ worker' = [worker EXCEPT ![w] = r] \/ worker' = [worker EXCEPT ![w] = Idle]
          /\ worker[w].at # "idle" /\ UNCHANGED job
      BY <1>3 DEF Raise, WorkerDies
    <2> HIDE DEF r
    <2> QED
      BY <1>i, <1>m, <2>1, <2>2
  <1>4. ASSUME NEW op \in Operations \cup {NoOp}, NEW keep \in BOOLEAN, BeginPersist(w, op, keep)
        PROVE  MemoryInv' /\ MakesNothingKnown
    <2>1. worker[w].at = "persist" /\ UNCHANGED job
      BY <1>4 DEF BeginPersist
    <2>2. CASE \E f \in RowFor(op) :
                worker' = [worker EXCEPT ![w].at = "commit", ![w].op = op, ![w].keep = keep,
                             ![w].row = f,
                             ![w].outcome = IF f \in Duplicates(op.claim) THEN "duplicate"
                                            ELSE "none"]
      <3>1. PICK f \in RowFor(op), said \in {"duplicate", "none"} :
                worker' = [worker EXCEPT ![w].at = "commit", ![w].op = op, ![w].keep = keep,
                             ![w].row = f, ![w].outcome = said]
        BY <2>2
      <3>2. op \in Ops
        BY MemoryJobsAssumption DEF Ops, NoOp
      <3>3. f \in Facts \cup {NoFact}
        BY <3>2 DEF RowFor, Duplicates, Ops
      <3> DEFINE r == [worker[w] EXCEPT !.at = "commit", !.op = op, !.keep = keep, !.row = f,
                                        !.outcome = said]
      <3>4. r \in MemoryWorkers /\ r.job = worker[w].job /\ r.at = "commit"
        BY <1>0, <3>2, <3>3 DEF MemoryWorkers
      <3>5. worker' = [worker EXCEPT ![w] = r]
        BY <3>1 DEF MemoryInv, MemoryType
      <3> HIDE DEF r
      <3> QED
        BY <1>m, <2>1, <3>4, <3>5
    <2>3. ASSUME NEW said \in {"skipped", "processed"},
                 worker' = [worker EXCEPT ![w].at = "finish", ![w].outcome = said],
                 said = "processed" => ~NotStored(worker[w].job)
          PROVE  MemoryInv' /\ MakesNothingKnown
      <3> DEFINE r == [worker[w] EXCEPT !.at = "finish", !.outcome = said]
      <3>1. r \in MemoryWorkers /\ r.job = worker[w].job /\ r.outcome = said
        BY <1>0 DEF MemoryWorkers
      <3>2. worker' = [worker EXCEPT ![w] = r]
        BY <2>3 DEF MemoryInv, MemoryType
      <3> HIDE DEF r
      <3> QED
        BY <1>m, <2>1, <2>3, <3>1, <3>2 DEF NotStored
    <2> QED
      BY <1>4, <2>2, <2>3 DEF BeginPersist
  <1> QED
    BY <1>1, <1>2, <1>3, <1>4

\* The last write of a worker says what it knows of a job that is still there.
LEMMA SettleOK ==
  ASSUME MemoryInv, NEW w \in Workers, FinishJob(w) \/ RetryJob(w)
  PROVE  MemoryInv' /\ MakesNothingKnown
  <1> DEFINE j == worker[w].job
  <1>1. /\ worker[w] \in MemoryWorkers /\ MemoryWorkerOK(w) /\ UNCHANGED storedVars
        /\ worker[w].at \in {"finish", "retry"} /\ worker' = [worker EXCEPT ![w] = Idle]
    BY DEF MemoryInv, MemoryType, FinishJob, RetryJob
  <1>2. Idle \in MemoryWorkers /\ Idle.at = "idle"
    BY DEF Idle, MemoryWorkers, NoOp, Ops
  <1>3. j \in Jobs /\ job[j].status # "none"
    BY <1>1 DEF MemoryWorkerOK
  <1>4. PICK status \in {"skipped", "processed", "failed"} :
          /\ SetJob(j, status)
          /\ status = "processed" /\ Exists(j) => episode[j] # "none"
    BY <1>1 DEF MemoryWorkerOK, FinishJob, RetryJob
  <1>5. PICK said \in {"none", "gone", "pending", "processing", "processed", "failed", "skipped"} :
          /\ said = IF Exists(j) THEN status ELSE job[j].status
          /\ job' = [job EXCEPT ![j].status = said, ![j].lapsed = FALSE]
    <2>1. job' = [job EXCEPT ![j].status = IF Exists(j) THEN status ELSE job[j].status,
                             ![j].lapsed = FALSE]
      BY <1>3, <1>4 DEF SetJob, MemoryInv, MemoryType
    <2>2. job[j] \in JobRows
      BY <1>3 DEF MemoryInv, MemoryType
    <2>3. (IF Exists(j) THEN status ELSE job[j].status)
            \in {"none", "gone", "pending", "processing", "processed", "failed", "skipped"}
      BY <2>2 DEF JobRows
    <2> QED
      BY <2>1, <2>3
  <1> DEFINE row == [job[j] EXCEPT !.status = said, !.lapsed = FALSE]
  <1>r. job[j] \in JobRows
    BY <1>3 DEF MemoryInv, MemoryType
  <1>6. row \in JobRows /\ row.status = said /\ job' = [job EXCEPT ![j] = row]
    <2>1. row \in JobRows /\ row.status = said
      BY <1>r DEF JobRows
    <2>2. job' = [job EXCEPT ![j] = row]
      BY <1>3, <1>5 DEF MemoryInv, MemoryType
    <2> QED
      BY <2>1, <2>2
  <1> HIDE DEF row
  <1>7. job' \in [Jobs -> JobRows] /\ job'[j] = row /\ \A k \in Jobs \ {j} : job'[k] = job[k]
    BY <1>3, <1>6 DEF MemoryInv, MemoryType
  <1>8. /\ said # "none"
        /\ said # "gone" => Exists(j)
        /\ said = "processed" => episode[j] # "none"
    BY <1>3, <1>4, <1>5 DEF Exists, MemoryInv
  <1>9. /\ \A k \in Jobs : job[k].status # "none" =>
             job'[k].status # "none" /\ (Exists(k)' => Exists(k))
        /\ ~user => \A k \in Jobs : ~Exists(k)'
        /\ \A k \in Jobs : job'[k].status = "processed" => episode[k] # "none"
    BY <1>6, <1>7, <1>8 DEF MemoryInv, Exists
  <1> QED
    BY <1>1, <1>2, <1>7, <1>9, MoveWorker

\* Every step keeps the invariant, and learns from a new turn or makes nothing known.
LEMMA MemoryStep ==
  ASSUME MemoryInv, [MemoryJobsNext]_memoryVars
  PROVE  MemoryInv' /\ (Learns \/ MakesNothingKnown)
  <1>1. ASSUME NEW j \in Jobs, Enqueue(j)
        PROVE  MemoryInv' /\ MakesNothingKnown
    <2> DEFINE row == [job[j] EXCEPT !.status = "pending"]
    <2>1. user /\ job[j].status = "none" /\ UNCHANGED <<storedVars, worker>> /\ job[j] \in JobRows
      BY <1>1 DEF Enqueue, MemoryInv, MemoryType
    <2>2. row \in JobRows /\ row.status = "pending"
      BY <2>1 DEF JobRows
    <2>3. job' = [job EXCEPT ![j] = row]
      BY <1>1 DEF Enqueue, MemoryInv, MemoryType
    <2> HIDE DEF row
    <2> QED
      BY <2>1, <2>2, <2>3, JobsOnlyOK
  <1>2. ASSUME NEW j \in Jobs, LockLapses(j)
        PROVE  MemoryInv' /\ MakesNothingKnown
    <2> DEFINE row == [job[j] EXCEPT !.lapsed = TRUE]
    <2>1. /\ job[j].status = "processing" /\ UNCHANGED <<storedVars, worker>> /\ job[j] \in JobRows
      BY <1>2 DEF LockLapses, MemoryInv, MemoryType
    <2>2. row \in JobRows /\ row.status = "processing"
      BY <2>1 DEF JobRows
    <2>3. job' = [job EXCEPT ![j] = row]
      BY <1>2 DEF LockLapses, MemoryInv, MemoryType
    <2>4. user
      BY <2>1 DEF MemoryInv, Exists
    <2> HIDE DEF row
    <2> QED
      BY <2>1, <2>2, <2>3, <2>4, JobsOnlyOK
  <1>3. ASSUME NEW f \in Facts, Expire(f)
        PROVE  MemoryInv' /\ MakesNothingKnown
    <2> DEFINE row == [fact[f] EXCEPT !.current = FALSE]
    <2>1. fact' = [fact EXCEPT ![f] = row] /\ UNCHANGED <<user, job, episode, worker>>
      BY <1>3 DEF Expire, MemoryInv, MemoryType
    <2>2. row \in FactRows /\ row.status = fact[f].status /\ row.current = FALSE
      BY DEF MemoryInv, MemoryType, FactRows
    <2> HIDE DEF row
    <2>3. /\ fact' \in [Facts -> FactRows] /\ fact'[f] = row
          /\ \A g \in Facts \ {f} : fact'[g] = fact[g]
      BY <2>1, <2>2 DEF MemoryInv, MemoryType
    <2>4. MemoryType'
      BY <2>1, <2>3 DEF MemoryInv, MemoryType
    <2>5. \A v \in Workers : MemoryWorkerOK(v)'
      BY <2>1 DEF MemoryInv, MemoryWorkerOK, Exists
    <2>6. MakesNothingKnown
      BY <2>2, <2>3 DEF MakesNothingKnown
    <2>7. \A g \in Facts : fact'[g].status = fact[g].status
      BY <2>2, <2>3
    <2> QED
      BY <2>1, <2>4, <2>5, <2>6, <2>7 DEF MemoryInv, Exists
  <1>4. ASSUME UNCHANGED <<storedVars, job, worker>>
        PROVE  MemoryInv' /\ MakesNothingKnown
    BY <1>4 DEF storedVars, MemoryInv, MemoryType, MemoryWorkerOK, Exists, MakesNothingKnown
  <1>5. ASSUME \/ \E chosen \in SUBSET Facts : BeginForget(chosen)
               \/ \E sought \in SUBSET Claims : BeginRecall(sought)
               \/ EndRecall \/ NextTurn \/ UNCHANGED memoryVars
        PROVE  UNCHANGED <<storedVars, job, worker>>
    BY <1>5 DEF BeginForget, BeginRecall, EndRecall, NextTurn, memoryVars, storedVars
  <1> QED
    BY <1>1, <1>2, <1>3, <1>4, <1>5, MoveOK, SettleOK, CommitPersistOK, CommitForgetOK, EraseUserOK
       DEF MemoryJobsNext

\* What the memory workers, the user's turns and the deletion of the user do together:
\* a turn is learned from once, however often its job is retried or taken over; nothing is
\* stored of a user who has gone; and processed means stored.
THEOREM MemoryKept == MemoryJobsSpec => MemoryIsTheUsers
  <1>1. ASSUME MemoryInv, [MemoryJobsNext]_memoryVars
        PROVE  LearnedFromATurnOnce /\ NothingOfTheErased /\ ProcessedMeansStored
    <2>1. MemoryInv' /\ (Learns \/ MakesNothingKnown)
      BY <1>1, MemoryStep
    <2>2. Known' = {fact'[f].claim : f \in {g \in Facts : fact'[g].status \in Rows
                                                          /\ fact'[g].current}}
      BY DEF Known, Relevant, Rows
    <2>3. MakesNothingKnown => Known' \subseteq Known
      BY <2>2 DEF MakesNothingKnown, Known, Relevant
    <2>4. LearnedFromATurnOnce
      BY <2>1, <2>3 DEF LearnedFromATurnOnce, Learns
    <2>5. NothingOfTheErased
      BY <2>1, <2>2 DEF NothingOfTheErased, MemoryInv, Rows
    <2>6. ProcessedMeansStored
      BY <2>1 DEF ProcessedMeansStored, MemoryInv
    <2> QED
      BY <2>4, <2>5, <2>6
  <1> DEFINE Kept == LearnedFromATurnOnce /\ NothingOfTheErased /\ ProcessedMeansStored
  <1>2. MemoryInv /\ [MemoryJobsNext]_memoryVars => [Kept]_memoryVars
    BY <1>1
  <1>3. MemoryInv /\ [MemoryJobsNext]_memoryVars => MemoryInv'
    BY MemoryStep
  <1>4. MemoryJobsInit => MemoryInv
    BY MemoryInitially
  <1> HIDE DEF Kept
  <1>5. MemoryJobsSpec => [][Kept]_memoryVars
    BY <1>2, <1>3, <1>4, PTL DEF MemoryJobsSpec
  <1> QED
    BY <1>5 DEF Kept, MemoryIsTheUsers

\* What a claim, an operation and a turn that recalls keep within their limits.
Recalling ==
  /\ \A j \in Jobs : job[j].attempts \in 0..MaxAttempts
  /\ evidence \subseteq Facts \X Jobs
  /\ \A w \in Workers : worker[w].op \in Operations \cup {NoOp}
  /\ chat.at = "recalling" => chat.told \cup chat.rows \subseteq Claims \cup {NoClaim}
  /\ chat.at = "told" => Cardinality(chat.told) + Cardinality(chat.jobs) <= RecallLimit

\* What EndRecall tells fits: facts first, then episodes in the room they leave.
LEMMA EndRecallOK ==
  ASSUME MemoryInv, Recalling, EndRecall
  PROVE  Recalling'
  <1>e. PICK expanded \in Expansions(chat.told) :
          \E told \in Filled(expanded, chat.rows) :
            \E recalled \in SUBSET {j \in Jobs : episode[j] = "retrievable"} :
              /\ Cardinality(recalled) <= EpisodeLimit(told)
              /\ chat' = [Quiet EXCEPT !.at = "told", !.told = told, !.jobs = recalled]
    BY DEF EndRecall
  <1>1. PICK told \in Filled(expanded, chat.rows),
             recalled \in SUBSET {j \in Jobs : episode[j] = "retrievable"} :
          /\ Cardinality(recalled) <= EpisodeLimit(told)
          /\ chat' = [Quiet EXCEPT !.at = "told", !.told = told, !.jobs = recalled]
    BY <1>e
  <1>2. chat.told \cup chat.rows \subseteq Claims \cup {NoClaim}
    BY DEF EndRecall, Recalling
  <1>3. Known \subseteq Claims \cup {NoClaim}
    BY DEF Known, MemoryInv, MemoryType, FactRows
  <1>4. told \subseteq Claims \cup {NoClaim}
    <2>1. expanded \subseteq Claims \cup {NoClaim}
      BY <1>2, <1>3 DEF Expansions
    <2> QED
      BY <1>2, <2>1 DEF Filled
  <1>5. IsFiniteSet(told) /\ IsFiniteSet(recalled)
    <2>1. IsFiniteSet(Claims \cup {NoClaim})
      BY MemoryJobsAssumption, FS_AddElement
    <2> QED
      BY <1>4, <2>1, FS_Subset, MemoryJobsAssumption
  <1>6. Cardinality(told) \in Nat /\ Cardinality(recalled) \in Nat
    BY <1>5, FS_CardinalityType
  <1>7. Cardinality(told) + Cardinality(recalled) <= RecallLimit
    BY <1>1, <1>6, MemoryJobsAssumption DEF EpisodeLimit
  <1>8. chat'.at = "told" /\ chat'.told = told /\ chat'.jobs = recalled
    BY <1>1 DEF Quiet
  <1>9. UNCHANGED <<job, evidence, worker>>
    BY DEF EndRecall, storedVars
  <1> QED
    BY <1>7, <1>8, <1>9 DEF Recalling

\* Jobs are claimed while they have attempts left, and evidence is of a fact and a job.
LEMMA RecallingStep ==
  ASSUME MemoryInv, Recalling, [MemoryJobsNext]_memoryVars
  PROVE  Recalling'
  <1>t. /\ job \in [Jobs -> JobRows] /\ worker \in [Workers -> MemoryWorkers]
    BY DEF MemoryInv, MemoryType
  \* The workers.
  <1>1. ASSUME NEW w \in Workers, UNCHANGED <<job, chat>>, evidence' \subseteq Facts \X Jobs,
               \A v \in Workers \ {w} : worker'[v] = worker[v],
               worker'[w].op \in Operations \cup {NoOp}
        PROVE  Recalling'
    BY <1>1 DEF Recalling
  <1>2. ASSUME NEW j \in Jobs, \A k \in Jobs \ {j} : job'[k] = job[k],
               job'[j].attempts \in 0..MaxAttempts, UNCHANGED <<evidence, chat>>,
               \A v \in Workers : worker'[v].op \in Operations \cup {NoOp}
        PROVE  Recalling'
    BY <1>2 DEF Recalling
  <1>3. ASSUME NEW j \in Jobs, Enqueue(j) \/ LockLapses(j)
        PROVE  Recalling'
    <2>1. job'[j].attempts = job[j].attempts /\ \A k \in Jobs \ {j} : job'[k] = job[k]
      BY <1>t, <1>3 DEF Enqueue, LockLapses, JobRows
    <2>2. UNCHANGED <<evidence, chat, worker>>
      BY <1>3 DEF Enqueue, LockLapses, storedVars
    <2> QED
      BY <1>2, <2>1, <2>2 DEF Recalling
  <1>4. ASSUME NEW w \in Workers, NEW j \in Jobs, ClaimJob(w, j)
        PROVE  Recalling'
    <2>1. /\ job[j].attempts < MaxAttempts /\ job[j].attempts \in 0..MaxAttempts
          /\ job' = [job EXCEPT ![j] = [status |-> "processing", attempts |-> job[j].attempts + 1,
                                       lapsed |-> FALSE]]
      BY <1>t, <1>4 DEF ClaimJob, Eligible, Recalling
    <2>2. job'[j].attempts = job[j].attempts + 1 /\ \A k \in Jobs \ {j} : job'[k] = job[k]
      BY <1>t, <2>1
    <2>3. job'[j].attempts \in 0..MaxAttempts
      BY <2>1, <2>2, MemoryJobsAssumption
    <2>4. \A v \in Workers : worker'[v].op = worker[v].op
      BY <1>t, <1>4 DEF ClaimJob, MemoryWorkers
    <2>5. UNCHANGED <<evidence, chat>>
      BY <1>4 DEF ClaimJob, storedVars
    <2> QED
      BY <1>2, <2>2, <2>3, <2>4, <2>5 DEF Recalling
  <1>5. ASSUME NEW w \in Workers, NEW op \in Operations \cup {NoOp}, NEW keep \in BOOLEAN,
               BeginPersist(w, op, keep)
        PROVE  Recalling'
    <2>1. UNCHANGED <<job, chat, evidence>>
      BY <1>5 DEF BeginPersist, storedVars
    <2>2. \A v \in Workers \ {w} : worker'[v] = worker[v]
      BY <1>t, <1>5 DEF BeginPersist
    <2>3. worker'[w].op \in {op, worker[w].op}
      <3>1. worker[w] \in MemoryWorkers
        BY <1>t
      <3>2. \A at, outcome : [worker[w] EXCEPT !.at = at, !.outcome = outcome].op = worker[w].op
        BY <3>1 DEF MemoryWorkers
      <3>3. \A r, outcome : [worker[w] EXCEPT !.at = "commit", !.op = op, !.keep = keep, !.row = r,
                                             !.outcome = outcome].op = op
        BY <3>1 DEF MemoryWorkers
      <3>4. CASE (op = NoOp /\ ~keep) \/ ~NotStored(worker[w].job)
        <4>1. PICK outcome :
                worker' = [worker EXCEPT ![w] = [worker[w] EXCEPT !.at = "finish", !.outcome = outcome]]
          BY <1>t, <1>5, <3>4 DEF BeginPersist
        <4>2. worker'[w] = [worker[w] EXCEPT !.at = "finish", !.outcome = outcome]
          BY <1>t, <4>1
        <4> QED
          BY <3>2, <4>2
      <3>5. CASE ~((op = NoOp /\ ~keep) \/ ~NotStored(worker[w].job))
        <4>0. PICK f \in RowFor(op) :
                worker' = [worker EXCEPT ![w].at = "commit", ![w].op = op, ![w].keep = keep,
                             ![w].row = f,
                             ![w].outcome = IF f \in Duplicates(op.claim) THEN "duplicate"
                                            ELSE "none"]
          BY <1>5, <3>5 DEF BeginPersist
        <4>1. PICK r, outcome :
                worker' = [worker EXCEPT ![w] = [worker[w] EXCEPT !.at = "commit", !.op = op,
                             !.keep = keep, !.row = r, !.outcome = outcome]]
          BY <1>t, <4>0
        <4>2. worker'[w] = [worker[w] EXCEPT !.at = "commit", !.op = op, !.keep = keep, !.row = r,
                                             !.outcome = outcome]
          BY <1>t, <4>1
        <4> QED
          BY <3>3, <4>2
      <3> QED
        BY <3>4, <3>5
    <2> QED
      BY <1>1, <2>1, <2>2, <2>3 DEF Recalling
  <1>6. ASSUME NEW w \in Workers, LoadInput(w) \/ Raise(w) \/ WorkerDies(w)
        PROVE  Recalling'
    <2>1. UNCHANGED <<job, chat, evidence>>
      BY <1>6 DEF LoadInput, Raise, WorkerDies, storedVars
    <2>2. \A v \in Workers \ {w} : worker'[v] = worker[v]
      BY <1>t, <1>6 DEF LoadInput, Raise, WorkerDies
    <2>3. worker'[w].op \in {NoOp, worker[w].op}
      <3>1. worker[w] \in MemoryWorkers /\ Idle \in MemoryWorkers /\ Idle.op = NoOp
        BY <1>t DEF Idle, MemoryWorkers, NoOp, Ops
      <3>2. CASE LoadInput(w)
        <4>1. /\ [worker[w] EXCEPT !.at = "finish", !.outcome = "skipped"].op = worker[w].op
              /\ [worker[w] EXCEPT !.at = "persist"].op = worker[w].op
          BY <3>1 DEF MemoryWorkers
        <4>2. \/ worker'[w] = [worker[w] EXCEPT !.at = "persist"]
              \/ worker'[w] = [worker[w] EXCEPT !.at = "finish", !.outcome = "skipped"]
          BY <1>t, <3>2 DEF LoadInput
        <4> QED
          BY <4>1, <4>2
      <3>3. CASE Raise(w)
        <4>1. worker'[w] = [Idle EXCEPT !.at = "retry", !.job = worker[w].job]
          BY <1>t, <3>3 DEF Raise
        <4> QED
          BY <3>1, <4>1 DEF MemoryWorkers
      <3>4. CASE WorkerDies(w)
        BY <1>t, <3>1, <3>4 DEF WorkerDies
      <3> QED
        BY <1>6, <3>2, <3>3, <3>4
    <2> QED
      BY <1>1, <2>1, <2>2, <2>3 DEF Recalling
  <1>7. ASSUME NEW w \in Workers, FinishJob(w) \/ RetryJob(w)
        PROVE  Recalling'
    <2>1. PICK j \in Jobs : j = worker[w].job
      BY <1>7 DEF FinishJob, RetryJob, MemoryInv, MemoryWorkerOK
    <2>2. PICK st : SetJob(j, st)
      BY <1>7, <2>1 DEF FinishJob, RetryJob
    <2>3. /\ \A k \in Jobs \ {j} : job'[k] = job[k]
          /\ job'[j].attempts = job[j].attempts
      BY <1>t, <2>2 DEF SetJob, JobRows
    <2>4. \A v \in Workers : worker'[v].op \in {NoOp, worker[v].op}
      BY <1>t, <1>7 DEF FinishJob, RetryJob, Idle
    <2>5. UNCHANGED <<evidence, chat>>
      BY <1>7 DEF FinishJob, RetryJob, storedVars
    <2> QED
      BY <1>2, <2>3, <2>4, <2>5 DEF Recalling
  <1>8. ASSUME NEW w \in Workers, CommitPersist(w)
        PROVE  Recalling'
    <2>1. PICK j \in Jobs, r \in Facts \cup {NoFact} : j = worker[w].job /\ r = worker[w].row
      BY <1>t, <1>8 DEF CommitPersist, MemoryInv, MemoryWorkerOK, MemoryWorkers
    <2>2. evidence' \subseteq Facts \X Jobs
      <3>1. evidence \subseteq Facts \X Jobs
        BY DEF Recalling
      <3>2. \/ evidence' = evidence
            \/ \E f \in Facts : evidence' = evidence \cup {<<f, j>>}
        BY <1>8, <2>1 DEF CommitPersist, NewFact
      <3> QED
        BY <3>1, <3>2
    <2>3. \A v \in Workers \ {w} : worker'[v] = worker[v]
      BY <1>t, <1>8 DEF CommitPersist
    <2>4. worker'[w].op = NoOp
      BY <1>t, <1>8 DEF CommitPersist, Idle
    <2>5. UNCHANGED <<job, chat>>
      BY <1>8 DEF CommitPersist
    <2> QED
      BY <1>1, <2>2, <2>3, <2>4, <2>5
  \* The user.
  <1>9. ASSUME UNCHANGED <<job, worker>>, evidence' \subseteq evidence,
               \/ UNCHANGED chat
               \/ chat'.at \notin {"recalling", "told"}
               \/ chat'.at = "recalling" /\ chat'.told \cup chat'.rows \subseteq Claims \cup {NoClaim}
        PROVE  Recalling'
    BY <1>9 DEF Recalling
  <1>10. ASSUME NEW chosen \in SUBSET Facts, BeginForget(chosen)
         PROVE  Recalling'
    BY <1>9, <1>10 DEF BeginForget, storedVars, Quiet
  <1>11. ASSUME NEW sought \in SUBSET Claims, BeginRecall(sought)
         PROVE  Recalling'
    <2>1. PICK seeds \in SUBSET (sought \cap Known) :
            chat' = [Quiet EXCEPT !.at = "recalling", !.rows = sought \cap Known, !.told = seeds]
      BY <1>11 DEF BeginRecall
    <2>2. /\ chat'.at = "recalling"
          /\ chat'.told \cup chat'.rows \subseteq Claims \cup {NoClaim}
      BY <2>1 DEF Quiet
    <2> QED
      BY <1>9, <1>11, <2>2 DEF BeginRecall, storedVars
  <1>12. ASSUME CommitForget \/ NextTurn
         PROVE  Recalling'
    BY <1>9, <1>12 DEF CommitForget, NextTurn, storedVars, Quiet
  <1>13. ASSUME EraseUser
         PROVE  Recalling'
    <2>1. \A j \in Jobs : job'[j].attempts = job[j].attempts
      BY <1>t, <1>13 DEF EraseUser, JobRows
    <2>2. evidence' = {} /\ UNCHANGED <<worker, chat>>
      BY <1>13 DEF EraseUser
    <2> QED
      BY <2>1, <2>2 DEF Recalling
  <1>14. ASSUME NEW f \in Facts, Expire(f)
         PROVE  Recalling'
    BY <1>9, <1>14 DEF Expire
  <1>15. CASE UNCHANGED memoryVars
    BY <1>9, <1>15 DEF memoryVars
  <1> QED
    BY <1>3, <1>4, <1>5, <1>6, <1>7, <1>8, <1>10, <1>11, <1>12, <1>13, <1>14, <1>15, EndRecallOK
       DEF MemoryJobsNext

\* Jobs stay within memory_worker_max_attempts, and what a turn recalls within
\* memory_retrieval_limit.
THEOREM MemoryTypes == MemoryJobsSpec => []MemoryJobsTypeOK
  <1>1. MemoryJobsInit => MemoryInv /\ Recalling
    BY MemoryInitially, MemoryJobsAssumption DEF MemoryJobsInit, Recalling, Quiet, Idle
  <1>2. MemoryInv /\ Recalling /\ [MemoryJobsNext]_memoryVars => (MemoryInv /\ Recalling)'
    BY MemoryStep, RecallingStep
  <1>3. MemoryInv /\ Recalling => MemoryJobsTypeOK
    BY DEF MemoryInv, MemoryType, Recalling, MemoryJobsTypeOK, JobRows, FactRows
  <1> QED
    BY <1>1, <1>2, <1>3, PTL DEF MemoryJobsSpec
==============================================================================
