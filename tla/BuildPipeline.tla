----------------------------- MODULE BuildPipeline -----------------------------
(***************************************************************************)
(* How a worker builds a claimed app: app_builder/pipeline.py with its     *)
(* source provider, gates and visual review, up to what service_hooks.py   *)
(* stores for the claim.                                                   *)
(*                                                                         *)
(* A candidate is the set of its defects, each found by one gate.  Broken  *)
(* acceptance is one of several failures, as the fingerprint tells them    *)
(* apart.                                                                  *)
(***************************************************************************)
EXTENDS Naturals, FiniteSets

CONSTANTS
  Acceptance,  \* fingerprints of acceptance failures
  MaxRepairs,  \* max_repair_attempts
  MaxReviews   \* max_visual_reviews

ASSUME BuildPipelineAssumption == MaxRepairs \in Nat /\ MaxReviews \in Nat

VARIABLES
  runner,     \* the smoke runner the worker is configured with: none, optional or required
  stage,      \* where the worker is
  candidate,  \* the defects of the source it has
  issues,     \* what the gates have found in it
  bundle,     \* whether it was compiled
  smoke,      \* result of the smoke run: none, ready or not configured
  history,    \* fingerprints seen, generations, repairs, reviews, clean regeneration used
  failure,    \* the failure to be recorded: none, or whether it may be retried
  stored      \* what the queue holds for the claim

pipelineVars == <<runner, stage, candidate, issues, bundle, smoke, history, failure, stored>>
gateVars     == <<runner, candidate, issues, bundle, smoke>>

\* Defects; the first two are found by the policy, and the first keeps a candidate from
\* being compiled.
Blocking == "blocking"
Forbidden == "forbidden"
Compile == "compile"
Runtime == "runtime"
Style == "style"
Defects == {Blocking, Forbidden, Compile, Runtime, Style} \cup Acceptance
NoHistory == [seen |-> {}, generations |-> 0, repairs |-> 0, reviews |-> 0, clean |-> FALSE]
Building == {"validate", "inspect", "smoke", "review", "judge", "repair", "regenerate", "package"}

-----------------------------------------------------------------------------
(***************************************************************************)
(* Faults.  Each operator is the definition of the same shape below with   *)
(* one plausible slip in it; no action uses them.                          *)
(***************************************************************************)

\* What the browser finds is logged and the candidate accepted.
PolicyAlone(found) == found \cap {Blocking, Forbidden, Compile} = {}

-----------------------------------------------------------------------------
(***************************************************************************)
(* Decisions of the code                                                   *)
(***************************************************************************)

\* inspect_generated_source.
PolicyIssues(source) == source \cap {Blocking, Forbidden}

\* The compiler; only looked at when the policy does not block.
CompileIssues(source) == source \cap {Compile}

\* Startup in the guest; the browser then exercises every declared workflow.
GuestIssues(source) == source \cap {Runtime}
BrowserIssues(source) == source \cap Acceptance

\* VerifiedAppSmokeRunner: the browser is not reached by what the guest refuses.
SmokeIssues(source) ==
  IF GuestIssues(source) # {} THEN GuestIssues(source) ELSE BrowserIssues(source)

\* OpenAIVisualReviewer.review; a reviewer that fails finds nothing.
Verdicts(source) == {{}, source \cap {Style}}

\* A candidate leaves the loop when nothing was found.
Accepted(found) == found = {}

\* _acceptance_issue_fingerprint; a failure seen before.
Fingerprint(found) == found \cap Acceptance
Repeated(found) == Fingerprint(found) # {} /\ Fingerprint(found) \in history.seen

\* A repeated failure after the clean regeneration, or no repairs left.
Exhausted(found) == (Repeated(found) /\ history.clean) \/ history.repairs >= MaxRepairs

\* _package: the render must be ready if the smoke run is required.
Packageable == bundle /\ (runner = "required" => smoke = "ready")

-----------------------------------------------------------------------------
BuildPipelineInit ==
  /\ runner \in {"none", "optional", "required"}
  /\ stage = "idle"
  /\ candidate = {} /\ issues = {} /\ bundle = FALSE /\ smoke = "none"
  /\ history = NoHistory
  /\ failure = "none"
  /\ stored = "queued"

\* claim_next_build through the hooks.
ClaimBuild ==
  /\ stage = "idle" /\ stored = "queued"
  /\ stored' = "claimed"
  /\ stage' = "validate"
  /\ history' = NoHistory
  /\ UNCHANGED <<gateVars, failure>>

Fail(kind) == stage' = "failing" /\ failure' = kind

NextCandidate(source) ==
  /\ candidate' = source
  /\ history' = [history EXCEPT !.generations = @ + 1]
  /\ stage' = "inspect"
  /\ UNCHANGED <<runner, issues, bundle, smoke, failure, stored>>

\* AppBlueprint.from_mapping, and the first source of the provider.
Generate(source) ==
  /\ stage = "validate"
  /\ NextCandidate(source)

RejectBlueprint ==
  /\ stage = "validate"
  /\ Fail("final")
  /\ UNCHANGED <<gateVars, history, stored>>

\* A round: the policy, and the compiler unless the policy blocks.
Inspect ==
  LET policy  == PolicyIssues(candidate)
      blocked == Blocking \in policy
  IN  /\ stage = "inspect"
      /\ issues' = policy \cup (IF blocked THEN {} ELSE CompileIssues(candidate))
      /\ bundle' = (~blocked /\ CompileIssues(candidate) = {})
      /\ smoke' = "none"
      /\ stage' = IF Accepted(issues') THEN "smoke" ELSE "judge"
      /\ UNCHANGED <<runner, candidate, history, failure, stored>>

\* The smoke run; a screenshot is taken while there are reviews left.
Smoke ==
  /\ stage = "smoke"
  /\ IF runner # "none"
     THEN /\ issues' = SmokeIssues(candidate)
          /\ smoke' = IF issues' = {} THEN "ready" ELSE "none"
          /\ stage' \in IF issues' = {} /\ history.reviews < MaxReviews
                       THEN {"review", "judge"} ELSE {"judge"}
     ELSE smoke' = "not_configured" /\ stage' = "judge" /\ UNCHANGED issues
  /\ UNCHANGED <<runner, candidate, bundle, history, failure, stored>>

\* _review_visual_quality.
Review ==
  /\ stage = "review"
  /\ issues' \in Verdicts(candidate)
  /\ history' = [history EXCEPT !.reviews = @ + 1]
  /\ stage' = "judge"
  /\ UNCHANGED <<runner, candidate, bundle, smoke, failure, stored>>

\* The end of a round.
Judge ==
  /\ stage = "judge"
  /\ IF Accepted(issues) THEN stage' = "package" /\ UNCHANGED <<history, failure>>
     ELSE IF Exhausted(issues) THEN Fail("final") /\ UNCHANGED history
     ELSE /\ stage' = IF Repeated(issues) THEN "regenerate" ELSE "repair"
          /\ UNCHANGED failure
          /\ history' = [history EXCEPT !.repairs = @ + 1,
                           !.clean = @ \/ Repeated(issues),
                           !.seen = IF Fingerprint(issues) = {} THEN @
                                    ELSE @ \cup {Fingerprint(issues)}]
  /\ UNCHANGED <<gateVars, stored>>

\* provider.repair: another source, made from the last one and its issues.
Repair(source) ==
  /\ stage = "repair"
  /\ NextCandidate(source)

\* provider.regenerate: a new source, made from all that was found so far.
Regenerate(source) ==
  /\ stage = "regenerate"
  /\ NextCandidate(source)

\* _package; a result that is too large is rejected like one that is not ready.
Package ==
  /\ stage = "package"
  /\ \/ Packageable /\ stage' = "complete" /\ UNCHANGED failure
     \/ Fail("final")
  /\ UNCHANGED <<gateVars, history, stored>>

\* The deadline of the build, or a provider, compiler or runner that is not there.
Interrupted ==
  /\ stage \in Building
  /\ Fail("retryable")
  /\ UNCHANGED <<gateVars, history, stored>>

\* complete_build through the hooks: stored under the lease of the claim, after which the
\* answer may be lost; or refused, for good or not, and classified.
Complete ==
  /\ stage = "complete"
  /\ \/ /\ stored = "claimed" /\ stored' = "completed"
        /\ \/ stage' = "idle" /\ UNCHANGED failure
           \/ Fail("retryable")
     \/ (\E kind \in {"final", "retryable"} : Fail(kind)) /\ UNCHANGED stored
  /\ UNCHANGED <<gateVars, history>>

\* _fail_build_safely: only the holder of the claim can fail it; what the queue refuses is
\* logged, and the worker lives on.
RecordFailure ==
  /\ stage = "failing"
  /\ stored' \in IF stored = "claimed"
                 THEN {"claimed", IF failure = "retryable" THEN "queued" ELSE "failed"}
                 ELSE {stored}
  /\ failure' = "none"
  /\ stage' = "idle"
  /\ UNCHANGED <<gateVars, history>>

\* The lease runs out and another poller takes the job.
LoseLease ==
  /\ stored = "claimed"
  /\ stored' = "reclaimed"
  /\ UNCHANGED <<stage, gateVars, history, failure>>

\* The worker dies; its lease runs out.
BuilderDies ==
  /\ stage # "idle"
  /\ stage' = "idle" /\ failure' = "none"
  /\ UNCHANGED <<gateVars, history, stored>>

BuildPipelineNext ==
  \/ ClaimBuild
  \/ \E source \in SUBSET Defects : Generate(source) \/ Repair(source) \/ Regenerate(source)
  \/ RejectBlueprint
  \/ Inspect \/ Smoke \/ Review \/ Judge
  \/ Package \/ Interrupted
  \/ Complete \/ RecordFailure
  \/ LoseLease \/ BuilderDies

-----------------------------------------------------------------------------
(***************************************************************************)
(* Properties                                                              *)
(***************************************************************************)
BuildPipelineTypeOK ==
  /\ stage \in Building \cup {"idle", "complete", "failing"}
  /\ candidate \subseteq Defects /\ issues \subseteq Defects
  /\ history.seen \subseteq SUBSET Acceptance
  /\ failure \in {"none", "final", "retryable"}
  /\ stored \in {"queued", "claimed", "reclaimed", "completed", "failed"}

\* What is published has passed every gate that is configured, with the very
\* source that is published, however many candidates were repaired before it
\* and whatever was found in those; only the look may be passed over.
PublishedIsVerified ==
  stored = "completed" =>
    /\ candidate \cap {Blocking, Forbidden, Compile} = {}
    /\ runner # "none" => candidate \subseteq {Style}

\* A claim costs a bounded number of generations, and when acceptance stops to
\* converge one of them, at most, starts over.
SpendingIsBounded ==
  /\ history.generations <= MaxRepairs + 1
  /\ history.repairs <= MaxRepairs /\ history.reviews <= MaxReviews
  /\ Cardinality(history.seen) <= MaxRepairs

\* A worker publishes what it has verified, and what it cannot repair costs a
\* bounded number of attempts.
BuildsAreVerified == PublishedIsVerified /\ SpendingIsBounded
==============================================================================
