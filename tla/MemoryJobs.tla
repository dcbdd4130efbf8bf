------------------------------ MODULE MemoryJobs ------------------------------
(***************************************************************************)
(* What Dot remembers of one user: memory/service.py, consolidation.py and *)
(* workers/memory.py.  Workers claim the jobs that turns have left, let a  *)
(* model extract an operation from the messages of the turn and store it   *)
(* with an episode, while the user has memories forgotten, recalls them in *)
(* other turns, or is deleted.                                             *)
(*                                                                         *)
(* A claim stands for a subject, a predicate and an object; a fact is a    *)
(* row that states one.  A consolidation has at most one operation.  Time  *)
(* passes in LockLapses and Expire.                                        *)
(***************************************************************************)
EXTENDS Integers, FiniteSets

CONSTANTS
  Jobs, Workers, Facts,
  Claims,
  Links,        \* pairs of claims that share a named entity
  Operations,   \* operations _guard_consolidation leaves of a model's output
  MaxAttempts,  \* settings.memory_worker_max_attempts
  RecallLimit,  \* settings.memory_retrieval_limit
  NoJob, NoFact, NoClaim

ASSUME MemoryJobsAssumption ==
  /\ MaxAttempts \in Nat \ {0} /\ RecallLimit \in Nat \ {0} /\ Links \subseteq Claims \X Claims
  /\ IsFiniteSet(Jobs) /\ IsFiniteSet(Claims)
  /\ Operations \subseteq [action : {"add", "reinforce", "supersede"},
                          target : Facts \cup {NoFact}, claim : Claims \cup {NoClaim}]

VARIABLES
  user,      \* whether the user's row exists
  job,       \* memory_jobs: status, attempts, and whether locked_at is five minutes old
  episode,   \* memory_episodes: per job, none or how it may be recalled
  fact,      \* memory_facts: status, claim, and whether valid_until is still to come
  evidence,  \* memory_evidence: facts and the jobs whose episodes support them
  worker,    \* a worker: where it is, its job, the operation of the model, what it has read
  chat       \* a turn of the user's chat, one at a time, that forgets or recalls: the facts or
             \*   claims and the episodes it has read, and what it tells

memoryVars == <<user, job, episode, fact, evidence, worker, chat>>
storedVars == <<user, episode, fact, evidence>>

NoOp       == [action |-> "none", target |-> NoFact, claim |-> NoClaim]
Idle  == [at |-> "idle", job |-> NoJob, op |-> NoOp, keep |-> FALSE, row |-> NoFact,
          outcome |-> "none"]
NoRow == [status |-> "absent", claim |-> NoClaim, current |-> FALSE]
Quiet == [at |-> "idle", rows |-> {}, jobs |-> {}, told |-> {}]
Rows  == {"active", "superseded"}

-----------------------------------------------------------------------------
(***************************************************************************)
(* Faults.  Each operator is the definition of the same shape below with   *)
(* one plausible slip in it; no action uses them.                          *)
(***************************************************************************)

\* The episode of an earlier attempt is not looked for.
StoresAgain(j) == TRUE

\* Facts and episodes have a limit each.
ThreeEpisodes(told) == 3

-----------------------------------------------------------------------------
(***************************************************************************)
(* Decisions of the code                                                   *)
(***************************************************************************)

\* The jobs _claim_job may take; a lapsed retry delay is not told from a running one.
Eligible(j) ==
  /\ \/ job[j].status \in {"pending", "failed"}
     \/ job[j].status = "processing" /\ job[j].lapsed
  /\ job[j].attempts < MaxAttempts

\* _is_relevant_fact.
Relevant(f) == fact[f].status \in Rows /\ fact[f].current

\* The facts that state the claim of an operation already, _apply_operation.
Duplicates(c) == {f \in Facts : fact[f].status = "active" /\ fact[f].claim = c}

\* No episode of the job: neither found by the query nor met by the unique key.
NotStored(j) == episode[j] = "none"

\* The claims that facts the code finds relevant make.
Known == {fact[f].claim : f \in {g \in Facts : Relevant(g)}}

\* The direct matches that are taken first, and the room for what they are linked to.
SeedLimit == IF RecallLimit >= 4 THEN RecallLimit \div 2 ELSE 1

\* The room that facts leave for episodes.
EpisodeLimit(told) ==
  IF RecallLimit - Cardinality(told) > 3 THEN 3 ELSE RecallLimit - Cardinality(told)

\* _expand_graph: claims that share an entity with the seeds, as far as they fit.
Expansions(seeds) ==
  LET linked == {c \in Known \ seeds : \E s \in seeds : <<s, c>> \in Links \/ <<c, s>> \in Links}
  IN  {seeds \cup more : more \in
        {m \in SUBSET linked : \/ Cardinality(m) = RecallLimit - Cardinality(seeds)
                               \/ m = linked /\ Cardinality(m) <= RecallLimit - Cardinality(seeds)}}

\* The remaining direct matches, as far as they fit.
Filled(told, matches) ==
  LET rest == matches \ told
  IN  {told \cup more : more \in
        {m \in SUBSET rest : \/ Cardinality(m) = RecallLimit - Cardinality(told)
                             \/ m = rest /\ Cardinality(m) <= RecallLimit - Cardinality(told)}}

-----------------------------------------------------------------------------
MemoryJobsInit ==
  /\ user = TRUE
  /\ job = [j \in Jobs |-> [status |-> "none", attempts |-> 0, lapsed |-> FALSE]]
  /\ episode = [j \in Jobs |-> "none"]
  /\ fact = [f \in Facts |-> NoRow]
  /\ evidence = {}
  /\ worker = [w \in Workers |-> Idle]
  /\ chat = Quiet

Exists(j) == job[j].status \notin {"none", "gone"}
SetJob(j, status) ==
  job' = [job EXCEPT ![j].status = IF Exists(j) THEN status ELSE @, ![j].lapsed = FALSE]

\* enqueue_memory_job at the end of a turn; its key names the turn.
Enqueue(j) ==
  /\ user /\ job[j].status = "none"
  /\ job' = [job EXCEPT ![j].status = "pending"]
  /\ UNCHANGED <<storedVars, worker, chat>>

\* _claim_job.
ClaimJob(w, j) ==
  /\ worker[w].at = "idle" /\ Eligible(j)
  /\ job' = [job EXCEPT ![j] = [status |-> "processing", attempts |-> @.attempts + 1,
                                lapsed |-> FALSE]]
  /\ worker' = [worker EXCEPT ![w].at = "load", ![w].job = j]
  /\ UNCHANGED <<storedVars, chat>>

\* _load_job_input; the model then has some operation in mind.
LoadInput(w) ==
  /\ worker[w].at = "load"
  /\ IF Exists(worker[w].job) THEN worker' = [worker EXCEPT ![w].at = "persist"]
     ELSE worker' = [worker EXCEPT ![w].at = "finish", ![w].outcome = "skipped"]
  /\ UNCHANGED <<storedVars, job, chat>>

\* The row an operation turns out to be about, _apply_operation: one that states the claim,
\* or the one it names, if it still is relevant.
RowFor(op) ==
  LET named == IF op.target # NoFact /\ Relevant(op.target) THEN {op.target} ELSE {NoFact}
  IN  IF op.action \in {"add", "supersede"} /\ Duplicates(op.claim) # {} THEN Duplicates(op.claim)
      ELSE named

\* The first half of _persist_consolidation: is there anything to store, is it stored
\* already, and which row will the operation touch.
BeginPersist(w, op, keep) ==
  LET v == worker[w]
  IN  /\ v.at = "persist"
      /\ op.target # NoFact => fact[op.target].status # "absent"
      /\ IF op = NoOp /\ ~keep
         THEN worker' = [worker EXCEPT ![w].at = "finish", ![w].outcome = "skipped"]
         ELSE IF ~NotStored(v.job)
         THEN worker' = [worker EXCEPT ![w].at = "finish", ![w].outcome = "processed"]
         ELSE \E f \in RowFor(op) :
                worker' = [worker EXCEPT ![w].at = "commit", ![w].op = op, ![w].keep = keep,
                             ![w].row = f,
                             ![w].outcome = IF f \in Duplicates(op.claim) THEN "duplicate"
                                            ELSE "none"]
      /\ UNCHANGED <<storedVars, job, chat>>

\* The rows of the transaction can be written: the job and the user exist, no other
\* episode has the job, and the row it has read is there.
CanCommit(v) ==
  /\ user /\ Exists(v.job)
  /\ NotStored(v.job)
  /\ v.row # NoFact => fact[v.row].status \in Rows

\* _apply_operation states the claim in a new row, which may supersede the one it names;
\* one superseded from a later day on stays relevant until then.
NewFact(v, f, lasting, later) ==
  /\ fact[f].status = "absent"
  /\ fact' = [g \in Facts |->
                IF g = f THEN [status |-> "active", claim |-> v.op.claim, current |-> lasting]
                ELSE IF g = v.row THEN [fact[g] EXCEPT !.status = "superseded", !.current = later]
                ELSE fact[g]]
  /\ evidence' = evidence \cup {<<f, v.job>>}

\* The commit of _persist_consolidation.
CommitPersist(w) ==
  LET v == worker[w]
  IN  /\ v.at = "commit"
      /\ CanCommit(v)
      /\ \/ /\ v.op.action \in {"add", "supersede"} /\ v.outcome # "duplicate"
            /\ \E f \in Facts, later \in BOOLEAN :
                 NewFact(v, f, TRUE, v.op.action = "supersede" /\ later)
         \/ /\ v.op.action \notin {"add", "supersede"} \/ v.outcome = "duplicate"
            /\ evidence' = IF v.row = NoFact THEN evidence ELSE evidence \cup {<<v.row, v.job>>}
            /\ UNCHANGED fact
      /\ episode' = [episode EXCEPT ![v.job] = IF v.keep THEN "retrievable" ELSE "kept"]
      /\ worker' = [worker EXCEPT ![w] = [Idle EXCEPT !.at = "finish", !.job = v.job,
                                                      !.outcome = "processed"]]
      /\ UNCHANGED <<user, job, chat>>

\* The commit fails on what others have committed since, or an earlier step raises.
Raise(w) ==
  /\ worker[w].at \in {"load", "persist", "commit"}
  /\ worker' = [worker EXCEPT ![w] = [Idle EXCEPT !.at = "retry", !.job = worker[w].job]]
  /\ UNCHANGED <<storedVars, job, chat>>

\* _finish_job, whatever the job has become meanwhile.
FinishJob(w) ==
  /\ worker[w].at = "finish"
  /\ SetJob(worker[w].job, worker[w].outcome)
  /\ worker' = [worker EXCEPT ![w] = Idle]
  /\ UNCHANGED <<storedVars, chat>>

\* _retry_job.
RetryJob(w) ==
  /\ worker[w].at = "retry"
  /\ SetJob(worker[w].job, "failed")
  /\ worker' = [worker EXCEPT ![w] = Idle]
  /\ UNCHANGED <<storedVars, chat>>

\* The worker dies, or its last transaction fails.
WorkerDies(w) ==
  /\ worker[w].at # "idle"
  /\ worker' = [worker EXCEPT ![w] = Idle]
  /\ UNCHANGED <<storedVars, job, chat>>

\* Five minutes after it was locked.
LockLapses(j) ==
  /\ job[j].status = "processing" /\ ~job[j].lapsed
  /\ job' = [job EXCEPT ![j].lapsed = TRUE]
  /\ UNCHANGED <<storedVars, worker, chat>>

\* The valid_until of a fact comes.
Expire(f) ==
  /\ Relevant(f)
  /\ fact' = [fact EXCEPT ![f].current = FALSE]
  /\ UNCHANGED <<user, job, episode, evidence, worker, chat>>

\* forget_user_memories of facts the user was listed, up to its first write.
BeginForget(chosen) ==
  /\ chat.at = "idle" /\ chosen # {}
  /\ \A f \in chosen : Relevant(f)
  /\ chat' = [Quiet EXCEPT !.at = "forgetting", !.rows = chosen,
                          !.jobs = {p[2] : p \in {q \in evidence : q[1] \in chosen}}]
  /\ UNCHANGED <<storedVars, job, worker>>

\* Its writes: episodes are blanked, not deleted; evidence goes with the facts.
CommitForget ==
  /\ chat.at = "forgetting"
  /\ episode' = [j \in Jobs |-> IF j \in chat.jobs /\ episode[j] # "none" THEN "forgotten"
                                ELSE episode[j]]
  /\ fact' = [f \in Facts |-> IF f \in chat.rows /\ fact[f].status \in Rows
                              THEN [NoRow EXCEPT !.status = "forgotten"] ELSE fact[f]]
  /\ evidence' = {p \in evidence : p[1] \notin chat.rows}
  /\ chat' = Quiet
  /\ UNCHANGED <<user, job, worker>>

\* retrieve_memory_context up to _expand_graph: the facts over the floor, and the first of
\* them.
BeginRecall(sought) ==
  LET matches == sought \cap Known
  IN  /\ user /\ chat.at = "idle" /\ matches # {}
      /\ \E seeds \in SUBSET matches :
           /\ \/ Cardinality(seeds) = SeedLimit
              \/ seeds = matches /\ Cardinality(seeds) < SeedLimit
           /\ chat' = [Quiet EXCEPT !.at = "recalling", !.rows = matches, !.told = seeds]
      /\ UNCHANGED <<storedVars, job, worker>>

\* The rest of it; episodes fill what room the facts have left.
EndRecall ==
  /\ chat.at = "recalling"
  /\ \E expanded \in Expansions(chat.told) :
       \E told \in Filled(expanded, chat.rows) :
         \E heard \in SUBSET {j \in Jobs : episode[j] = "retrievable"} :
           /\ Cardinality(heard) <= EpisodeLimit(told)
           /\ chat' = [Quiet EXCEPT !.at = "told", !.told = told, !.jobs = heard]
  /\ UNCHANGED <<storedVars, job, worker>>

NextTurn == chat.at = "told" /\ chat' = Quiet /\ UNCHANGED <<storedVars, job, worker>>

\* The user is deleted, and by cascade all that is stored of them.
EraseUser ==
  /\ user
  /\ user' = FALSE
  /\ job' = [j \in Jobs |-> [job[j] EXCEPT !.status = IF Exists(j) THEN "gone" ELSE @]]
  /\ episode' = [j \in Jobs |-> "none"]
  /\ fact' = [f \in Facts |-> NoRow]
  /\ evidence' = {}
  /\ UNCHANGED <<worker, chat>>

MemoryJobsNext ==
  \/ \E j \in Jobs : Enqueue(j) \/ LockLapses(j)
  \/ \E w \in Workers :
       \/ \E j \in Jobs : ClaimJob(w, j)
       \/ \E op \in Operations \cup {NoOp}, keep \in BOOLEAN : BeginPersist(w, op, keep)
       \/ LoadInput(w) \/ CommitPersist(w) \/ Raise(w)
       \/ FinishJob(w) \/ RetryJob(w) \/ WorkerDies(w)
  \/ \E f \in Facts : Expire(f)
  \/ \E chosen \in SUBSET Facts : BeginForget(chosen)
  \/ CommitForget
  \/ \E sought \in SUBSET Claims : BeginRecall(sought)
  \/ EndRecall
  \/ NextTurn
  \/ EraseUser

-----------------------------------------------------------------------------
(***************************************************************************)
(* Properties                                                              *)
(***************************************************************************)
MemoryJobsTypeOK ==
  /\ \A j \in Jobs : /\ job[j].status \in {"none", "gone", "pending", "processing", "processed",
                                           "failed", "skipped"}
                     /\ job[j].attempts \in 0..MaxAttempts
                     /\ episode[j] \in {"none", "retrievable", "kept", "forgotten"}
  /\ \A f \in Facts : fact[f].status \in Rows \cup {"absent", "forgotten"}
  /\ evidence \subseteq Facts \X Jobs
  /\ \A w \in Workers : worker[w].op \in Operations \cup {NoOp}
  /\ chat.at = "told" => Cardinality(chat.told) + Cardinality(chat.jobs) <= RecallLimit

\* What was forgotten or has expired becomes known again only from a turn that
\* was not consolidated before: neither a retry of the job nor a second worker
\* on it repeats what the first has stored.
LearnedFromATurnOnce ==
  \A c \in Claims : c \notin Known /\ c \in Known' =>
    \E j \in Jobs : episode[j] = "none" /\ episode'[j] # "none"

\* Nothing is stored of a user who was deleted, by a worker that had loaded
\* their messages before.
NothingOfTheErased == ~user' => Known' = {} /\ \A j \in Jobs : episode'[j] = "none"

\* A job is processed when its episode is stored, whoever writes its status last.
ProcessedMeansStored ==
  \A j \in Jobs : job'[j].status = "processed" => episode'[j] # "none"

\* Memory is what the turns left, each once, and nothing that the user took
\* back: with two workers on a job, a worker that dies after its commit, and
\* the user forgetting and leaving meanwhile.
MemoryIsTheUsers ==
  [][LearnedFromATurnOnce /\ NothingOfTheErased /\ ProcessedMeansStored]_memoryVars
==============================================================================
