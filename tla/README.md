# A TLA+ specification of dot-backend

dot-backend (`src/src/benji_api`, "Benji") is a FastAPI service with background
workers.  Users talk to an agent by text message (Linq) or in a web chat; the
agent answers in bubbles, calls tools, schedules tasks and follow-ups,
remembers facts, syncs accounts and queues small generated apps that a builder
worker compiles and publishes.  All of its state is in PostgreSQL, and all of
its concurrency is between processes that read and write rows: request
handlers, three kinds of workers and any number of replicas of each.

The specification follows that shape.  A database transaction that does not
wait for a lock while it holds another, and whose reads are protected by the
locks it takes, is one action.  Everything else is split where another process
can get in between: between a claim and the work, between two commits, between
a call to an outside service and the record of its answer, between an unlocked
read and the write that uses it.

## 1. Inventory

Paths are relative to `src/src/benji_api`.  "Queue" below means a table whose
rows workers claim under `FOR UPDATE SKIP LOCKED`, work on outside the
transaction, and settle or put back in a second transaction.

| Component | State | Operations | Module |
|---|---|---|---|
| Generated-app build queue (`services/generated_apps_v2.py`, `services/generated_apps.py`, `app_builder/`) | jobs (status, attempts, lease, base revision), apps, revisions, deployments (active, previous, version), records | request, claim, build, complete, fail, roll back, archive | `AppBuilds` |
| Build pipeline, source providers and reviews (`app_builder/pipeline.py`, `policy.py`, `browser_smoke.py`, `visual_review.py`, `providers.py`) | the candidate, what gates found in it, history of fingerprints and attempts | generate, inspect, smoke, review, judge, repair, regenerate, package | `BuildPipeline` |
| User-event outbox and delivery (`services/user_events.py`, `agents/channel_delivery.py`, `agents/service.py`) | events, turns, outbound messages and their deliveries, conversation locks | enqueue, claim, wake the agent, send bubbles, receipts, finish, retry | `UserEvents` |
| Scheduled tasks (`services/schedules.py`) | task rows (status, attempts, scheduled_for), outbox keys | create, cancel, claim, act, recur, retry | `ScheduledTasks` |
| Agent follow-ups (`services/agent_followups.py`, `agents/followups.py`) | follow-up rows | schedule by a turn, cancel by a reply, claim, send, retry | `FollowUps` |
| Tool-call journal, agent tools (`agents/tools.py`, `agents/runner.py`) | one row per call key: status, claimant, lease | start, heartbeat, take over, finish, replay | `ToolJournal` |
| Inbound webhook, conversation turns, web chat (`api/routes/linq_webhooks.py`, `agents/service.py`, `agents/group_turn.py`, `agents/onboarding.py`, `services/web_chat.py`) | webhook events, messages, replies, covered triggers, in-process background tasks, the lock and the pool | receive, deduplicate, opt out, start a turn after the commit, cover triggers, acknowledge, reply, deliver | `Conversations` |
| Generated-app records and access (`services/generated_apps_v2.py`, `api/routes/generated_apps_v2.py`) | records with versions, events with keys, tickets, sessions | create, update, delete, remind, deploy, issue, redeem, archive | `AppData` |
| Schema apps, version 1 (`services/generated_apps.py`, `api/routes/generated_apps.py`) | records that refer to each other | add, edit, delete by link or by the owner | `SchemaApps` |
| Groups and the ownership of their apps (`services/groups.py`, `api/routes/linq_webhooks.py`, `services/generated_apps_v2.py`) | member rows (status, role), the owner and how he came to be it, owner and memberships of the group's app | claim, synchronise, participant events, quit, transfer, revoke, authorize | `Groups` |
| Invites of groups of the web (`services/groups.py`, `api/routes/groups.py`) | invites and their counts, members | invite, join, leave, come back | `Invites` |
| Memory jobs and retrieval (`memory/service.py`, `memory/consolidation.py`, `workers/memory.py`) | jobs, facts, evidence, episodes | enqueue, claim, consolidate, retry, forget, recall | `MemoryJobs` |
| Users and sign-in (`services/users.py`, `services/auth.py`) | users, identifiers, identities | hear from an address, sign in, link, adopt | `Accounts` |
| Account deletion and reset (`services/account_management.py`, `services/user_reset.py`) | the deletion task, rows and credentials of a user | schedule, cancel, revoke, hand over, plan, purge | `AccountDeletion` |
| Waitlist and rate limits (`services/waitlist.py`, `services/waitlist_rate_limit.py`, `services/auth_rate_limit.py`) | entries, windows | admit, join, refer | `Waitlist` |
| Google integration (`services/integrations.py`) | consents, accounts, grants, tokens | authorize, callback, disconnect, refresh | `GoogleAccounts` |
| Financial sync (`services/finance.py`, `api/routes/integrations.py`) | connection, cursor, transactions, webhooks | link, webhook, sync pages, disconnect | `BankSync` |

`PROJECT.json` lists every component, the ones that stay outside included:
financial goals (single-row inserts; their check-ins are scheduled tasks), prompts
and text style (wording), model providers (external: an answer or an error), the
app compiler and SDK (a compiler and a browser harness without shared state),
configuration, database session and routes (settings are constants of the
modules, sessions are the transactions of the actions).

### How they interact

    webhook / web chat --> turn under the conversation lock --> tools
                                                                 |
            +-----------------+------------------+---------------+
            v                 v                  v
       build queue      scheduled tasks      follow-ups
            |                 |                  |
            +---> outbox <----+                  |
                    |                            |
                    v                            v
             wake under the conversation lock <--+
                    |
                    v
              bubbles --> deliveries --> Linq --> receipts (webhook)

* A build's terminal transaction inserts its outcome in the outbox (`app.completed`
  or `app.failed`); a scheduled task's run inserts `agent.reachout`
  under a key made of the task and the occurrence.
* The outbox worker wakes the agent, which writes one turn per event, and sends
  the turn's bubbles through idempotent deliveries.
* The conversation lock (`agents/locking.py`, a transaction-scoped advisory lock)
  orders turns of users, events and follow-ups of a conversation.
* A webhook or a web request commits its message and then runs a turn in its own
  process, under the lock; the turn enqueues a memory job, and its tools queue builds,
  tasks and follow-ups through the journal.
* The builder runs the pipeline between the claim and the completion of a job.  Records of a
  deployed app are changed under the same row lock as its deployment.
* Account deletion is itself a scheduled task, and cuts through everything else.
* Linq answers a send at once and reports the fate of a bubble later, through the
  webhook, possibly before the sender has recorded its own answer.

### What is hard, and what makes each component correct

* **Leases.** Every queue has a lease that can expire while its holder is
  alive.  The build queue fences the holder with (worker id, attempt); the
  outbox, the scheduler and the follow-ups do not fence at all.  *Builds:* only
  the latest claimant settles a job, a settled job stays settled.  *Outbox:* a
  re-run must not tell the user twice.  *Tasks:* a re-run must not lose or
  advance an occurrence.
* **Stale bases.** A build is based on the revision deployed when it was queued;
  rollbacks, archiving and writes of records go on meanwhile.  *Correct* when the
  base is still deployed at completion, the records in use fit every revision
  that is deployed, seeds are written once.
* **Lock order.** Completion takes the job row and then the app row, archiving
  the app row and then the job rows.  *Correct* when the queue gets out of the
  deadlock and no outcome is lost.
* **Partial failure.** A commit may be made and not acknowledged; failing a build
  may itself fail; a turn may be persisted and its delivery not.  *Correct* when
  each terminal state has exactly its event, and a processed event has been
  said.
* **Retries at their limit.** Attempts are counted at the claim; a process that
  dies in the last attempt leaves a row that only some of the queues recover.
* **Stale rows.** A request keeps the rows it loaded, and a later select for update
  of the same row locks it without refreshing it, unless `populate_existing` says so.
  What is written is the difference from what was loaded.  *Groups:* a group and
  its app have one owner, who is a member and the same for both.
* **Cancellation against dispatch.** Cancelling a task or answering before a
  follow-up races the worker that has already read the row.  Cancelling the deletion of an
  account does so too, and there what was revoked stays revoked.
* **Repetition.** Linq delivers twice, clients send again, executors take calls over.
  *Conversations:* one answer per message, and none passed over unread.  *Tools,
  records:* one effect per key, and one answer.
* **Reading before writing.** Sign-ins, callbacks, syncs and consolidations look something
  up, ask an outside service, and commit minutes later.  *Correct* when two people never
  get one account or one token, a removed connection stays removed, and a fact that was
  forgotten comes back only from a new turn.
* **Pools and limits.** A turn that waits for the conversation keeps a connection;
  the holder needs a second one.  Records, bytes, redemptions, attempts and places are
  counted, mostly under a lock.

The hazards, one by one and at their lines, are in `PROJECT.json`, each with the
properties that catch it, or a note on what the code does and none excludes.

## 2. Modules

| Module | Contents |
|---|---|
| `AppBuilds` | the build queue with everything that touches its rows |
| `BuildLedger` | what it promises: every build is requested, published or failed once, the deployment history moves as builds are published and swapped back |
| `BuildPipeline` | what happens to a claimed build until it is stored |
| `AppData` | records, calls, tickets and sessions of a code app |
| `MutationLedger` | what its calls promise: each takes effect once, is answered alike each time, and of two from one version of a record one takes effect |
| `SchemaApps` | records of an app of version 1 |
| `UserEvents` | the outbox and its dispatch to the phone |
| `Telling` | what the outbox and the follow-ups promise: an event is told at most once, and heard only after it was told |
| `ScheduledTasks` | the durable clock |
| `FollowUps` | follow-ups against the user's replies; also implements `Telling` |
| `Conversations` | from the message in to the reply out |
| `ToolJournal` | one journaled tool call |
| `CallOnce` | what the journal promises: one execution, one result |
| `MemoryJobs` | what is remembered of one user |
| `Groups`, `Invites` | who owns a group and the app built for it; who comes into it |
| `Accounts`, `AccountDeletion`, `Waitlist`, `GoogleAccounts`, `BankSync` | the user, his end, and what he connects |
| `AppBuilds_proofs`, `UserEvents_proofs`, `BankSync_proofs` | the proofs about one module each |
| `Groups_proofs` | those about `Groups`, `Invites`, `Conversations` and `RoomsMC` |
| `Work_proofs`, `Errands_proofs` | those about `BuildPipeline`, `ToolJournal` and `MemoryJobs`; about `ScheduledTasks`, `FollowUps` and `WorkMC` |
| `Apps_proofs`, `People_proofs` | those about `AppData`, `SchemaApps` and `AppsMC`; about `AccountDeletion`, `Accounts`, `GoogleAccounts`, `Waitlist` and `PeopleMC` |
| `AppBuildsMC`, `UserEventsMC`, `GroupsMC` | constants and symmetry for TLC |
| `RoomsMC`, `AppsMC`, `WorkMC`, `ErrandsMC`, `PeopleMC` | instances of several modules each: a variable `focus`, chosen at the start, says which of them moves |

A joined instance is not a composition: its parts share no state, and its behaviours are
those of each part.  The interactions that matter are inside the modules: what another
component may do to the rows of one is an action of that module (archiving in
`AppBuilds`, deployment, succession and archiving in `AppData`, deletion of the user in
`MemoryJobs` and `Accounts`, messages in `FollowUps`).

Each detailed module has a section *Faults*: definitions of the same shape as
one used by the actions, with one plausible slip.  No action uses them.  They
serve to check that each property is sensitive to the code it is about: with the
fault in place of the definition, TLC finds the property violated
(`PROJECT.json`, "mutants"; of a property that joins several parts, one fault is listed).

### AppBuilds

State: `status`, `attempts`, `claimedBy` and `leaseLive` of a job, its `base` and place
in the queue (`createdAt`), `revNum` of its revision, the events it `announced`, the
deployment (`active`, `previous`, `version`, `currentRev`), `appStatus`, the kinds of
entities among its live `records`, whether an archive holds the app row
(`archiving`), and per process a program counter and the `claim` it believes it
holds.  A job and the revision it
produces are one identity, since a job produces at most one revision.

| Action | Code |
|---|---|
| `CreateApp`, `QueueRevision` | `create_code_app_build`, `queue_code_app_revision` with their quotas and the "no other build" check |
| `ClaimBuild`, `TerminalizeExhausted` | `claim_next_build` and its branch for exhausted jobs |
| `BeginComplete`, `CommitComplete`, `AbortComplete` | `complete_build`: lock and fence, then wait for the app row, then commit, with or without an acknowledgment, or raise |
| `BreakDeadlock` | PostgreSQL ends the wait of completion for an app row that archiving holds while it waits for the job row |
| `BuildFails`, `FailBuild`, `FailSwallowed` | the pipeline's errors and `fail_build`, fenced, requeueing or terminal; and its own failure, which the hook swallows |
| `Rollback`, `WriteRecord`, `DeleteRecords` | `rollback_owned_code_app`, `create_data_record`, `delete_data_record`: requests that race with builds |
| `StartArchive`, `FinishArchive` | archiving: the app row, then the job rows |
| `Crash`, `ExpireLease` | a process dies; a lease runs out, whether or not its holder is alive |

Completion and archiving are the two operations that wait for a lock while they
hold another, and so are split.  The compare-and-swap of `complete_build` on the
base revision never fails in the model; the reason is
`LiveBuildOwnsDeployment`, not an omission: the guard is there.

### UserEvents

State: the event row (its `type`, `status`, `attempts`, its `note` of the error, and `ripe`: its
retry time or claim has expired), its `turn` (number of bubbles) and whether that
carries the app's `link`, the `delivery` of each bubble and the bubbles Linq has
`accepted`, whether the conversation is `open`, and per worker a program counter
and its local variables.

A dispatch is claim, gate (`Resolve`: the account, the conversation, opt-out, read
once), `TakeLock`, the wake (`PersistTurn`, `SaySilently`, `WakeFails`), delivery
per bubble (`OpenDelivery`, `Send`, `MarkSent` / `MarkFailed`), `Finish` or
`Retry`.  The last attempt of an app's outcome writes a canonical message with
the app's link instead (`CanonicalTurn`), and `Substitute` does so when the model's
turn for it was empty.  `Lifecycle` is a receipt of Linq, at any time after the
send.  `Finish` and `Retry` are not fenced, as in the code, so a worker whose
claim expired can overwrite the row: a processed event can become failed and
run again.  What the module shows is that this re-run says nothing new.

### ScheduledTasks

State: the row (`status`, `attempts`, `next`), a clock per task that counts the
occurrences whose time has come, the set of occurrences `fired`, and per worker
a program counter, the occurrence it claimed and the row as it read it.
`_complete_task` and `_retry_task` read without a lock and write the columns that
changed, so `Read` and `MoveOn` / `Fail` are two steps, and `Updated` writes
only the columns whose value differs from the one read, as the ORM does.

### FollowUps

State: per turn of the agent (named by the message or event that woke it) what has
become of it; per follow-up (named by that turn) its row (`status`, `attempts`,
`ripe`), whether its text is stored (`worded`) and accepted by Linq (`heard`), its
`born` position among follow-ups and whether a `newer` message is stored; whether
the user is opted out; per worker a program counter and the status it read.

`Receive` is the webhook: it cancels pending and processing rows, not failed ones.
Linq gives a message its creation time, so a delayed webhook may bring a message
that is older than follow-ups that exist: it cancels them and is yet not `newer`.
A turn that leaves a follow-up holds the lock until it commits
(`PlanFollowUp`, `CommitFollowUp`); a message that comes between does not see the
row.  A dispatch checks for newer messages at the start (`Check`), the channel
(`Resolve`), and the status under the lock before the model and after it
(`TakeLock`, `Recheck`).  Completion, cancellation and retry read the row and write
it later (`ReadRow`, `WriteRow`); each leaves different statuses alone.

### Groups

State: per member his `status` and `role`; the `owner` and the `source` of the
conversation row; `appOwner` and `appRole` of the group's app; and outside the
database who is in the chat at Linq (`inChat`), which participant `events` are still
to be delivered, and the open `request`s.  A request is a record of what it has
loaded (`owner`, `source`, roles `seen`) and of what it is going to write (`writes`,
and to `heir` or by `claims`).

| Action | Code |
|---|---|
| `Depart`, `Return` | people leave and return to the chat at Linq (external) |
| `ReceiveMessage`, `StartTurn` | the webhook of a message and the claim of a group turn that is going to answer: the conversation is loaded |
| `ListMembers` | participants are synchronised, the active ones listed; does this claim? |
| `ReceiveEvent`, `ReceiveLeave` | a participant event and quitting through the web: the member row is loaded and the role checked |
| `FindSuccessor` | the owner was removed: the row is flushed and so locked, the earliest active linked member looked up |
| `CommitMembers`, `CommitClaim`, `CommitUnlinkedClaim`, `CommitSuccession`, `CommitUnclaimed` | the five ways a request ends, by whom ownership moves to |
| `Fail` | the transaction is rolled back; Linq sends a participant event again |
| `CreateApp` | an app is made, under locks and with refreshed rows |

`Written` is the rule of the unit of work: a column is written when its new value
differs from the one loaded.  It is what makes two overlapping requests able to
disagree, and `MayOwnApp` (which refreshes) safe.  `Authority` is `authorize_user`.

### Invites

State: per invite its status and count, per user his row, the requests to join that are
open with what they have read, and as history who was let in by which invite.  Joining
locks nothing: `CheckInvite` reads the invite, `LookForMember` the members, `CommitJoin`
writes the count it had read plus one.  Two overlapping joins so let in one person more than
there are places; apart from them the count is that of the people let in.

### Conversations

State: the conversation (`kind`, whether its user is `onboarded` and has opted out), the
webhook events and messages recorded, the replies spoken with what they had read, the
messages covered without a turn, the lock and the connections of the pool, and per request
where it is.  A request is a webhook or a web request and the background task it adds.
A hook is an identity of an event of Linq, which may carry a message that another
event has carried.

| Action | Code |
|---|---|
| `Arrive`, `ReceiveHook` | `receive_linq_webhook` up to its look at recorded events and messages |
| `CommitEventAlone`, `CommitMessage`, `CommitDirect`, `CommitGroup` | the commit of a duplicate message, of a message with or without a turn; opting out and in |
| `SendWeb`, `CommitWeb` | `send_web_chat_message` and its replies that are there already |
| `Queue`, `Enter` | a connection is taken and the advisory lock waited for, then held |
| `LoadGroup`, `LoadTurn`, `LoadOnboarding`, `Decide`, `ReadLatest` | what a turn reads: the trigger or the latest message, whether it was covered, the transcript |
| `PersistTurn`, `PersistOnboarding`, `PersistFails` | the replies in one commit, or the key is taken |
| `DeliverTurn`, `DeliverGroup`, `DeliverOnboarding` | the end of the task, which in a group still holds the lock |
| `TimeOut`, `Break`, `LockDrops` | the pool times out; an error or the end of the process; the session of the lock is lost while its holder works on |

### ToolJournal

One call with its key: the row (`status`, `claimed_by`, whether the lease is in force),
the mutations committed under the key of the call, and per executor where it is, its heartbeat and
what its tool returned.  Neither the lease nor `claimed_by` is what makes a call happen
once: a suspended executor performs beside the one that took over.  The key that
tools hand to the services does (`KeyPerCall`), and the compare-and-swap of the settlement
gives the call one result.  `CallOnce` is the register both implement.

### AppData, SchemaApps

`AppData` has the app's owner, sessions and tickets, the records with their versions, the log of
events by key, and the requests under way.  A mutation holds the row of the app from
`Enter` to its commit (`CommitCreate`, `CommitUpdate`, `CommitDelete`, `CommitReminder`) or
`Abort`; `Replay` answers a call whose key is in the log.  `Deploy`, `TransferApp`, `Unclaim`,
`ArchiveApp`, `IssueTicket` and `Redeem` take the same lock and are single steps.

`SchemaApps` has the rows of an expense splitter and requests that load all of them
(`Load`), validate against what they loaded (`ValidateCreate`, `ValidateUpdate`,
`ValidateDelete`) and commit a row (`CommitRow`).  Only the calls of the owner hold the app's
row meanwhile, so a reference can be lost between two requests of the link;
`SoundUnlessRaced` says that it is lost no other way.

### MemoryJobs

State: jobs, episodes, facts and evidence of one user, and per worker its job, the
operation the model has extracted and the row it applies to.  `ClaimJob`, `LoadInput`,
`BeginPersist`, `CommitPersist` and `FinishJob` / `RetryJob` are the five transactions of a job;
none is fenced, and `LockLapses` gives the job to another worker.  `BeginForget` /
`CommitForget` and `BeginRecall` / `EndRecall` are the user's.  Which facts pass the floor of
similarity is open; that they are active, current and within the limits is not.

### BuildPipeline

A candidate is the set of its defects.  A round is `Inspect` (policy and compilation,
whose failures hide what later gates would find), `Smoke`, `Review` and `Judge`, which
accepts, repairs, regenerates once when an acceptance failure repeats, or rejects.
`Interrupted` is the deadline or an outage, `LoseLease` and `BuilderDies` what happens to the
claim.

### Accounts, AccountDeletion, Waitlist, GoogleAccounts, BankSync

`Accounts`: visits look for the user of an address (`Receive`, `SignIn`, `SignInAgain`)
and commit later (`Recognise`, `Adopt`, `Create`, `TakeConcurrent`, `LinkAll`, `Refuse`), while `Erase`
removes users under them.

`AccountDeletion`: the task with its attempts, a cancellation that has read it, and the worker
that revokes (`Revoke`), plans (`Plan`) and purges (`Purge`); the user writes, connects and changes
groups meanwhile.  `late` are the rows that came after the worker had listed them.

`Waitlist`: both limiters as windows of times per rule and key, and joins that overlap.
`admitted` is what the limiters forget, the times of all that was let through.

`GoogleAccounts`: a callback stands for the token it gets.  `unsettled` are identities two requests worked
on at once, or one left half done; what holds of a token's owner holds
of them too, what holds of revocation does not.

`BankSync`: Plaid's feed, which may be amended up to where somebody has read it to the end; a
sync reads pages from its cursor (`ReadPage`, `EndPages`), starts again when the feed was
amended (`StartAgain`), and commits rows and cursor together (`CommitSync`).

## 3. Runs

`tlc -config X.cfg M` runs each; the figures are distinct states.

| Run | Instance | Question |
|---|---|---|
| `builds_safety` (419,852) | one app, 3 jobs, 2 processes that share one worker id, 2 attempts, 2 kinds of records, 4 pointer moves | the safety of the build queue, and that it implements `BuildLedger` |
| `builds_live` (60,021) | two apps, 2 jobs, 2 processes | every build settles |
| `events_safety` (604,860) | 1 event of any type in a group, 2 workers, 3 attempts, 2 bubbles, crashes, leaving the group | what stale and repeated dispatches of an event may do to turn, deliveries and row; the outbox implements `Telling` |
| `events_live` (423,243) | 2 events of one conversation, 2 workers, 2 attempts, no crashes, no delivery by Linq | wakes of one conversation are serialised, and every outcome reaches it |
| `rooms_safety` (4,033,872) | *owner:* two users and a handle without one, one request at a time, 4 moves, 3 messages. *turns:* three events with two messages and a web message, 2 requests, a pool of 3. *invites:* three guests, two invites with two places, two joins at once | who owns a group and its app, who comes into it, and that each message is answered once |
| `apps_safety` (473,575) | a code app: two users, two sessions, a ticket, three records, six calls under three keys, two manifests, limits of 2, two handlers; a schema app: two names, three rows, two requests | calls take effect once, under authority and within limits, and implement `MutationLedger`; references are lost only in races |
| `work_safety` (1,323,037) | two executors of one call; two jobs, two workers and two facts about two claims; two fingerprints, two repairs, two reviews; a task, two dispatchers, three attempts, three occurrences; two messages, two workers, two attempts | once-only calls (`CallOnce`), memory, verified builds, occurrences, follow-ups (`Telling`) and cancellations, with failures and crashes |
| `errands_live` (202,322) | two messages, two requests, a pool of 2; a task over three occurrences, two dispatchers; a message and an event with follow-ups, two workers, two attempts | turns, tasks and follow-ups come to an end |
| `people_safety` (2,267,802) | three users, two phones, an address two people share, two visits; two credentials, a row and a trace, two attempts; two clients and two addresses over four ticks; one identity, two services, two consents and callbacks; two transactions, two updates, two links, one sync | accounts, deletion, waitlist, connections and bank rows |
| `schedules_restart`, `groups_divided`, `groups_departed` | one worker; two overlapping requests; one request | the disagreements of section 6 |

**Why these bounds.**  A lease is contended by a holder that has lost it and one
that has it; a third process adds no role, and processes are interchangeable.
Two attempts give a first, a last and an exhausted attempt; three
jobs of one app give a first build, a revision and a second revision after a
rollback, which is the least for a revision number to clash or a base to be
stale.  Sharing one worker id is the harder case for the fence, since two
containers may report the same host name and process id.  Two kinds of records,
one of which only later manifests have, make a rollback invalid.  Two
bubbles let a delivery stop in the middle; one occurrence before and one after
the present suffice for a row to be moved on or set back once, and three attempts for a task
to fail, be tried and be abandoned.
Two messages let each reply to the follow-up of the other's turn, and one opt the
user out and the other in again; a third, and one of them delivered as two events, give a
burst, a late message and a duplicate.  A pool of as many connections as there are
requests is exhausted when one holds the lock and the other waits for it.
Two users and a handle without one let a claim be made by either kind, and leave a
group with and without a successor.
Two sessions and three keys let a call be repeated while another holds the app, a key be
used for two calls, and two calls name one version.  Two claims that share an entity, and
two facts, let one fact supersede another, be forgotten and told again.  Two people
who share an address are the least for a sign-in to be ambiguous.  Two consents, callbacks
and services let the last service be disconnected while another is added.  A feed of two
updates is amended once while it is read; a place more in any window than the limits
of 1 and 2 allow is seen within four ticks.
`BankSync` runs with one sync at a time, as one worker process is deployed
(`src/railway.event-worker.json`); with more, rows may come back (section 6).
`MaxMoves` (departures, returns and quitting) and `MaxMessages` (webhooks of
messages and turns) bound what comes from outside, `MaxVersion` and `MaxClock` cap
counters that are unbounded in the code, in the guards of `Promote`, `Tick` and the
actions that open a request; `LastTick`, `FeedLength` and `Links` do so for the clock of the
limiters, the feed and the times a bank is linked.

Runs turn deadlock checking off: every request a user can make is finite in the
instance, and a system without open requests rests.

### Fairness

Only the workers, requests that have begun, and clocks are fair.  `AppBuilds!Fairness` assumes that pollers
poll, that a build ends (the pipeline runs under one global timeout), that a
report of a failure is made or given up, that leases run out, and that PostgreSQL
ends transactions and breaks deadlocks.  The one strong fairness is for
completion while it waits for the app's row: requests that lock the row come and
go, but PostgreSQL's lock queue hands it to the waiter.  `UserEvents!Fairness`,
`SchedulesFairness` and `FollowUpsFairness` are weak fairness of each worker and of the clocks: a
worker loop polls every few seconds, and every call it makes has a timeout.
`ConversationsFairness` is weak fairness of each step of a request that has begun, the
timeout of the pool among them, and strong fairness of getting the advisory lock, whose
waiters PostgreSQL serves in turn.
Requests of users, receipts, crashes, and membership changes are never fair.
Crashes are part of `builds_live`, since the lease recovers jobs even at their
limit; they are not part of the other liveness runs, because an event, task or follow-up
whose worker dies in its last attempt is never recovered, and a turn whose process dies
is not started again (section 6).

## 4. Proofs

Eight modules prove all 36 safety properties that the runs show to hold, the
refinements among them, for every value of the constants that the named `ASSUME`s of the
modules admit.  Each invariant below was checked by TLC, on the instance of its run, before
it was proved.  A theorem is about the module's own `Init /\ [][Next]_vars`, or about the
joined specification of an MC module, whose behaviours are those of its parts.

`AppBuilds_proofs` proves, from `ConstantsAssumption` alone and so for every number
of apps, jobs, processes, attempts and kinds of records, and for any assignment
of worker ids:

| Theorem | Statement |
|---|---|
| `TypeCorrect` | `Spec => []TypeOK` |
| `QueueAlwaysSound` | `Spec => []QueueIsSound`: joins `AttemptsUnique`, `OutcomesAnnounced`, `LiveBuildOwns`, `ArchivedStaysQuiet` |
| `DeploymentAlwaysSound` | `Spec => []DeploymentIsSound`: joins `RecordsAlwaysFit`, `NumbersIdentify` |
| `StepsAlwaysSound` | `Spec => StepsAreSound`: joins `LatestClaimantSettlesAlways`, `SettledForGood`, `NeverReseeded` |
| `AttemptsUnique` | `Spec => []AttemptsAreUnique` |
| `LatestClaimantSettlesAlways` | `Spec => LatestClaimantSettles` |
| `OutcomesAnnounced` | `Spec => []OutcomeAnnounced` |
| `LiveBuildOwns` | `Spec => []LiveBuildOwnsDeployment` |
| `ArchivedStaysQuiet` | `Spec => []ArchivedIsQuiet` |
| `SettledForGood` | `Spec => SettlementIsFinal` |
| `QueueImplementsLedger` | `Spec => LedgerSpec` |
| `RecordsAlwaysFit` | `Spec => []RecordsFitDeployed` |
| `NeverReseeded` | `Spec => NoReseed` |
| `NumbersIdentify` | `Spec => []RevisionNumbersIdentify` |

None of these properties is inductive.  The argument has four layers.

1. *Claims* (`Inv`).  A busy process holds a claim on a job; the attempt of a claim
   never exceeds the job's count, and is the count only while nobody has claimed
   since; two claims of one job differ in their attempts.  A process in
   `completing` satisfies the fence, for as long as it holds the job's row lock:
   this is what the row lock is for, and why only the latest claimant settles.
2. *The queue* (`QueueInv`).  Adds that an absent app has no jobs and no deployment, that a job has
   its event, that the live build of an app is alone and is based on the deployed
   revision, and that archived apps have no live build.  The four need each other:
   the base stays deployed because rollback and revision find no live build, and
   an archived app can be left out because it is quiet.
3. *Meaning of a step* (`StepMeaning`).  Under `QueueInv` every step is quiet (the
   outcomes, pointers and archived apps stay) or is one of the ledger's: a request, a
   failure, a publication, a swap back, a close.  Refinement and finality of
   settlement both follow from it.
4. *Records and numbers* (`RecordsInv`, `NumbersInv`).  Records fit because
   promotion checks them under the app's lock; numbers identify because the next one exceeds
   all of the app's, which needs that deployment pointers stay within their app
   (`PointersStayHome`).

`Groups_proofs` proves, from `GroupAssumption`, `InvitesAssumption` and `ConversationsAssumption`
and so for any members, users, messages and number of overlapping requests:

| Theorem | Statement |
|---|---|
| `TypeCorrect` | `Spec => []TypeOK` |
| `OneOwnerOfTheApp` | `Spec => []AppHasOneOwner` |
| `AuthorityFollows` | `OneAtATime` implies `Spec => []AuthorityFollowsTheGroup` |
| `OwnershipStays` | `OneAtATime` implies `Spec => OwnershipIsNotTaken` |
| `InvitesCount` | `InvitesSpec => [](InvitesTypeOK /\ InvitesCountPeople)` |
| `MessagesAnswered` | `ConversationsSpec => [](ConversationsTypeOK /\ EachMessageIsAnswered)` |
| `RoomsAnswer` | `RoomsSpec => []MessagesAreAnswered` |
| `GroupStaysConsistent` | `OneAtATime` implies `RoomsSpec => []GroupIsConsistent` |

`TypeOK` becomes inductive with `OpenHasMember` (an open request is about a member,
and a claimant or departing user is found from him).  `AppHasOneOwner` is then
inductive: both ways to move an app demote or delete every owner membership but the
heir's, whatever the request had loaded, because the memberships are read under the
same transaction that writes them.

Where a theorem needs `OneAtATime`, that is that `Requests` has at most one element: with two,
`groups_divided` shows the group and its app disagree.  The run has one request, and the
theorems hold for any members, users and length of its history.  `SingleInv` adds that the
open request is `Fresh`, which is to say that what it has loaded is what is stored, and
`GroupKept`: a group has one owner, or none while it is unclaimed; an owner with an account is
the user of the group's row; and the app is that user's or nobody's.

*Invites* (`InvitesInv`).  The count a join has read is at most the number of people let in by its
invite (`JoinKept`), which never falls, although the count in the row may: this is why two
joins at once let in more than they count and never fewer.  Of an invite with which no joins have
overlapped, one join at most is about (`AloneWith`), and has read the count as it is.
*Messages* (`TurnInv`).  A webhook event whose message was stored, and that a request or a
reply has, is the only one with that message (`OneEventPerMessage`): it was new when it was committed.
A reply, and a turn that runs, has read every message written before its trigger but those
that came late (`ReadsWell`); so a message covered by a reply was read by it.  While the lock
lasts its holder is alone, and in a group the message it is about, and then its trigger, is later than
the trigger of every reply (`ProcKept`); so no trigger is answered twice.  `LatestIsStored` is
a lemma: the messages that are stored are bounded.

`UserEvents_proofs`, from `ConstantsAssumption`:

| Theorem | Statement |
|---|---|
| `TypeCorrect` | `Spec => []TypeOK` |
| `DeliveredOnce` | `Spec => []DeliveredOnceInFull` |
| `Serialised` | `Spec => []WakesSeeTheConversation` |
| `LinkCarried` | `Spec => []CompletionsCarryTheLink` |
| `ReceiptsKept` | `Spec => ReceiptsNeverRegress` |
| `Implements` | `Spec => TellingSpec` |

`Inv` says of each dispatcher what it knows of its event at each of its steps (`WorkerOK`), of
each event what its row says about turn and deliveries (`RowOK`), and of the conversation
lock that who words a turn is alone, that the turn is new, and that its author has seen the
earlier ones (`LockInv`).  No dispatcher is fenced, so `WorkerOK` must survive every step of
another (`OthersKeepIt`).  It does because all that it speaks of only grows: a turn is
written once, Linq takes bubbles in order and forgets none, links stay.  A row of a processed event
is true for the same reason, although the row itself may be overwritten.

`Errands_proofs`, from `SchedulesAssumption` and `FollowUpsAssumption`:

| Theorem | Statement |
|---|---|
| `TasksTypes`, `NothingLeft`, `TasksCancelled` | `SchedulesSpec` implies `[]SchedulesTypeOK`, `NothingLeftBehind`, `TasksStayCancelled` |
| `FollowUpTypes`, `Worded`, `Heard`, `FollowUpsCancelled` | `FollowUpsSpec` implies `[]FollowUpsTypeOK`, `[]WordedOnce`, `[]CompletedMeansHeard`, `FollowUpsStayCancelled` |
| `ReplyFirst` | `FollowUpsSpec => ReplyGoesFirst` |
| `FollowUpsTell` | `FollowUpsSpec => TellingSpec` |
| `ErrandsDone`, `Cancellations`, `WorkTypes` | `Spec` of `WorkMC` implies `ErrandsAreDone`, `CancellationsHold`, `[]TypeOK` |

*Tasks* (`TasksInv`).  While a dispatch lasts, the row of its task is at the dispatch's occurrence or at
the next one to come, so whatever it read before it writes is one of the two (`Moved`), and
what it writes over a cancellation is what it had read.  *Follow-ups* (`FollowInv`).  A dispatch that asks
for words, or has them, holds the lock alone and its follow-up is not worded (`SpeakerOK`,
`LockKept`); and the first dispatch of a follow-up is alone with it and finds the row as it has claimed
it or cancelled by a reply (`OneByOne`, `FirstOf`), which is why a reply goes first only then.

`Work_proofs`, from `BuildPipelineAssumption`, the journal's constants as they come, and `MemoryJobsAssumption`:

| Theorem | Statement |
|---|---|
| `BuildsVerified`, `PipelineTypes` | `BuildPipelineSpec` implies `[]BuildsAreVerified`, `[]BuildPipelineTypeOK` |
| `CallsOnce`, `JournalTypes` | `ToolJournalSpec` implies `CallsTakeEffectOnce`, `[]ToolJournalTypeOK` |
| `MemoryKept`, `MemoryTypes` | `MemoryJobsSpec` implies `MemoryIsTheUsers`, `[]MemoryJobsTypeOK` |

*Builds.*  `Gated` says which gates the candidate of each stage has passed, and `Spent` that a
generation and every kind of failure seen was paid for by a repair.  *Calls.*  A result that says
success has its mutation (`SuccessIsReal`), whoever holds the lease.  *Memory.*  A job that
a worker is about to call processed has its episode, unless it went with the user
(`MemoryWorkerOK`); and a step that makes a fact known stores the episode of its turn
(`Learns`), all others making nothing known (`MakesNothingKnown`).  That recall keeps to its limit
needs a second invariant (`Recalling`).

`Apps_proofs`, from `AppDataAssumption` and `SchemaAppsAssumption`:

| Theorem | Statement |
|---|---|
| `LimitsKept`, `AppDataTypes` | `AppDataSpec` implies `[]WithinLimits`, `[]AppDataTypeOK` |
| `AuthorityKept` | `AppDataSpec => CommitsUnderAuthority` |
| `LedgerImplemented` | `AppDataSpec => MutationsTakeEffectOnce` |
| `SoundnessKept` | `SchemaAppsSpec => SoundUnlessRaced` |
| `AppTypes` | `Spec` of `AppsMC` implies `[]TypeOK` |

A call that holds the row of the app was authorized by what holds still, and what it has read is
what is stored (`Authorized`, `UpToDate`); this is what the lock is for, and all else follows
from it.  The limits need that the counts are of finite sets, and that one more of a set is one
more to count.  A schema call that is not stale has validated against the rows as they are
(`Loaded`, `Validated`), and such a commit keeps `Sound`.

`People_proofs` and `BankSync_proofs`, from `AccountsAssumption`, `AccountDeletionAssumption`,
`GoogleAssumption`, `WaitlistAssumption` and `BankSyncAssumption`:

| Theorem | Statement |
|---|---|
| `AccountsSeparate`, `AccountTypes` | `AccountsSpec` implies `[]AccountsAreSeparate`, `[]AccountsTypeOK` |
| `DeletionComplete`, `DeletionTypes` | `AccountDeletionSpec` implies `[]DeletionIsComplete`, `[]AccountDeletionTypeOK` |
| `ConnectionsKept`, `GoogleTypes` | `GoogleSpec` implies `[]ConnectionsAreTheUsers`, `[]GoogleTypeOK` |
| `WaitlistFair`, `WaitlistTypes` | `WaitlistSpec` implies `[]WaitlistIsFair`, `[]WaitlistTypeOK` |
| `FeedFollowed`, `BankTypes` | `BankSpec` implies `[]RowsFollowTheFeed`, `[]BankTypeOK` |
| `PeopleTypes` | `Spec` of `PeopleMC` implies `[]TypeOK` |

*Accounts.*  What a visit has found may be gone when it commits; if not, the address still leads
there (`RequestOK`).  A phone is of one user at most, and all addresses of a subject that has
signed in are its user's (`PhonesApart`, `Identified`).
*Deletion.*  While the account lives, what an attempt has not listed came late (`AttemptOK`).
*Google.*  A row and a token are of one user and one identity (`Pair`), and of an identity nobody
has worked on twice at once, what any request is about to write is right (`Settled`).
*Waitlist.*  The times a rule still counts are the last of those it let through, and the others
are a window old (`Remembers`); an attempt that finds fewer than the limit is therefore a window
later than the one a limit before it.
*Bank.*  The sync of the connection that is there is told from those of one that was
removed.  While nothing was missed it is alone, has read the feed from the cursor on
(`ReadRight`), and what the rows lack is ahead of it, of a task that has not begun, or of a
webhook (`Attended`).  Rows after a commit are those of the longer feed because the last page of a
transaction is its last update (`MaxShifted`, `AppliedIsReported`).

**Assumptions on constants.**  They say that sets are finite where the code counts, that the null
values are values of nothing else, that sets of different kinds of identities are apart where
one column holds either, that limits are numbers, and that a call names its key and who makes it.  The one
hypothesis that is not of this kind is `OneAtATime`.

**Model-checked only.**  `EveryBuildSettles`, `OutcomesReachTheUser`, `ErrandsEnd` and
`TurnsEnd`, since TLAPS does not reason about fairness and `ENABLED`.

## 5. What the model abstracts

* Transactions that hold at most one contended lock at a time are one step.
* Of builds and tasks, idempotency keys are the identity of the rows: a replay finds the row
  and changes nothing, so it is no action.  In `AppData`, `ToolJournal` and `Conversations`,
  where a key may be used twice at once, keys are modelled.
* A record of an app is the kind of entity it is of, or a version and a size; a manifest is the
  set of kinds it accepts.  Which values a schema admits is left out, and so are expressions,
  money and layout of apps of version 1.
* The source of an app, its artifacts and the reviewers' findings are, in `BuildPipeline`, the
  set of defects a candidate has, and in `AppBuilds` an outcome of the build.
* What the agent says is a number of bubbles, and whether the app's link is among
  them.  `link` of a completed build's turn is true because the sanitiser that
  writes it appends or substitutes the trusted link (`TurnHasLink`).
* The order in which the outbox hands out ripe events is left open; the order of
  the build queue (oldest first) is kept.
* Opting out is read once, at the gate of an event, and is part of the choice `ready` there.
* A turn reads all that was said: the limits of the code (40 messages of context, the last 12
  outbound messages when a burst is covered) are beyond the messages of the instance.
* Signatures, attachments and the parsing of webhooks, the codes of sign-in, and the scores of
  retrieval are left out, or a free choice.
* A group has one app, a member one handle; the order in which members joined, by which a
  successor is chosen, is left open.  Names and Dot's own presence in a chat are left out.
  Requests that lock rows in different orders may be aborted by PostgreSQL: `Fail`.
* A dispatch of a task ends before its next occurrence, a day later (`Tick`).
* Paused tasks (nothing sets the status) and `run_count` are left out, and quotas on builds
  and apps are modelled in guards without a property of their own: they are one
  count under one lock.
* The deletion worker is one process, as deployed.  Attachments held by Linq are deleted
  there on a best-effort basis and left out.
* Google's watches and profiles, Plaid's link sessions and balances are left out.

Not modelled at all: the components named in section 1 as outside.

## 6. Disagreements with the documentation

Three runs show the code doing what a document or a docstring excludes.

* `SurvivesRestarts` (`schedules_restart`).  `src/README.md:175-176`: tasks "survive
  restarts".  `_claim_task` asks for attempts below
  the limit also of a row in processing whose claim expired.  A task whose worker
  dies in the last attempt stays in processing for ever: it neither fails nor
  recurs.  The outbox has the same guard (`UserEvents!AttemptsLeft`); the build
  queue does not, and terminalises such jobs.
* `GroupAndAppAgree` (`groups_divided`).  `services/groups.py:576`: "Transfer a group
  and all of its generated apps in one transaction."  When two members invoke Dot at
  once, the second claim holds the conversation as it was before the first.  Its
  select for update does not refresh the row, so if its claimant is the user the row
  had then, `user_id` is not written, while the apps, read afresh, are moved.
* `DepartedHasNoApp` (`groups_departed`).  `services/groups.py:734`: "Remove owner
  authority while a group has no linked successor."  The owner leaves and nobody can
  take over.  Then somebody
  without an account invokes Dot: `claim_group_owner` marks the group as claimed
  (`:564`) but leaves `user_id` of the group and its apps with the one who left,
  and `authorize_user`, which denied him while the group was unclaimed, makes him the
  owner again.

The modules contain further behaviours a reader of the documents may not expect,
for which no run is kept:

* Follow-ups.  `_run_agent_wake` returns a stored turn before it looks at the
  follow-up's row.  When the delivery of a worded follow-up was cut off, its next
  attempt can get the conversation lock behind the user's reply and deliver the old
  words although the reply has cancelled the row.
* Tasks.  `_retry_task` sets a row to failed with a backoff of seconds whatever has
  happened to it since.  If the task was moved on to its next occurrence meanwhile, the
  failed row is due at once, and the occurrence of the next day or week is dispatched
  now.  The real occurrence later finds its key used.
* Groups.  A member quits while a claim for him is in flight, and each side checks
  the row as it had loaded it: the group is left with an owner who has left.
  Participant events that overtake each other do so without any overlap.
* Invites.  Overlapping joins write the same `use_count`, so more people than places come in;
  somebody who left comes back by any valid invite and is not counted.
* Conversations.  A message of a group that arrives late can be passed over as covered by a
  reply that was composed without it.  A turn that dies with its process is not started
  again: Linq's redelivery is answered as a duplicate, and only the web client's retry
  repairs it.  A message of the web in a group with phones can be answered both by the turn
  of the group and by its own.  Opting out does not stop a reply under way.
* Tools.  Each attempt of a wake makes a new `AgentRun` (`agents/service.py:432`), whose id is
  part of the keys, so a wake that is tried again runs its tools again.  A tool whose commit
  succeeded and whose answer was lost is recorded as failed.
* Memory.  A fact that has expired and is told again counts as a duplicate and stays expired.
  An episode stored while the user's request to forget is under way stays retrievable.  A
  worker that dies in a job's last attempt leaves it in processing for ever.
* Deletion of an account.  A task that has used up its attempts counts as scheduled: the user is
  told that the deletion is coming, and it never runs.  A cancellation that races the claim may
  report success for an account that is then deleted; one that comes after a failed attempt
  leaves the account with its providers revoked.  Somebody who joins a group after it was
  handed over loses it with the purge, if nobody could take it.
* Google.  Two services disconnected at once each see the other's grant, and the token is
  never revoked.  A service added while the last one is disconnected may be reported as
  connected although its grant is gone.
* Bank.  A webhook with the cursor of an earlier one is taken for a duplicate, and its update
  waits for the next.  Were syncs of a connection to overlap, a removed transaction could
  come back.

## 7. Plan

The modelling of the plan and its proofs are done; the four liveness properties stay with TLC.

Of the code, what is left is small: Google's watches and their renewal, names of groups
and of their members, Dot's own presence in a chat, link sessions and balances of banks, and
financial goals, none of which shares state with the properties above.
