------------------------------- MODULE AppData -------------------------------
(***************************************************************************)
(* The records of one code app, the calls that read and change them, and   *)
(* the bearers that may make those calls (services/generated_apps_v2.py    *)
(* behind api/routes/generated_apps_v2.py).                                *)
(*                                                                         *)
(* A call is sent any number of times: clients repeat what was not         *)
(* answered, also when it took effect.  A mutation is one transaction that *)
(* holds the row of the app from the authorization to the commit; it is    *)
(* split where it reads what it writes by.  Deployments, changes of owner, *)
(* archiving and redemptions take the same row lock and are single steps.  *)
(*                                                                         *)
(* The data of a record is the set of its fields, its size their number.   *)
(***************************************************************************)
EXTENDS Integers, FiniteSets

CONSTANTS
  Users,           \* users with a place in the conversation of the app
  Sessions,        \* generated_app_sessions rows
  Tickets,         \* generated_app_access_tickets rows
  Records,         \* generated_app_data_records rows
  Seeds,           \* the rows planted by the first deployment
  Keys,            \* idempotency keys
  Calls,           \* the mutations that clients send
  Manifests,       \* manifests of the revisions that may be deployed
  Handlers,        \* requests being served at a time
  Nothing,         \* NULL
  MaxRecords,      \* _MAX_RECORDS_PER_APP
  MaxBytes,        \* _MAX_DATA_BYTES_PER_APP
  MaxPerActor,     \* _MAX_MUTATIONS_PER_ACTOR_MINUTE
  MaxPerApp,       \* _MAX_MUTATIONS_PER_APP_MINUTE
  MaxRedemptions   \* _MAX_COLLABORATIVE_ and _MAX_PRIVATE_TICKET_REDEMPTIONS

Actors == Users \cup Sessions

ASSUME AppDataAssumption ==
  /\ IsFiniteSet(Users) /\ IsFiniteSet(Records) /\ IsFiniteSet(Keys)
  /\ Users \cap Sessions = {}
  /\ Seeds \subseteq Records /\ Cardinality(Seeds) <= MaxRecords
  /\ Nothing \notin Actors \cup Records \cup Manifests \cup Calls
  /\ Nothing \notin [call : Calls, response : [rec : Records \cup {Nothing}, version : Nat]]
  /\ Nothing \notin [rec : Records \cup {Nothing}, against : Nat, version : Nat]
  /\ \A c \in Calls : /\ c.key \in Keys /\ c.by \in Actors /\ c.expects \in Nat
                      /\ c.op \in {"create", "remind"} => c.expects = 0
  /\ \A m \in Manifests : m.required \subseteq m.fields /\ IsFiniteSet(m.fields)
  /\ {MaxRecords, MaxBytes, MaxPerActor, MaxPerApp, MaxRedemptions} \subseteq Nat

VARIABLES
  appLive,    \* GeneratedApp.status = "active"
  shared,     \* .access_mode = "collaborative_link"; private apps never change hands
  owner,      \* .user_id, Nothing while the group is unclaimed
  members,    \* the users with a GeneratedAppMembership of role "member"
  session,    \* GeneratedAppSession: status, role and user
  uses,       \* GeneratedAppAccessTicket.redemption_count, -1 before it is issued
  ticketLive, \* tickets whose expires_at lies ahead
  deployed,   \* manifest of the active revision
  record,     \* GeneratedAppDataRecord: version (0 before the row) and fields
  removed,    \* the rows that were deleted
  event,      \* GeneratedAppEvent by idempotency_key: call and response
  recent,     \* the events of the last minute
  reminders,  \* scheduled tasks under generated_app.reminder:{app}:{key}
  pc,         \* where a request is
  work,       \* its call, the role it was given and what it has read
  answers     \* what clients were answered under a key

accessVars == <<appLive, shared, owner, members, session, uses, ticketLive>>
dataVars   == <<deployed, record, removed, event, recent, reminders>>
vars == <<accessVars, dataVars, pc, work, answers>>

NoRecord == [version |-> 0, fields |-> {}]
NoSession == [status |-> "none", role |-> "none", user |-> Nothing]
NoWork == [call |-> Nothing, role |-> "none", manifest |-> Nothing, room |-> 0]
Present == {r \in Records : record[r].version > 0 /\ r \notin removed}

-----------------------------------------------------------------------------
(***************************************************************************)
(* Faults.  Each operator is the definition of the same shape below with   *)
(* one plausible slip in it; no action uses them.                          *)
(***************************************************************************)

\* The row of the app is not locked.
NeverLocked == TRUE

\* The UPDATE does not ask for the version.
AnyVersion(r, v) == TRUE

\* A ticket is good as long as it lives.
RedeemedFreely(t) == TRUE

\* The bytes of an update are not counted against what the app stores.
OnlyTheAdded(n, room) == n <= MaxBytes

-----------------------------------------------------------------------------
(***************************************************************************)
(* Decisions of the code                                                   *)
(***************************************************************************)

\* SELECT .. FOR UPDATE on the app would return.
AppLockFree == \A h \in Handlers : pc[h] = "idle"

\* _authorize_user_for_locked_app and _session_actor.
RoleOf(a) ==
  IF a \in Users
  THEN IF a = owner THEN "owner" ELSE IF a \in members THEN "member" ELSE "none"
  ELSE IF session[a].status = "open" THEN session[a].role ELSE "none"

Writable == {"owner", "editor", "member"}

\* A bearer of a session is no proof of a user.
MayRemind(a, role) == a \in Users /\ role \in {"owner", "editor"}

\* _validate_entity_data.
Fits(m, fields) == m.required \subseteq fields /\ fields \subseteq m.fields

\* The sum of data_bytes.
Used == Cardinality({p \in Records \X UNION {m.fields : m \in Manifests} :
                       p[1] \in Present /\ p[2] \in record[p[1]].fields})

\* _enforce_app_storage_limit.
HasRoom(n, room) == n <= 0 \/ n <= room

\* _enforce_mutation_rate_limit.
Identity(a) == IF a \in Sessions /\ session[a].user # Nothing THEN session[a].user ELSE a
Unhurried(a) ==
  /\ Cardinality({k \in recent : Identity(event[k].call.by) = Identity(a)}) < MaxPerActor
  /\ Cardinality(recent) < MaxPerApp

\* The redemptions of a ticket are counted.
RedemptionsLeft(t) == uses[t] < MaxRedemptions

\* The WHERE clause of the UPDATE and of the DELETE.
VersionIs(r, v) == record[r].version = v

\* The record after the call.
Merged(c) == (record[c.rec].fields \cup c.sets) \ c.unsets

-----------------------------------------------------------------------------
AppDataInit ==
  /\ appLive = TRUE
  /\ shared \in BOOLEAN
  /\ owner \in Users
  /\ members = {}
  /\ session = [s \in Sessions |-> NoSession]
  /\ uses = [t \in Tickets |-> -1]
  /\ ticketLive = {}
  /\ deployed = Nothing
  /\ record = [r \in Records |-> NoRecord]
  /\ removed = {}
  /\ event = [k \in Keys |-> Nothing]
  /\ recent = {}
  /\ reminders = {}
  /\ pc = [h \in Handlers |-> "idle"]
  /\ work = [h \in Handlers |-> NoWork]
  /\ answers = [k \in Keys |-> {}]

-----------------------------------------------------------------------------
(***************************************************************************)
(* A mutation                                                              *)
(***************************************************************************)
Leave(h) == pc' = [pc EXCEPT ![h] = "idle"] /\ work' = [work EXCEPT ![h] = NoWork]

\* _actor and _reauthorize_actor: lock the app, read who the caller is.
Enter(h, c) ==
  /\ pc[h] = "idle"
  /\ AppLockFree
  /\ appLive /\ RoleOf(c.by) \in Writable
  /\ pc' = [pc EXCEPT ![h] = "entered"]
  /\ work' = [work EXCEPT ![h] = [NoWork EXCEPT !.call = c, !.role = RoleOf(c.by)]]
  /\ UNCHANGED <<accessVars, dataVars, answers>>

\* The key is known: the stored response is the answer.
Replay(h) ==
  LET c == work[h].call
  IN  /\ pc[h] = "entered"
      /\ event[c.key] # Nothing
      /\ event[c.key].call = c
      /\ answers' = [answers EXCEPT ![c.key] = @ \cup {event[c.key].response}]
      /\ Leave(h)
      /\ UNCHANGED <<accessVars, dataVars>>

\* Key unknown, limits kept: read the manifest, what is stored and how much.
Read(h) ==
  LET c == work[h].call
  IN  /\ pc[h] = "entered"
      /\ event[c.key] = Nothing
      /\ Unhurried(c.by)
      /\ deployed # Nothing
      /\ c.op = "remind" => MayRemind(c.by, work[h].role) /\ deployed.remind
      /\ c.op = "create" => Cardinality(Present) < MaxRecords
      /\ c.op \in {"update", "delete"} => c.rec \in Present
      /\ pc' = [pc EXCEPT ![h] = "read"]
      /\ work' = [work EXCEPT ![h].manifest = deployed, ![h].room = MaxBytes - Used]
      /\ UNCHANGED <<accessVars, dataVars, answers>>

\* The event is stored in the transaction of its effect, under a unique key.
Log(c, r, v) ==
  /\ event[c.key] = Nothing
  /\ event' = [event EXCEPT ![c.key] = [call |-> c, response |-> [rec |-> r, version |-> v]]]
  /\ recent' = recent \cup {c.key}

\* The answer of a committed call may be lost.
Answer(h, c, lost) ==
  /\ answers' = [answers EXCEPT ![c.key] = IF lost THEN @ ELSE @ \cup {event'[c.key].response}]
  /\ Leave(h)

\* create_data_record.
CommitCreate(h, r, lost) ==
  LET c == work[h].call
  IN  /\ pc[h] = "read" /\ c.op = "create"
      /\ record[r].version = 0 /\ r \notin Seeds
      /\ Fits(work[h].manifest, c.sets)
      /\ HasRoom(Cardinality(c.sets), work[h].room)
      /\ record' = [record EXCEPT ![r] = [version |-> 1, fields |-> c.sets]]
      /\ Log(c, r, 1)
      /\ Answer(h, c, lost)
      /\ UNCHANGED <<accessVars, deployed, removed, reminders>>

\* update_data_record.
CommitUpdate(h, lost) ==
  LET c == work[h].call
      n == Cardinality(Merged(c)) - Cardinality(record[c.rec].fields)
  IN  /\ pc[h] = "read" /\ c.op = "update"
      /\ Fits(work[h].manifest, Merged(c))
      /\ HasRoom(n, work[h].room)
      /\ c.rec \in Present /\ VersionIs(c.rec, c.expects)
      /\ record' = [record EXCEPT ![c.rec] = [version |-> @.version + 1, fields |-> Merged(c)]]
      /\ Log(c, c.rec, record'[c.rec].version)
      /\ Answer(h, c, lost)
      /\ UNCHANGED <<accessVars, deployed, removed, reminders>>

\* delete_data_record.
CommitDelete(h, lost) ==
  LET c == work[h].call
  IN  /\ pc[h] = "read" /\ c.op = "delete"
      /\ c.rec \in Present /\ VersionIs(c.rec, c.expects)
      /\ removed' = removed \cup {c.rec}
      /\ Log(c, c.rec, record[c.rec].version)
      /\ Answer(h, c, lost)
      /\ UNCHANGED <<accessVars, deployed, record, reminders>>

\* create_app_reminder.
CommitReminder(h, lost) ==
  LET c == work[h].call
  IN  /\ pc[h] = "read" /\ c.op = "remind"
      /\ reminders' = reminders \cup {c.key}
      /\ Log(c, Nothing, 0)
      /\ Answer(h, c, lost)
      /\ UNCHANGED <<accessVars, deployed, record, removed>>

\* Any of the checks raises, the database fails or the process dies: the
\* transaction is rolled back.
Abort(h) ==
  /\ pc[h] # "idle"
  /\ Leave(h)
  /\ UNCHANGED <<accessVars, dataVars, answers>>

-----------------------------------------------------------------------------
(***************************************************************************)
(* The other transactions on the row of the app                            *)
(***************************************************************************)

\* complete_build and rollback_owned_code_app: every stored record fits; the
\* first deployment plants the seeds.
Deploy(m) ==
  /\ AppLockFree /\ appLive
  /\ m # deployed
  /\ \A r \in Present : Fits(m, record[r].fields)
  /\ deployed' = m
  /\ \/ /\ deployed = Nothing
        /\ Cardinality(Seeds) * Cardinality(m.required) <= MaxBytes
        /\ record' = [r \in Records |->
                        IF r \in Seeds THEN [version |-> 1, fields |-> m.required] ELSE NoRecord]
     \/ deployed # Nothing /\ UNCHANGED record
  /\ UNCHANGED <<accessVars, removed, event, recent, reminders, pc, work, answers>>

\* _transfer_generated_app_access: the former owner goes or stays as a member.  The
\* sessions of a shared app are anonymous members and keep their access.
TransferApp(u, departs) ==
  /\ AppLockFree /\ shared
  /\ u # owner
  /\ owner' = u
  /\ members' = (members \ {u}) \cup (IF departs \/ owner = Nothing THEN {} ELSE {owner})
  /\ UNCHANGED <<appLive, shared, session, uses, ticketLive, dataVars, pc, work, answers>>

\* _revoke_unclaimed_group_app_owner.
Unclaim ==
  /\ AppLockFree /\ shared
  /\ owner # Nothing
  /\ owner' = Nothing
  /\ UNCHANGED <<appLive, shared, members, session, uses, ticketLive, dataVars, pc, work, answers>>

\* archive_generated_app: the bearers end with the app.
ArchiveApp ==
  /\ AppLockFree /\ appLive
  /\ owner # Nothing
  /\ appLive' = FALSE
  /\ session' = [s \in Sessions |-> IF session[s].status = "open"
                                      THEN [session[s] EXCEPT !.status = "revoked"]
                                      ELSE session[s]]
  /\ ticketLive' = {}
  /\ UNCHANGED <<shared, owner, members, uses, dataVars, pc, work, answers>>

\* issue_access_ticket for the link tool and for a new build.
IssueTicket(t) ==
  /\ AppLockFree /\ appLive
  /\ uses[t] = -1
  /\ owner # Nothing \/ shared
  /\ uses' = [uses EXCEPT ![t] = 0]
  /\ ticketLive' = ticketLive \cup {t}
  /\ UNCHANGED <<appLive, shared, owner, members, session, dataVars, pc, work, answers>>

\* redeem_access_ticket: a private ticket carries the owner, a shared one an
\* anonymous member.
Redeem(t, s) ==
  /\ AppLockFree /\ appLive
  /\ t \in ticketLive
  /\ RedemptionsLeft(t)
  /\ session[s].status = "none"
  /\ session' = [session EXCEPT ![s] =
                   IF shared THEN [status |-> "open", role |-> "member", user |-> Nothing]
                             ELSE [status |-> "open", role |-> "owner", user |-> owner]]
  /\ uses' = [uses EXCEPT ![t] = @ + 1]
  /\ UNCHANGED <<appLive, shared, owner, members, ticketLive, dataVars, pc, work, answers>>

\* Time: expires_at of tickets and sessions, and the window of the limits.
Expire(s) ==
  /\ session[s].status = "open"
  /\ session' = [session EXCEPT ![s].status = "expired"]
  /\ UNCHANGED <<appLive, shared, owner, members, uses, ticketLive, dataVars, pc, work, answers>>

ExpireTicket(t) ==
  /\ t \in ticketLive
  /\ ticketLive' = ticketLive \ {t}
  /\ UNCHANGED <<appLive, shared, owner, members, session, uses, dataVars, pc, work, answers>>

MinutePasses ==
  /\ recent # {}
  /\ recent' = {}
  /\ UNCHANGED <<accessVars, deployed, record, removed, event, reminders, pc, work, answers>>

-----------------------------------------------------------------------------
Mutate(h) ==
  \/ \E c \in Calls : Enter(h, c)
  \/ Replay(h)
  \/ Read(h)
  \/ \E lost \in BOOLEAN :
       \/ \E r \in Records : CommitCreate(h, r, lost)
       \/ CommitUpdate(h, lost)
       \/ CommitDelete(h, lost)
       \/ CommitReminder(h, lost)
  \/ Abort(h)

AppDataNext ==
  \/ \E h \in Handlers : Mutate(h)
  \/ \E m \in Manifests : Deploy(m)
  \/ \E u \in Users, departs \in BOOLEAN : TransferApp(u, departs)
  \/ Unclaim
  \/ ArchiveApp
  \/ \E t \in Tickets : IssueTicket(t) \/ ExpireTicket(t)
  \/ \E t \in Tickets, s \in Sessions : Redeem(t, s)
  \/ \E s \in Sessions : Expire(s)
  \/ MinutePasses

-----------------------------------------------------------------------------
(***************************************************************************)
(* Properties                                                              *)
(***************************************************************************)
AppDataTypeOK ==
  /\ appLive \in BOOLEAN /\ shared \in BOOLEAN
  /\ owner \in Users \cup {Nothing}
  /\ members \subseteq Users
  /\ \A s \in Sessions : session[s].status \in {"none", "open", "revoked", "expired"}
  /\ uses \in [Tickets -> -1..MaxRedemptions]
  /\ ticketLive \subseteq Tickets
  /\ deployed \in Manifests \cup {Nothing}
  /\ \A r \in Records : record[r].version \in Nat
  /\ removed \subseteq {r \in Records : record[r].version > 0}
  /\ \A k \in Keys : event[k] # Nothing => event[k].call \in Calls /\ event[k].call.key = k
  /\ recent \subseteq {k \in Keys : event[k] # Nothing}
  /\ reminders \subseteq Keys
  /\ pc \in [Handlers -> {"idle", "entered", "read"}]

\* However calls, deployments and redemptions interleave: what is stored fits
\* the manifest that is served, and neither the records, their bytes, the
\* sessions of a ticket nor a minute's mutations exceed their limits.
WithinLimits ==
  /\ \A r \in Present : Fits(deployed, record[r].fields)
  /\ Cardinality(Present) <= MaxRecords
  /\ Used <= MaxBytes
  /\ Cardinality(recent) <= MaxPerApp
  /\ \A a \in Actors : Cardinality({k \in recent : event[k].call.by = a}) <= MaxPerActor

\* A mutation that was let in before the app was archived, its owner changed or
\* its bearer was revoked does not commit afterwards.
CommitsUnderAuthority ==
  [][\A k \in Keys :
       event[k] = Nothing /\ event'[k] # Nothing =>
         LET a == event'[k].call.by
         IN  /\ appLive
             /\ RoleOf(a) \in Writable \/ (a \in Sessions /\ session[a].status = "expired")
             /\ k \in reminders' => a = owner]_vars

\* A call takes effect once and is answered alike however often it is sent; of
\* two calls that name the same version of a record, one takes effect.
Ledger == INSTANCE MutationLedger WITH
            version <- [r \in Records |-> record[r].version],
            done <- [k \in Keys |->
                       IF event[k] = Nothing THEN Nothing
                       ELSE [rec |-> event[k].response.rec,
                             against |-> event[k].call.expects,
                             version |-> event[k].response.version]],
            heard <- answers

MutationsTakeEffectOnce == Ledger!Spec
==============================================================================
