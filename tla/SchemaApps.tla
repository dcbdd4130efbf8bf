------------------------------ MODULE SchemaApps ------------------------------
(***************************************************************************)
(* The records of one schema app (version 1) with an expense splitter:     *)
(* services/generated_apps.py behind api/routes/generated_apps.py.         *)
(*                                                                         *)
(* Anyone with the public link adds, edits and deletes records, and the    *)
(* owner does through the agent.  A call loads the app with its records,   *)
(* validates, partly against a second query, and commits.  The calls of    *)
(* the owner hold the row of the app meanwhile, those of the link do not.  *)
(***************************************************************************)
EXTENDS Integers, FiniteSets

CONSTANTS
  People,   \* names of participants
  Rows,     \* generated_app_records rows
  Servers   \* requests being served at a time

ASSUME SchemaAppsAssumption == IsFiniteSet(Rows) /\ IsFiniteSet(People)

VARIABLES
  row,      \* GeneratedAppRecord: kind, and the names its data refers to
  appOpen,  \* GeneratedApp.status = "active"
  at,       \* where a request is
  job       \* its call, whether it holds the app, the records it has loaded, and
            \*   whether records were changed since

schemaVars == <<row, appOpen, at, job>>

Kinds == {"participant", "expense"}
NoRow == [kind |-> "absent", names |-> {}]
Gone  == [kind |-> "gone", names |-> {}]
NoJob == [op |-> "none", target |-> {}, names |-> {}, kind |-> "none", owned |-> FALSE,
          seen |-> {}, stale |-> FALSE]
Stored(rows) == {i \in Rows : rows[i].kind \in Kinds}
NamesIn(rows) == UNION {rows[i].names : i \in {j \in Rows : rows[j].kind = "participant"}}

-----------------------------------------------------------------------------
(***************************************************************************)
(* Faults.  Each operator is the definition of the same shape below with   *)
(* one plausible slip in it; no action uses them.                          *)
(***************************************************************************)

\* The expenses are not searched for a participant that is removed or renamed.
NeverReferenced(rows, i) == FALSE

-----------------------------------------------------------------------------
(***************************************************************************)
(* Decisions of the code                                                   *)
(***************************************************************************)

\* _participant_is_referenced.
Referenced(rows, i) ==
  \E j \in Rows : rows[j].kind = "expense" /\ rows[i].names \subseteq rows[j].names

\* _validate_and_resolve_record, for a record other than those in without.
Valid(kind, names, without) ==
  IF kind = "participant"
  THEN /\ Cardinality(names) = 1
       /\ \A i \in Rows \ without : row[i].kind = "participant" => row[i].names # names
  ELSE /\ names # {}
       /\ names \subseteq NamesIn([i \in Rows |-> IF i \in without THEN NoRow ELSE row[i]])

\* authorize_user waits for the row of the app.
NotOwned == \A s \in Servers : at[s] = "idle" \/ ~job[s].owned

-----------------------------------------------------------------------------
SchemaAppsInit ==
  /\ row = [i \in Rows |-> NoRow]
  /\ appOpen = TRUE
  /\ at = [s \in Servers |-> "idle"]
  /\ job = [s \in Servers |-> NoJob]

Finish(s) == at' = [at EXCEPT ![s] = "idle"] /\ job' = [job EXCEPT ![s] = NoJob]

\* The others go on with what they have loaded.
OthersStale(s) ==
  job' = [t \in Servers |-> IF t = s THEN NoJob
                            ELSE [job[t] EXCEPT !.stale = at[t] # "idle"]]

\* get_generated_app_by_public_id or get_owned_generated_app, and the record.
Load(s, op, i, kind, names, owned) ==
  /\ at[s] = "idle"
  /\ appOpen
  /\ owned => NotOwned
  /\ names = {} <=> op = "delete"
  /\ IF op = "create" THEN row[i] = NoRow ELSE i \in Stored(row) /\ kind = row[i].kind
  /\ at' = [at EXCEPT ![s] = "loaded"]
  /\ job' = [job EXCEPT ![s] = [op |-> op, target |-> i, names |-> names, kind |-> kind,
                                owned |-> owned, seen |-> row, stale |-> FALSE]]
  /\ UNCHANGED <<row, appOpen>>

\* _create_generated_app_record up to its commit.
ValidateCreate(s) ==
  /\ at[s] = "loaded" /\ job[s].op = "create"
  /\ Valid(job[s].kind, job[s].names, {})
  /\ at' = [at EXCEPT ![s] = "validated"]
  /\ UNCHANGED <<row, appOpen, job>>

\* _update_generated_app_record up to its commit.
ValidateUpdate(s) ==
  LET j == job[s]
  IN  /\ at[s] = "loaded" /\ j.op = "update"
      /\ Valid(j.kind, j.names, {j.target})
      /\ j.kind = "participant" /\ j.names # j.seen[j.target].names
           => ~Referenced(j.seen, j.target)
      /\ at' = [at EXCEPT ![s] = "validated"]
      /\ UNCHANGED <<row, appOpen, job>>

\* _delete_generated_app_record up to its commit.
ValidateDelete(s) ==
  LET j == job[s]
  IN  /\ at[s] = "loaded" /\ j.op = "delete"
      /\ j.kind = "participant" => ~Referenced(j.seen, j.target)
      /\ at' = [at EXCEPT ![s] = "validated"]
      /\ UNCHANGED <<row, appOpen, job>>

\* The commit; it touches the row of the app and waits for an owner's call.  An
\* update or deletion of a row that is gone fails.
CommitRow(s) ==
  LET j == job[s]
  IN  /\ at[s] = "validated"
      /\ j.owned \/ NotOwned
      /\ IF j.op = "create" THEN row[j.target] = NoRow ELSE j.target \in Stored(row)
      /\ row' = [row EXCEPT ![j.target] =
                   IF j.op = "delete" THEN Gone ELSE [kind |-> j.kind, names |-> j.names]]
      /\ at' = [at EXCEPT ![s] = "idle"]
      /\ OthersStale(s)
      /\ UNCHANGED appOpen

\* A check raises, the commit fails or the process dies.
GiveUp(s) ==
  /\ at[s] # "idle"
  /\ Finish(s)
  /\ UNCHANGED <<row, appOpen>>

\* archive_generated_app.
ArchiveSchemaApp ==
  /\ appOpen /\ NotOwned
  /\ appOpen' = FALSE
  /\ UNCHANGED <<row, at, job>>

SchemaAppsNext ==
  \/ \E s \in Servers :
       \/ \E op \in {"create", "update", "delete"}, i \in Rows, kind \in Kinds,
             names \in SUBSET People, owned \in BOOLEAN :
               Load(s, op, i, kind, names, owned)
       \/ ValidateCreate(s)
       \/ ValidateUpdate(s)
       \/ ValidateDelete(s)
       \/ CommitRow(s)
       \/ GiveUp(s)
  \/ ArchiveSchemaApp

-----------------------------------------------------------------------------
(***************************************************************************)
(* Properties                                                              *)
(***************************************************************************)
SchemaAppsTypeOK ==
  /\ \A i \in Rows : row[i].kind \in Kinds \cup {"absent", "gone"} /\ row[i].names \subseteq People
  /\ appOpen \in BOOLEAN
  /\ at \in [Servers -> {"idle", "loaded", "validated"}]

\* Everyone an expense names is a participant, and participants have different
\* names.
Sound(rows) ==
  /\ \A i \in Rows : rows[i].kind = "expense" => rows[i].names \subseteq NamesIn(rows)
  /\ \A i, j \in Rows : rows[i].kind = "participant" /\ rows[j].kind = "participant"
                          /\ rows[i].names = rows[j].names => i = j

\* The expenses of an app lose a participant, and two participants share a
\* name, only by a call that commits over records that were changed after it
\* had loaded them.
SoundUnlessRaced ==
  [][Sound(row) /\ ~Sound(row') =>
       \E s \in Servers : at[s] = "validated" /\ at'[s] = "idle" /\ job[s].stale]_schemaVars
==============================================================================
