-------------------------------- MODULE AppsMC --------------------------------
(***************************************************************************)
(* Instances of AppData and SchemaApps for TLC.  The two kinds of app      *)
(* share no state: a behaviour is one of an app of either kind.            *)
(***************************************************************************)
EXTENDS AppData, SchemaApps, TLC

VARIABLE focus

CONSTANTS ann, ben, browser, rec0, rec1, rec2, key1, key2, key3

Plain == [fields |-> {"name"}, required |-> {"name"}, remind |-> TRUE]
Wide  == [fields |-> {"name", "note"}, required |-> {"name"}, remind |-> FALSE]
BothManifests == {Plain, Wide}

Call(k, op, by, r, v, sets, unsets) ==
  [key |-> k, op |-> op, by |-> by, rec |-> r, expects |-> v, sets |-> sets, unsets |-> unsets]

\* Two updates from one version, one of them by the bearer of a session, a deletion, two
\* creations, and a reminder under a key that a creation uses as well.
AllCalls == {
  Call(key1, "create", ben, Nothing, 0, {"name"}, {}),
  Call(key2, "update", ann, rec0, 1, {"note"}, {}),
  Call(key3, "update", browser, rec0, 1, {"name"}, {"note"}),
  Call(key3, "create", ann, Nothing, 0, {"name"}, {}),
  Call(key3, "delete", ann, rec0, 2, {}, {}),
  Call(key1, "remind", ann, Nothing, 0, {}, {}) }

Init ==
  /\ focus \in {"code", "schema"}
  /\ AppDataInit
  /\ SchemaAppsInit
  /\ focus = "schema" => shared /\ owner = ann

Next ==
  \/ focus = "code" /\ AppDataNext /\ UNCHANGED <<focus, schemaVars>>
  \/ focus = "schema" /\ SchemaAppsNext /\ UNCHANGED <<focus, vars>>

Spec == Init /\ [][Next]_<<focus, vars, schemaVars>>

Symmetry == Permutations(Handlers) \cup Permutations(People) \cup Permutations(Rows)
              \cup Permutations(Servers)

\* The rows and the requests of both kinds of app.
TypeOK == AppDataTypeOK /\ SchemaAppsTypeOK
==============================================================================
