------------------------------ MODULE BuildLedger ------------------------------
(***************************************************************************)
(* What the app builder promises to the owner of an app, without workers,  *)
(* leases or retries: every requested build is decided once, a build is    *)
(* deployed exactly when it is published, and closing an app withdraws     *)
(* what is still pending.  AppBuilds implements it.                        *)
(***************************************************************************)
CONSTANTS Apps, Builds, AppOf, None

VARIABLES
  outcome,   \* what the owner was told about each build
  deployed,  \* the build an app runs
  prior,     \* the build a rollback returns to
  closed     \* the app was archived

vars == <<outcome, deployed, prior, closed>>

Init ==
  /\ outcome = [b \in Builds |-> "none"]
  /\ deployed = [a \in Apps |-> None]
  /\ prior = [a \in Apps |-> None]
  /\ closed = [a \in Apps |-> FALSE]

Pending(a) == {b \in Builds : AppOf[b] = a /\ outcome[b] = "pending"}

\* One build at a time, for an open app.
Request(b) ==
  /\ outcome[b] = "none"
  /\ ~closed[AppOf[b]]
  /\ Pending(AppOf[b]) = {}
  /\ outcome' = [outcome EXCEPT ![b] = "pending"]
  /\ UNCHANGED <<deployed, prior, closed>>

Publish(b) ==
  LET a == AppOf[b]
  IN  /\ outcome[b] = "pending"
      /\ outcome' = [outcome EXCEPT ![b] = "published"]
      /\ deployed' = [deployed EXCEPT ![a] = b]
      /\ prior' = [prior EXCEPT ![a] = deployed[a]]
      /\ UNCHANGED closed

Fail(b) ==
  /\ outcome[b] = "pending"
  /\ outcome' = [outcome EXCEPT ![b] = "failed"]
  /\ UNCHANGED <<deployed, prior, closed>>

\* Only between builds, and back again by the same step.
SwapBack(a) ==
  /\ prior[a] # None
  /\ ~closed[a]
  /\ Pending(a) = {}
  /\ deployed' = [deployed EXCEPT ![a] = prior[a]]
  /\ prior' = [prior EXCEPT ![a] = deployed[a]]
  /\ UNCHANGED <<outcome, closed>>

Close(a) ==
  /\ ~closed[a]
  /\ closed' = [closed EXCEPT ![a] = TRUE]
  /\ outcome' = [b \in Builds |-> IF b \in Pending(a) THEN "withdrawn" ELSE outcome[b]]
  /\ UNCHANGED <<deployed, prior>>

Next ==
  \/ \E b \in Builds : Request(b) \/ Publish(b) \/ Fail(b)
  \/ \E a \in Apps : SwapBack(a) \/ Close(a)

Spec == Init /\ [][Next]_vars
================================================================================
