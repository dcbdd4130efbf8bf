---------------------------- MODULE MutationLedger ----------------------------
(***************************************************************************)
(* What the records of a generated app promise to its clients: a call      *)
(* under an idempotency key takes effect once, every answer to it is the   *)
(* same, and every version of a record has at most one successor.          *)
(***************************************************************************)
EXTENDS Integers

CONSTANTS Keys, Records, Nothing

VARIABLES
  version,  \* version of a record, 0 before it exists
  removed,  \* the records that were deleted
  done,     \* the effect of a key, Nothing while it has taken none
  heard     \* the answers clients have received for a key

vars == <<version, removed, done, heard>>

Init ==
  /\ version = [r \in Records |-> 0]
  /\ removed = {}
  /\ done = [k \in Keys |-> Nothing]
  /\ heard = [k \in Keys |-> {}]

\* Starter records appear together, before anything else happened.
Seed ==
  /\ \A r \in Records : version[r] = 0
  /\ \E S \in SUBSET Records : version' = [r \in Records |-> IF r \in S THEN 1 ELSE 0]
  /\ UNCHANGED <<removed, done, heard>>

Answer(k) == [rec |-> done[k].rec, version |-> done[k].version]

\* The effect of k on r: it was asked for against version v and left version n.
\* The answer reaches the client or is lost.
Record(k, r, v, n) ==
  /\ done[k] = Nothing
  /\ done' = [done EXCEPT ![k] = [rec |-> r, against |-> v, version |-> n]]
  /\ heard' \in {heard, [heard EXCEPT ![k] = {Answer(k)'}]}

Create(k, r) ==
  /\ version[r] = 0
  /\ version' = [version EXCEPT ![r] = 1]
  /\ Record(k, r, 0, 1)
  /\ UNCHANGED removed

Replace(k, r) ==
  /\ version[r] > 0 /\ r \notin removed
  /\ version' = [version EXCEPT ![r] = @ + 1]
  /\ Record(k, r, version[r], version[r] + 1)
  /\ UNCHANGED removed

Remove(k, r) ==
  /\ version[r] > 0 /\ r \notin removed
  /\ removed' = removed \cup {r}
  /\ Record(k, r, version[r], version[r])
  /\ UNCHANGED version

\* An effect outside the records: a reminder.
Elsewhere(k) == Record(k, Nothing, 0, 0) /\ UNCHANGED <<version, removed>>

Reply(k) ==
  /\ done[k] # Nothing
  /\ heard' = [heard EXCEPT ![k] = @ \cup {Answer(k)}]
  /\ UNCHANGED <<version, removed, done>>

Next ==
  \/ Seed
  \/ \E k \in Keys : Elsewhere(k) \/ Reply(k)
  \/ \E k \in Keys, r \in Records : Create(k, r) \/ Replace(k, r) \/ Remove(k, r)

Spec == Init /\ [][Next]_vars
==============================================================================
