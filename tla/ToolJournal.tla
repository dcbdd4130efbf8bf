------------------------------ MODULE ToolJournal ------------------------------
(***************************************************************************)
(* The journal of one tool call of a model, agents/tools.py: executors of  *)
(* the same turn (a retried request, a second process) find the row of the *)
(* call, run the tool under a lease that a heartbeat renews, or wait for   *)
(* the result of whoever does.                                             *)
(*                                                                         *)
(* The lease is in force or not: time is the action LeaseLapses.  A        *)
(* takeover compares the lease with the one it read; looked[e] says that   *)
(* the lease e read is still the one in the row.                           *)
(***************************************************************************)
EXTENDS Naturals, FiniteSets

CONSTANTS
  Executors,  \* processes that execute the call
  Requests,   \* tool and arguments; the tool is its field "tool"
  NoOne

VARIABLES
  call,      \* agent_tool_calls: status, request, claimed_by, and whether the lease is in force
  effects,   \* mutations committed under the idempotency key of the call
  standing,  \* how the user stands to the conversation
  exec,      \* where an executor is
  asked,     \* its request
  looked,    \* whether the lease it read still is in the row
  beat,      \* its heartbeat
  output,    \* what its tool returned
  given      \* the results executors have returned

toolVars == <<call, effects, standing, exec, asked, looked, beat, output, given>>
runVars  == <<exec, asked, looked, beat, output>>

Results  == {"completed", "failed"}
Working  == {"start", "insert", "takeover", "run", "done"}
NoCall   == [status |-> "absent", request |-> NoOne, by |-> NoOne, leased |-> FALSE]

-----------------------------------------------------------------------------
(***************************************************************************)
(* Faults.  Each operator is the definition of the same shape below with   *)
(* one plausible slip in it; no action uses them.                          *)
(***************************************************************************)

\* Each execution has a key of its own.
KeyPerExecution(n) == n + 1

-----------------------------------------------------------------------------
(***************************************************************************)
(* Decisions of the code                                                   *)
(***************************************************************************)

\* _validate_journal_call.
SameCall(e) == call.request = asked[e]

\* _journal_result: what a row that is not running answers.
Settled == call.status \in Results

\* The condition under which _finish_tool_call writes.
HoldsCall(e) == call.status = "running" /\ call.by = e

\* CreateGeneratedAppTool: the app is the user's, or the group owner's if the
\* user is a member.
MayCreate == standing \in {"direct", "member"}

\* The other journaled tools call _require_direct_conversation.
InDirectChat == standing = "direct"

Permitted(request) == IF request.tool = "create_personal_app" THEN MayCreate ELSE InDirectChat

-----------------------------------------------------------------------------
ToolJournalInit ==
  /\ call = NoCall
  /\ effects = 0
  /\ standing \in {"direct", "member"}
  /\ exec = [e \in Executors |-> "idle"]
  /\ asked = [e \in Executors |-> NoOne]
  /\ looked = [e \in Executors |-> FALSE]
  /\ beat = [e \in Executors |-> "off"]
  /\ output = [e \in Executors |-> "none"]
  /\ given = {}

Goto(e, where) == exec' = [exec EXCEPT ![e] = where]

\* The journal names the tool, so the call has an executor with a lease.
Lease(e) ==
  /\ call' = [call EXCEPT !.by = e, !.leased = TRUE, !.status = "running", !.request = asked[e]]
  /\ looked' = [x \in Executors |-> FALSE]
  /\ beat' = [beat EXCEPT ![e] = "on"]
  /\ Goto(e, "run")

\* ToolRegistry.execute is entered with a journaled tool.
Execute(e, request) ==
  /\ exec[e] \in {"idle", "raised"}
  /\ Goto(e, "start")
  /\ asked' = [asked EXCEPT ![e] = request]
  /\ UNCHANGED <<call, effects, standing, looked, beat, output, given>>

\* One turn of the loop of _start_tool_call up to its write; while the lease of
\* another executor is in force, the loop goes on.
Look(e) ==
  /\ exec[e] = "start"
  /\ \/ call.status = "absent" /\ Goto(e, "insert") /\ UNCHANGED <<looked, given>>
     \/ call.status # "absent" /\ ~SameCall(e) /\ Goto(e, "raised") /\ UNCHANGED <<looked, given>>
     \/ Settled /\ SameCall(e) /\ Goto(e, "answered") /\ UNCHANGED looked
          /\ given' = given \cup {call.status}
     \/ call.status = "running" /\ SameCall(e) /\ ~call.leased /\ Goto(e, "takeover")
          /\ looked' = [looked EXCEPT ![e] = TRUE] /\ UNCHANGED given
  /\ UNCHANGED <<call, effects, standing, asked, beat, output>>

\* The row is inserted; the unique key sends all but the first back.
Insert(e) ==
  /\ exec[e] = "insert"
  /\ IF call.status = "absent" THEN Lease(e)
     ELSE Goto(e, "start") /\ UNCHANGED <<call, looked, beat>>
  /\ UNCHANGED <<effects, standing, asked, output, given>>

\* The conditional UPDATE that claims a call whose lease has run out.
TakeOver(e) ==
  /\ exec[e] = "takeover"
  /\ IF call.status = "running" /\ looked[e] THEN Lease(e)
     ELSE Goto(e, "start") /\ UNCHANGED <<call, looked, beat>>
  /\ UNCHANGED <<effects, standing, asked, output, given>>

\* _renew_tool_call_lease; a renewal of a call that is not held ends the heartbeat.
Renew(e) ==
  /\ exec[e] = "run" /\ beat[e] = "on"
  /\ IF HoldsCall(e)
     THEN call' = [call EXCEPT !.leased = TRUE] /\ looked' = [x \in Executors |-> FALSE]
            /\ UNCHANGED beat
     ELSE beat' = [beat EXCEPT ![e] = "off"] /\ UNCHANGED <<call, looked>>
  /\ UNCHANGED <<effects, standing, exec, asked, output, given>>

\* A renewal fails; the error surfaces when the tool has run.
BeatFails(e) ==
  /\ exec[e] = "run" /\ beat[e] = "on"
  /\ beat' = [beat EXCEPT ![e] = "failed"]
  /\ UNCHANGED <<call, effects, standing, exec, asked, looked, output, given>>

\* The mutations under the key of the call, once a tool has committed one: a repetition
\* finds the stored one.
KeyPerCall(n) == IF n = 0 THEN 1 ELSE n

\* What the tool itself does: nothing, if it raises first; else its mutation, once for
\* the key, after which the answer may still be lost.
Effect(e, out) ==
  \/ out = "failed" /\ UNCHANGED effects
  \/ Permitted(asked[e]) /\ effects' = KeyPerCall(effects)

\* tool.execute, and the end of the heartbeat.
Perform(e) ==
  /\ exec[e] = "run"
  /\ \E out \in Results :
       /\ Effect(e, out)
       /\ output' = [output EXCEPT ![e] = out]
  /\ Goto(e, IF beat[e] = "failed" THEN "raised" ELSE "done")
  /\ beat' = [beat EXCEPT ![e] = "off"]
  /\ UNCHANGED <<call, standing, asked, looked, given>>

\* _finish_tool_call.
Finish(e) ==
  /\ exec[e] = "done"
  /\ \/ Settled /\ Goto(e, "answered") /\ given' = given \cup {call.status} /\ UNCHANGED call
     \/ ~Settled /\ ~HoldsCall(e) /\ Goto(e, "raised") /\ UNCHANGED <<call, given>>
     \/ HoldsCall(e) /\ Goto(e, "answered") /\ given' = given \cup {output[e]}
          /\ call' = [call EXCEPT !.status = output[e], !.by = NoOne, !.leased = FALSE]
  /\ UNCHANGED <<effects, standing, asked, looked, beat, output>>

\* A query fails or the process dies; the effect of a running tool is that of Perform.
Break(e) ==
  /\ exec[e] \in Working
  /\ Goto(e, "raised")
  /\ beat' = [beat EXCEPT ![e] = "off"]
  /\ UNCHANGED <<call, effects, standing, asked, looked, output, given>>

\* Thirty seconds without a renewal.
LeaseLapses ==
  /\ call.status = "running" /\ call.leased
  /\ call' = [call EXCEPT !.leased = FALSE]
  /\ UNCHANGED <<effects, standing, runVars, given>>

\* The user leaves the group the conversation is of.
LeaveConversation ==
  /\ standing = "member"
  /\ standing' = "outsider"
  /\ UNCHANGED <<call, effects, runVars, given>>

ToolJournalNext ==
  \/ \E e \in Executors :
       \/ \E r \in Requests : Execute(e, r)
       \/ Look(e) \/ Insert(e) \/ TakeOver(e)
       \/ Renew(e) \/ BeatFails(e) \/ Perform(e) \/ Finish(e) \/ Break(e)
  \/ LeaseLapses
  \/ LeaveConversation

-----------------------------------------------------------------------------
(***************************************************************************)
(* Properties                                                              *)
(***************************************************************************)
ToolJournalTypeOK ==
  /\ call.status \in Results \cup {"absent", "running"}
  /\ call.by \in Executors \cup {NoOne} /\ call.leased \in BOOLEAN
  /\ exec \in [Executors -> Working \cup {"idle", "answered", "raised"}]
  /\ beat \in [Executors -> {"on", "off", "failed"}]
  /\ given \subseteq Results
  /\ effects \in Nat

Once == INSTANCE CallOnce WITH
  result <- IF Settled THEN call.status ELSE "none"

\* A call is executed once and has one result, whichever executors were
\* suspended, died or took over meanwhile: the journal with its leases
\* implements CallOnce.
CallsTakeEffectOnce == Once!Spec
==============================================================================
