---------------------------- MODULE Conversations ----------------------------
(***************************************************************************)
(* One conversation from the message in to the reply out: deliveries of    *)
(* the Linq webhook, requests of the web chat, and the turns they start    *)
(* under the lock of the conversation, each while it keeps a connection of *)
(* the pool for the lock and takes another for its work.                   *)
(*                                                                         *)
(* Messages are numbered by the time they were written, which need not be  *)
(* the order in which they arrive.  A request goes on as the background    *)
(* task it has added, so one process is both.                              *)
(***************************************************************************)
EXTENDS Naturals, FiniteSets

CONSTANTS
  Hooks,      \* identities of webhook events
  Carries,     \* the message an event is about
  WebMessages, \* messages written in the web chat, under the client's identity
  Procs,       \* requests in progress
  PoolSize,    \* connections of the pool
  Nobody

ASSUME ConversationsAssumption ==
  /\ Carries \in [Hooks -> Nat] /\ WebMessages \subseteq Nat
  /\ Hooks \cap WebMessages = {} /\ Nobody \notin Procs
  /\ PoolSize \in Nat \ {0}

VARIABLES
  kind,      \* of the conversation: direct or group
  onboarded, \* the profile of the user is complete
  optedOut,  \* messaging_opted_out_at is set
  recorded,  \* webhook_events
  stored,    \* the inbound messages
  late,      \* those that came after one written later
  spoken,    \* replies: key, what they answer, what they read, what they say they read
  acks,      \* events that have been acknowledged ahead of the reply
  posted,    \* keys whose reply Linq has accepted
  covered,   \* messages a turn has left to a reply that was there
  lock,      \* who holds the lock of the conversation
  torn,      \* the connection of a lock holder has been lost
  proc       \* a request: where it is, its key, and what it has read

turnVars == <<kind, onboarded, optedOut, recorded, stored, late, spoken, acks,
              posted, covered, lock, torn, proc>>
saidVars == <<onboarded, spoken, acks, posted, covered>>

Keys     == Hooks \cup WebMessages
Idle     == [at |-> "idle", key |-> Nobody, fresh |-> FALSE, mode |-> "agent", out |-> FALSE,
             trigger |-> 0, reads |-> {}]
InTurn   == {"waiting", "locked", "deciding", "acknowledged", "running"}
Busy     == InTurn \cup {"received", "looked", "arrived", "replied"}
Message(k) == IF k \in Hooks THEN Carries[k] ELSE k

-----------------------------------------------------------------------------
(***************************************************************************)
(* Faults.  Each operator is the definition of the same shape below with   *)
(* one plausible slip in it; no action uses them.                          *)
(***************************************************************************)

\* Messages have no unique identity.
ConflictsByEvent(k, fresh) == k \in recorded

\* The messages a reply says it has read are listed as it is stored.
ClaimsLate(p) == stored

\* A checkout waits for as long as it takes.
NeverGivesUp(p) == FALSE

-----------------------------------------------------------------------------
(***************************************************************************)
(* Decisions of the code                                                   *)
(***************************************************************************)

\* The unique constraints a commit of the webhook meets.
Conflicts(k, fresh) == k \in recorded \/ (fresh /\ Message(k) \in stored)

\* _load_existing_turn, and the unique key of a reply.
Answered(k) == \E r \in spoken : r.key = k

\* _trigger_was_covered: a reply lists the message or reaches past its time.
WasCovered(m) == \E r \in spoken : m \in r.claims \/ r.through > m

\* Messages a turn reads: its trigger and those written before it.
Through(m) == {x \in stored : x <= m}

\* context_message_ids, taken with the transcript.
Claims(p) == proc[p].reads

Latest == CHOOSE m \in stored : \A x \in stored : x <= m

\* Connections: the lock keeps one for its holder and one for everybody waiting.
Pinned(p) == proc[p].at \in InTurn \/ lock = p
Unused == PoolSize - Cardinality({p \in Procs : Pinned(p)})

\* The checkout of a connection is given up after pool_timeout.
GivesUp(p) ==
  Unused = 0 /\ proc[p].at \in {"arrived", "locked", "deciding", "acknowledged", "running"}

-----------------------------------------------------------------------------
ConversationsInit ==
  /\ kind \in {"direct", "group"}
  /\ onboarded \in BOOLEAN
  /\ optedOut = FALSE
  /\ recorded = {} /\ stored = {} /\ late = {}
  /\ spoken = {} /\ acks = {} /\ posted = {} /\ covered = {}
  /\ lock = Nobody /\ torn = FALSE
  /\ proc = [p \in Procs |-> Idle]

Goto(p, where) == proc' = [proc EXCEPT ![p].at = where]
Leave(p) == /\ proc' = [proc EXCEPT ![p] = Idle]
            /\ lock' = IF lock = p THEN Nobody ELSE lock

Mode == IF kind = "direct" /\ ~onboarded THEN "onboarding" ELSE "agent"

\* The message is inserted.
Arrive(m) ==
  /\ stored' = stored \cup {m}
  /\ late' = IF \E x \in stored : x > m THEN late \cup {m} ELSE late

\* receive_linq_webhook up to its writes; an event that is recorded changes nothing.
ReceiveHook(p, e) ==
  /\ proc[p].at = "idle" /\ e \notin recorded
  /\ proc' = [proc EXCEPT ![p] = [Idle EXCEPT !.at = "received", !.key = e, !.mode = Mode,
                                   !.fresh = Carries[e] \notin stored, !.out = optedOut]]
  /\ UNCHANGED <<kind, optedOut, recorded, stored, late, saidVars, lock, torn>>

\* apply_messaging_preference, by what the handler has loaded of the user.
Preference(p, text) ==
  optedOut' = CASE text = "stop" -> TRUE
                [] text = "start" /\ proc[p].out -> FALSE
                [] OTHER -> optedOut
Silenced(p, text) == text = "stop" \/ (proc[p].out /\ text # "start")

\* The rows of a webhook that is answered and leaves nothing to run: its message is
\* known, or nobody can be found who has sent it.
CommitEventAlone(p) ==
  /\ proc[p].at = "received"
  /\ LET k == proc[p].key IN
     \/ Conflicts(k, proc[p].fresh) /\ UNCHANGED recorded
     \/ k \notin recorded /\ recorded' = recorded \cup {k}
  /\ Leave(p)
  /\ UNCHANGED <<kind, optedOut, stored, late, saidVars, torn>>

\* The commit of a webhook with its message.
CommitMessage(p) ==
  /\ proc[p].at = "received" /\ proc[p].fresh /\ ~Conflicts(proc[p].key, TRUE)
  /\ recorded' = recorded \cup {proc[p].key}
  /\ Arrive(Message(proc[p].key))

\* What runs when the response is out: the turn, if there is one.
Spawn(p, wakes) == IF wakes THEN Goto(p, "arrived") /\ UNCHANGED lock ELSE Leave(p)

\* A direct message is answered unless the user has opted out.
CommitDirect(p) ==
  /\ kind = "direct"
  /\ CommitMessage(p)
  /\ \E text \in {"chat", "stop", "start"} :
       Preference(p, text) /\ Spawn(p, ~Silenced(p, text))
  /\ UNCHANGED <<kind, saidVars, torn>>

\* A message of a group is answered as the mode of the group, the address and the
\* presence of Dot have it.
CommitGroup(p) ==
  /\ kind = "group"
  /\ CommitMessage(p)
  /\ \E wakes \in BOOLEAN : Spawn(p, wakes)
  /\ UNCHANGED <<kind, optedOut, saidVars, torn>>

\* send_web_chat_message up to the insertion; a reply that is there is returned.
SendWeb(p, w) ==
  /\ proc[p].at = "idle" /\ ~Answered(w)
  /\ proc' = [proc EXCEPT ![p] = [Idle EXCEPT !.at = "looked", !.key = w, !.mode = Mode,
                                   !.fresh = w \notin stored]]
  /\ UNCHANGED <<kind, optedOut, recorded, stored, late, saidVars, lock, torn>>

\* The message of the web is committed unless it was there; in a group the turn may be
\* declined before it begins.
CommitWeb(p) ==
  /\ proc[p].at = "looked"
  /\ \/ proc[p].fresh /\ proc[p].key \in stored /\ Leave(p) /\ UNCHANGED <<stored, late>>
     \/ /\ ~(proc[p].fresh /\ proc[p].key \in stored)
        /\ IF proc[p].fresh THEN Arrive(proc[p].key) ELSE UNCHANGED <<stored, late>>
        /\ \/ Goto(p, "arrived") /\ UNCHANGED lock
           \/ kind = "group" /\ Leave(p)
  /\ UNCHANGED <<kind, optedOut, recorded, saidVars, torn>>

\* conversation_turn_lock takes its connection, then the lock.
Queue(p) ==
  /\ proc[p].at = "arrived" /\ Unused > 0
  /\ Goto(p, "waiting")
  /\ UNCHANGED <<kind, optedOut, recorded, stored, late, saidVars, lock, torn>>

Enter(p) ==
  /\ proc[p].at = "waiting" /\ lock = Nobody
  /\ lock' = p /\ Goto(p, "locked")
  /\ UNCHANGED <<kind, optedOut, recorded, stored, late, saidVars, torn>>

Run(p, m, reads) ==
  proc' = [proc EXCEPT ![p].at = "running", ![p].trigger = m, ![p].reads = reads]

\* The task of a group looks whether its message was covered.
ByGroupTask(p) == kind = "group" /\ proc[p].key \in Hooks

LoadGroup(p) ==
  /\ proc[p].at = "locked" /\ ByGroupTask(p) /\ Unused > 0
  /\ IF WasCovered(Message(proc[p].key))
     THEN covered' = covered \cup {Message(proc[p].key)} /\ Leave(p)
     ELSE Goto(p, "deciding") /\ UNCHANGED <<lock, covered>>
  /\ UNCHANGED <<kind, onboarded, optedOut, recorded, stored, late, spoken, acks, posted, torn>>

\* A turn of an agent returns the replies that are there, or begins a run.
LoadTurn(p) ==
  /\ proc[p].at = "locked" /\ ~ByGroupTask(p) /\ proc[p].mode = "agent" /\ Unused > 0
  /\ IF Answered(proc[p].key) THEN Leave(p)
     ELSE Run(p, Message(proc[p].key), Through(Message(proc[p].key))) /\ UNCHANGED lock
  /\ UNCHANGED <<kind, optedOut, recorded, stored, late, saidVars, torn>>

\* Onboarding looks for no replies and reads everything.
LoadOnboarding(p) ==
  /\ proc[p].at = "locked" /\ proc[p].mode = "onboarding" /\ Unused > 0
  /\ Run(p, Message(proc[p].key), stored)
  /\ UNCHANGED <<kind, optedOut, recorded, stored, late, saidVars, lock, torn>>

\* decide_group_participation, and the acknowledgment if it asks for one.
Decide(p) ==
  /\ proc[p].at = "deciding" /\ Unused > 0
  /\ \/ Leave(p) /\ UNCHANGED acks
     \/ Goto(p, "acknowledged") /\ UNCHANGED <<lock, acks>>
     \/ Goto(p, "acknowledged") /\ UNCHANGED lock /\ acks' = acks \cup {proc[p].key}
  /\ UNCHANGED <<kind, onboarded, optedOut, recorded, stored, late, spoken, posted, covered, torn>>

\* The group turn answers the message that now is the latest.
ReadLatest(p) ==
  /\ proc[p].at = "acknowledged" /\ Unused > 0
  /\ Run(p, Latest, Through(Latest))
  /\ UNCHANGED <<kind, optedOut, recorded, stored, late, saidVars, lock, torn>>

\* The replies of a turn are stored.  A web request returns them, a task delivers them;
\* the task of a group keeps the lock until it has.
Reply(p) ==
  /\ proc[p].at = "running" /\ Unused > 0 /\ ~Answered(proc[p].key)
  /\ spoken' = spoken \cup {[key |-> proc[p].key, trigger |-> proc[p].trigger,
                             reads |-> proc[p].reads, claims |-> Claims(p),
                             through |-> proc[p].trigger]}
  /\ IF proc[p].key \in WebMessages THEN Leave(p)
     ELSE /\ Goto(p, "replied")
          /\ lock' = IF kind = "direct" /\ lock = p THEN Nobody ELSE lock

PersistTurn(p) ==
  /\ proc[p].mode = "agent"
  /\ Reply(p)
  /\ UNCHANGED <<kind, onboarded, optedOut, recorded, stored, late, acks, posted, covered, torn>>

\* apply_profile_candidates: a turn adds what it has learnt of the profile.
Profiles == {onboarded, TRUE}

PersistOnboarding(p) ==
  /\ proc[p].mode = "onboarding"
  /\ Reply(p)
  /\ onboarded' \in Profiles
  /\ UNCHANGED <<kind, optedOut, recorded, stored, late, acks, posted, covered, torn>>

\* The key of the reply is taken: the turn fails.
PersistFails(p) ==
  /\ proc[p].at = "running" /\ Unused > 0 /\ Answered(proc[p].key)
  /\ Leave(p)
  /\ UNCHANGED <<kind, optedOut, recorded, stored, late, saidVars, torn>>

\* The replies are delivered, and the task ends.
Delivered(p) ==
  /\ proc[p].at = "replied"
  /\ posted' = posted \cup {proc[p].key}
  /\ Leave(p)
  /\ UNCHANGED <<kind, onboarded, optedOut, recorded, stored, late, spoken, acks, covered, torn>>

DeliverTurn(p)       == kind = "direct" /\ proc[p].mode = "agent" /\ Delivered(p)
DeliverOnboarding(p) == proc[p].mode = "onboarding" /\ Delivered(p)
DeliverGroup(p)      == kind = "group" /\ Delivered(p)

\* QueuePool times out.
TimeOut(p) ==
  /\ GivesUp(p)
  /\ Leave(p)
  /\ UNCHANGED <<kind, optedOut, recorded, stored, late, saidVars, torn>>

\* An error of the model, the database or Linq, or the end of the process.  Nothing
\* starts the task again; the web client may send once more.
Break(p) ==
  /\ proc[p].at \in Busy
  /\ Leave(p)
  /\ UNCHANGED <<kind, optedOut, recorded, stored, late, saidVars, torn>>

\* The database drops the session of the lock while its holder works on.
LockDrops ==
  /\ lock # Nobody
  /\ lock' = Nobody /\ torn' = TRUE
  /\ UNCHANGED <<kind, optedOut, recorded, stored, late, saidVars, proc>>

\* What a request does once it has begun.
Advance(p) ==
  \/ CommitEventAlone(p) \/ CommitDirect(p) \/ CommitGroup(p) \/ CommitWeb(p)
  \/ Queue(p) \/ LoadGroup(p) \/ LoadTurn(p) \/ LoadOnboarding(p) \/ Decide(p) \/ ReadLatest(p)
  \/ PersistTurn(p) \/ PersistOnboarding(p) \/ PersistFails(p)
  \/ DeliverTurn(p) \/ DeliverOnboarding(p) \/ DeliverGroup(p)
  \/ TimeOut(p)

ConversationsNext ==
  \/ \E p \in Procs :
       \/ \E e \in Hooks : ReceiveHook(p, e)
       \/ \E w \in WebMessages : SendWeb(p, w)
       \/ Advance(p) \/ Enter(p) \/ Break(p)
  \/ LockDrops

\* A request that has begun runs on, and the queue of the lock is served.
ConversationsFairness == \A p \in Procs : WF_turnVars(Advance(p)) /\ SF_turnVars(Enter(p))

-----------------------------------------------------------------------------
(***************************************************************************)
(* Properties                                                              *)
(***************************************************************************)
ConversationsTypeOK ==
  /\ kind \in {"direct", "group"} /\ onboarded \in BOOLEAN /\ optedOut \in BOOLEAN
  /\ recorded \subseteq Hooks /\ acks \subseteq Hooks /\ posted \subseteq Hooks
  /\ late \subseteq stored /\ covered \subseteq stored
  /\ stored \subseteq {Message(k) : k \in Keys}
  /\ \A r \in spoken : r.key \in Keys /\ r.reads \subseteq stored
  /\ lock \in Procs \cup {Nobody} /\ torn \in BOOLEAN
  /\ \A p \in Procs : proc[p].at \in Busy \cup {"idle"}

\* Whatever is delivered, sent or tried twice, a key has one reply.
OneReplyPerKey == \A r, s \in spoken : r.key = s.key => r = s

\* No two Linq tasks answer one message, while the lock holds.
OneTaskPerMessage ==
  \A r, s \in spoken :
    {r.key, s.key} \subseteq Hooks /\ r.trigger = s.trigger => (r = s \/ torn)

\* A message of a group is left without a turn of its own only if a reply has read it,
\* or it came after one written later.
SkippedWasRead == \A m \in covered \ late : \E r \in spoken : m \in r.reads

\* Each message gets one answer: duplicates, redeliveries, retries and bursts neither
\* double it nor drop it unread.
EachMessageIsAnswered == OneReplyPerKey /\ OneTaskPerMessage /\ SkippedWasRead

\* A turn that waits for the lock or for a connection does not wait for ever, though
\* those that wait hold the connections the holder of the lock needs.
TurnsEnd == \A p \in Procs : proc[p].at = "arrived" ~> proc[p].at = "idle"
==============================================================================
