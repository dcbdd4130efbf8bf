------------------------------ MODULE UserEvents ------------------------------
(***************************************************************************)
(* The outbox of user events and the agent-wake workers that drain it:     *)
(* services/user_events.py, with the parts of agents/service.py            *)
(* (run_agent_event), agents/locking.py, agents/channel_delivery.py and    *)
(* services/channels.py a dispatch runs through.                           *)
(*                                                                         *)
(* An event row is claimed for two minutes; nothing stops a worker that    *)
(* outlives its claim, and no write of the outcome checks that the claim   *)
(* is still held.  What keeps the conversation right nevertheless is the   *)
(* conversation lock, the turn persisted under the event's key, and one    *)
(* delivery row per bubble.  The steps below are the database transactions *)
(* and the calls of the model and of Linq between them.                    *)
(*                                                                         *)
(* Wording, typing indicators, pacing, the AgentRun trace, the tools and   *)
(* the order in which eligible rows are picked are left out; the errors of *)
(* the model, of Linq and of the database are choices.                     *)
(***************************************************************************)
EXTENDS Integers, FiniteSets

CONSTANTS
  Events,         \* user_events rows
  Workers,        \* dispatchers: worker processes and background tasks
  Conversations,  \* conversations
  Groups,         \* the group conversations among them
  ConvOf,         \* the conversation an event targets
  Types,          \* the types of the events that are raised
  ByLinq,         \* the events with delivery_provider = "linq"
  None,
  MaxAttempts,    \* user_event_max_attempts
  MaxBubbles,     \* bubbles the model may write in a turn
  Outages         \* whether processes die and the canonical fallback may fail

\* app.build.* , schedule.triggered, the other registered types, and the rest.
EventTypes == {"completed", "failed", "reachout", "wake", "unknown"}

ASSUME ConstantsAssumption ==
  /\ Groups \subseteq Conversations
  /\ ConvOf \in [Events -> Conversations]
  /\ Types \subseteq EventTypes
  /\ ByLinq \subseteq Events
  /\ None \notin Events
  /\ MaxAttempts \in Nat \ {0}
  /\ MaxBubbles \in Nat \ {0}
  /\ Outages \in BOOLEAN

VARIABLES
  status,     \* UserEvent.status, "absent" before the row exists
  type,       \* .event_type, "none" before
  attempts,   \* .attempts
  ripe,       \* a time of the row has passed: next_attempt_at of a failed row,
              \*   two minutes since locked_at of a row in processing
  note,       \* .error: "none", "error", or why a processed row was not told as usual
  open,       \* Conversation.status = "active"
  turn,       \* number of Message rows under the event's key
  link,       \* whether one of them contains the app URL of the payload
  delivery,   \* MessageDelivery.status of a bubble, by ordinal, "none" before the row
  accepted,   \* ordinals of the bubbles Linq has accepted for the chat
  pc,         \* where a dispatcher is
  work        \* its local variables

eventVars == <<status, type, attempts, ripe, note>>
turnVars  == <<turn, link>>
chatVars  == <<delivery, accepted>>
vars == <<eventVars, turnVars, chatVars, open, pc, work>>

\* One more than the model may write: the trusted link can be appended.
Ordinals == 0..MaxBubbles
NoTurn   == -1     \* turn is None

\* The locals of dispatch_user_event: the claimed event, whether conversation
\* is known, delivery_ready, the number of replies of turn, the next ordinal of
\* deliver_linq_replies, delivery_note, whether the canonical turn of exhausted
\* retries is being told; and the events whose turns the model was shown.
NoWork == [event |-> None, found |-> FALSE, ready |-> FALSE, replies |-> NoTurn,
           ordinal |-> 0, note |-> "none", last |-> FALSE, seen |-> {}]

At(w)    == pc[w]
Event(w) == work[w].event

\* The events of a conversation that have a turn.
ToldIn(c) == {e \in Events : ConvOf[e] = c /\ turn[e] # 0}

IsAppOutcome(e) == type[e] \in {"completed", "failed"}

-----------------------------------------------------------------------------
(***************************************************************************)
(* Faults.  Each operator is the definition of the same shape below with   *)
(* one plausible slip in it; no action uses them.                          *)
(***************************************************************************)

\* The lock is taken per event instead of per conversation.
LockPerEvent(w) == \A v \in Workers : pc[v] = "running" => work[v].event # work[w].event

\* The turn persisted by an earlier attempt is not looked for.
TurnNeverFound(e) == FALSE

\* The app URL is left to the model.
LinkAsTheModelLikes(e) == FALSE

\* Only what was never tried is sent.
NeedsFirstSend(e, o) == delivery[e][o] \in {"none", "pending"}

\* A send error overwrites a receipt that came before it.
FailedRegardless(s) == "failed"

\* Only the failure of a build gets a canonical turn.
CanonicalForFailures(w) ==
  attempts[work[w].event] >= MaxAttempts /\ type[work[w].event] = "failed"

\* An expired claim is not eligible.
EligibleUnclaimed(e) ==
  \/ status[e] = "pending"
  \/ status[e] = "failed" /\ ripe[e]

\* The attempt limit is not part of the claim.
Unlimited(e) == attempts[e] <= MaxAttempts

-----------------------------------------------------------------------------
(***************************************************************************)
(* Decisions                                                               *)
(***************************************************************************)

\* The rows _claim_event selects from.
Eligible(e) ==
  \/ status[e] = "pending"
  \/ status[e] = "failed" /\ ripe[e]
  \/ status[e] = "processing" /\ ripe[e]

AttemptsLeft(e) == attempts[e] < MaxAttempts

\* conversation_turn_lock is free for the conversation of w's event.
LockFree(w) ==
  \A v \in Workers : pc[v] = "running" => ConvOf[Event(v)] # ConvOf[Event(w)]

\* _load_existing_turn finds messages under the event's key.
TurnExists(e) == turn[e] # 0

\* prepare_app_completion_bubbles puts the app URL into the turn.
TurnHasLink(e) == type[e] = "completed"

\* The canonical turn follows _retry_event when the retries are exhausted.
CanonicalDue(w) == attempts[Event(w)] >= MaxAttempts /\ IsAppOutcome(Event(w))

\* _delivery_needs_send.
NeedsSend(e, o) == delivery[e][o] \in {"none", "pending", "failed"}

\* A failure does not overwrite the receipt of the chat.
AfterSendError(s) == IF s \in {"delivered", "read"} THEN s ELSE "failed"

\* delivery_note as _finish_event stores it.
OutcomeNote(w) == work[w].note

-----------------------------------------------------------------------------
Init ==
  /\ status = [e \in Events |-> "absent"]
  /\ type = [e \in Events |-> "none"]
  /\ attempts = [e \in Events |-> 0]
  /\ ripe = [e \in Events |-> FALSE]
  /\ note = [e \in Events |-> "none"]
  /\ open = [c \in Conversations |-> TRUE]
  /\ turn = [e \in Events |-> 0]
  /\ link = [e \in Events |-> FALSE]
  /\ delivery = [e \in Events |-> [o \in Ordinals |-> "none"]]
  /\ accepted = [e \in Events |-> {}]
  /\ pc = [w \in Workers |-> "idle"]
  /\ work = [w \in Workers |-> NoWork]

Goto(w, l) == pc' = [pc EXCEPT ![w] = l]

\* The dispatcher returns to its poll loop.
Return(w) ==
  /\ Goto(w, "idle")
  /\ work' = [work EXCEPT ![w] = NoWork]

\* enqueue_user_event; the same key again finds the row.
Enqueue(e, t) ==
  /\ status[e] = "absent"
  /\ type' = [type EXCEPT ![e] = t]
  /\ status' = [status EXCEPT ![e] = "pending"]
  /\ UNCHANGED <<attempts, ripe, note, turnVars, chatVars, open, pc, work>>

\* Dot is removed from a group, or added to it again.
Attendance(c) ==
  /\ c \in Groups
  /\ open' = [open EXCEPT ![c] = ~@]
  /\ UNCHANGED <<eventVars, turnVars, chatVars, pc, work>>

\* _claim_event.
Claim(w, e) ==
  /\ At(w) = "idle"
  /\ Eligible(e)
  /\ AttemptsLeft(e)
  /\ status' = [status EXCEPT ![e] = "processing"]
  /\ attempts' = [attempts EXCEPT ![e] = @ + 1]
  /\ ripe' = [ripe EXCEPT ![e] = FALSE]
  /\ note' = [note EXCEPT ![e] = "none"]
  /\ Goto(w, "claimed")
  /\ work' = [work EXCEPT ![w].event = e]
  /\ UNCHANGED <<type, turnVars, chatVars, open>>

\* _finish_event, whatever the row says by now.
SetOutcome(e, s, n) ==
  /\ status' = [status EXCEPT ![e] = s]
  /\ note' = [note EXCEPT ![e] = n]
  /\ ripe' = [ripe EXCEPT ![e] = FALSE]
  /\ UNCHANGED <<type, attempts>>

\* No policy is registered for the type.
Skip(w) ==
  /\ At(w) = "claimed"
  /\ type[Event(w)] = "unknown"
  /\ SetOutcome(Event(w), "skipped", "error")
  /\ Return(w)
  /\ UNCHANGED <<turnVars, chatVars, open>>

\* _resolve_event_target and the delivery gate: opt-out, channel, settings
\* and client decide whether Linq delivery is possible.
Resolve(w, ready) ==
  LET e == Event(w)
  IN  /\ At(w) = "claimed"
      /\ type[e] # "unknown"
      /\ open[ConvOf[e]]
      /\ ready => e \in ByLinq
      /\ Goto(w, "waking")
      /\ work' = [work EXCEPT ![w].found = TRUE, ![w].ready = ready,
                              ![w].note = IF e \in ByLinq /\ ~ready THEN "undelivered" ELSE @]
      /\ UNCHANGED <<eventVars, turnVars, chatVars, open>>

\* The target is gone, or the database fails.
ResolveFails(w) ==
  /\ At(w) = "claimed"
  /\ type[Event(w)] # "unknown"
  /\ Goto(w, "retrying")
  /\ UNCHANGED <<eventVars, turnVars, chatVars, open, work>>

\* run_agent_event gets the conversation lock: it returns the turn of an
\* earlier attempt, or reads the context and calls the model.
TakeLock(w) ==
  LET e == Event(w)
  IN  /\ At(w) = "waking"
      /\ LockFree(w)
      /\ \/ /\ TurnExists(e)
            /\ Goto(w, "delivering")
            /\ work' = [work EXCEPT ![w].replies = turn[e]]
         \/ /\ ~TurnExists(e)
            /\ Goto(w, "running")
            /\ work' = [work EXCEPT ![w].seen = ToldIn(ConvOf[e])]
      /\ UNCHANGED <<eventVars, turnVars, chatVars, open>>

\* What follows an error of the wake.  Only a completed build goes on, to its
\* canonical turn.
OnWakeError(w) ==
  /\ Goto(w, IF type[Event(w)] = "completed" THEN "substituting" ELSE "retrying")
  /\ UNCHANGED work

\* The commit of _run_agent_wake, which ends the lock: the bubbles of the turn.
\* Its answer may be lost.
PersistTurn(w, n, lost) ==
  LET e == Event(w)
  IN  /\ At(w) = "running"
      /\ turn' = [turn EXCEPT ![e] = n]
      /\ link' = [link EXCEPT ![e] = TurnHasLink(e)]
      /\ IF lost
         THEN OnWakeError(w)
         ELSE Goto(w, "delivering") /\ work' = [work EXCEPT ![w].replies = n]
      /\ UNCHANGED <<eventVars, chatVars, open>>

\* A scheduled wake may decide to say nothing.
SaySilently(w) ==
  /\ At(w) = "running"
  /\ type[Event(w)] = "reachout"
  /\ Goto(w, "delivering")
  /\ work' = [work EXCEPT ![w].replies = 0]
  /\ UNCHANGED <<eventVars, turnVars, chatVars, open>>

\* The wake raises.
WakeFails(w) ==
  /\ At(w) \in {"waking", "running"}
  /\ OnWakeError(w)
  /\ UNCHANGED <<eventVars, turnVars, chatVars, open>>

\* _ensure_app_completion_turn and _ensure_app_failure_turn: under the lock,
\* the turn gets a bubble unless it says what it has to.
EnsureTurn(e) ==
  IF type[e] = "completed"
  THEN /\ turn' = [turn EXCEPT ![e] = IF link[e] THEN @ ELSE @ + 1]
       /\ link' = [link EXCEPT ![e] = TRUE]
  ELSE /\ turn' = [turn EXCEPT ![e] = IF @ = 0 THEN 1 ELSE @]
       /\ UNCHANGED link

Substitute(w) ==
  LET e == Event(w)
  IN  /\ At(w) = "substituting"
      /\ LockFree(w)
      /\ EnsureTurn(e)
      /\ Goto(w, "delivering")
      /\ work' = [work EXCEPT ![w].replies = turn'[e], ![w].note = "canonical"]
      /\ UNCHANGED <<eventVars, chatVars, open>>

SubstituteFails(w) ==
  /\ At(w) = "substituting"
  /\ Goto(w, "retrying")
  /\ UNCHANGED <<eventVars, turnVars, chatVars, open, work>>

-----------------------------------------------------------------------------
(***************************************************************************)
(* deliver_linq_replies                                                    *)
(***************************************************************************)

\* A failed delivery raises, which the canonical path swallows.
Raise(w) ==
  /\ Goto(w, IF work[w].last THEN "closing" ELSE "retrying")
  /\ UNCHANGED work

NextBubble(w) ==
  /\ Goto(w, "delivering")
  /\ work' = [work EXCEPT ![w].ordinal = @ + 1]

Sending(w) == work[w].ready /\ work[w].ordinal < work[w].replies

\* create_outbound_delivery and _delivery_needs_send for the next bubble.
OpenDelivery(w) ==
  LET e == Event(w)
      o == work[w].ordinal
  IN  /\ At(w) = "delivering"
      /\ Sending(w)
      /\ delivery' = [delivery EXCEPT ![e][o] = IF @ = "none" THEN "pending" ELSE @]
      /\ IF NeedsSend(e, o)
         THEN Goto(w, "sending") /\ UNCHANGED work
         ELSE NextBubble(w)
      /\ UNCHANGED <<eventVars, turnVars, accepted, open>>

\* The database fails, or another dispatcher inserted the delivery row between
\* the lookup and the insert.
DeliveryRaises(w) ==
  /\ At(w) \in {"delivering", "sent", "unsent"}
  /\ Sending(w)
  /\ Raise(w)
  /\ UNCHANGED <<eventVars, turnVars, chatVars, open>>

\* send_chat_message returns, or raises after Linq took the message or not.
Send(w, taken, answered) ==
  LET e == Event(w)
  IN  /\ At(w) = "sending"
      /\ answered => taken
      /\ accepted' = [accepted EXCEPT ![e] = IF taken THEN @ \cup {work[w].ordinal} ELSE @]
      /\ Goto(w, IF answered THEN "sent" ELSE "unsent")
      /\ UNCHANGED <<eventVars, turnVars, delivery, open, work>>

\* mark_outbound_sent.
MarkSent(w) ==
  LET e == Event(w)
  IN  /\ At(w) = "sent"
      /\ delivery' = [delivery EXCEPT ![e][work[w].ordinal] =
                        IF @ \in {"pending", "failed"} THEN "sent" ELSE @]
      /\ NextBubble(w)
      /\ UNCHANGED <<eventVars, turnVars, accepted, open>>

\* mark_outbound_failed, and the exception goes on.
MarkFailed(w) ==
  LET e == Event(w)
  IN  /\ At(w) = "unsent"
      /\ delivery' = [delivery EXCEPT ![e][work[w].ordinal] = AfterSendError(@)]
      /\ Raise(w)
      /\ UNCHANGED <<eventVars, turnVars, accepted, open>>

StatusRank(s) == CASE s = "sent" -> 1 [] s = "delivered" -> 2 [] s = "read" -> 3 [] OTHER -> 0

\* A lifecycle webhook of Linq about an accepted bubble, at any time, in any
\* order and any number of times: apply_message_lifecycle_event.
Lifecycle(e, o, s) ==
  /\ o \in accepted[e]
  /\ delivery' = [delivery EXCEPT ![e][o] =
       IF s = "failed" THEN AfterSendError(@)
       ELSE IF StatusRank(@) <= StatusRank(s) THEN s ELSE @]
  /\ UNCHANGED <<eventVars, turnVars, accepted, open, pc, work>>

-----------------------------------------------------------------------------
(***************************************************************************)
(* The end of a dispatch                                                   *)
(***************************************************************************)

\* _finish_event after the last bubble.
Finish(w) ==
  /\ At(w) = "delivering"
  /\ ~Sending(w)
  /\ ~work[w].last
  /\ SetOutcome(Event(w), "processed", OutcomeNote(w))
  /\ Return(w)
  /\ UNCHANGED <<turnVars, chatVars, open>>

\* _finish_event raises, and its commit may have been made or not.
FinishFails(w, committed) ==
  /\ At(w) = "delivering"
  /\ ~Sending(w)
  /\ ~work[w].last
  /\ IF committed
     THEN SetOutcome(Event(w), "processed", OutcomeNote(w))
     ELSE UNCHANGED eventVars
  /\ Goto(w, "retrying")
  /\ UNCHANGED <<turnVars, chatVars, open, work>>

\* _retry_event, whatever the row says by now.
Retry(w) ==
  LET e == Event(w)
  IN  /\ At(w) = "retrying"
      /\ status' = [status EXCEPT ![e] = "failed"]
      /\ ripe' = [ripe EXCEPT ![e] = FALSE]
      /\ note' = [note EXCEPT ![e] = "error"]
      /\ IF CanonicalDue(w)
         THEN Goto(w, "canonical") /\ UNCHANGED work
         ELSE Return(w)
      /\ UNCHANGED <<type, attempts, turnVars, chatVars, open>>

\* The canonical turn of an exhausted event, whose target is looked up unless
\* it is known; it is delivered only if this dispatch had no turn before.
CanonicalTurn(w) ==
  LET e == Event(w)
  IN  /\ At(w) = "canonical"
      /\ work[w].found \/ open[ConvOf[e]]
      /\ LockFree(w)
      /\ EnsureTurn(e)
      /\ IF work[w].replies = NoTurn
         THEN /\ Goto(w, "delivering")
              /\ work' = [work EXCEPT
                            ![w].last = TRUE,
                            ![w].ordinal = 0,
                            ![w].replies = IF type[e] = "completed" THEN turn'[e] ELSE 1]
         ELSE /\ Goto(w, "closing")
              /\ work' = [work EXCEPT ![w].last = TRUE]
      /\ UNCHANGED <<eventVars, chatVars, open>>

AtClose(w) ==
  \/ At(w) = "closing"
  \/ At(w) = "delivering" /\ ~Sending(w) /\ work[w].last

\* The canonical turn was delivered as far as it could be.
Close(w) ==
  /\ AtClose(w)
  /\ SetOutcome(Event(w), "processed", "canonical")
  /\ Return(w)
  /\ UNCHANGED <<turnVars, chatVars, open>>

\* The fallback raises: the target is gone, or the database fails.
CanonicalFails(w) ==
  /\ At(w) = "canonical" \/ AtClose(w)
  /\ Outages \/ (At(w) = "canonical" /\ ~work[w].found /\ ~open[ConvOf[Event(w)]])
  /\ Return(w)
  /\ UNCHANGED <<eventVars, turnVars, chatVars, open>>

\* The process dies, or an error escapes the dispatch and ends it.
Crash(w) ==
  /\ Outages
  /\ At(w) # "idle"
  /\ Return(w)
  /\ UNCHANGED <<eventVars, turnVars, chatVars, open>>

\* The backoff of a failed row, or the two minutes of a claim, pass.
Ripen(e) ==
  /\ status[e] \in {"failed", "processing"}
  /\ ~ripe[e]
  /\ ripe' = [ripe EXCEPT ![e] = TRUE]
  /\ UNCHANGED <<status, type, attempts, note, turnVars, chatVars, open, pc, work>>

-----------------------------------------------------------------------------
Poll(w) == \E e \in Events : Claim(w, e)

\* A dispatch goes on, one way or the other.
Advance(w) ==
  \/ Skip(w)
  \/ \E ready \in BOOLEAN : Resolve(w, ready)
  \/ ResolveFails(w)
  \/ TakeLock(w)
  \/ \E n \in 1..MaxBubbles, lost \in BOOLEAN : PersistTurn(w, n, lost)
  \/ SaySilently(w)
  \/ WakeFails(w)
  \/ Substitute(w)
  \/ SubstituteFails(w)
  \/ OpenDelivery(w)
  \/ DeliveryRaises(w)
  \/ \E taken, answered \in BOOLEAN : Send(w, taken, answered)
  \/ MarkSent(w)
  \/ MarkFailed(w)
  \/ Finish(w)
  \/ \E committed \in BOOLEAN : FinishFails(w, committed)
  \/ Retry(w)
  \/ CanonicalTurn(w)
  \/ Close(w)
  \/ CanonicalFails(w)

Next ==
  \/ \E e \in Events : Ripen(e) \/ \E t \in Types : Enqueue(e, t)
  \/ \E c \in Conversations : Attendance(c)
  \/ \E w \in Workers : Poll(w) \/ Advance(w) \/ Crash(w)
  \/ \E e \in Events, o \in Ordinals, s \in {"sent", "delivered", "read", "failed"} :
       Lifecycle(e, o, s)

Spec == Init /\ [][Next]_vars

-----------------------------------------------------------------------------
(***************************************************************************)
(* Fairness: workers poll as long as there is something to claim, calls of *)
(* the model and of Linq time out, transactions end, and clocks advance.   *)
(* Weak fairness is enough for the conversation lock: attempts are bounded,*)
(* so other dispatches can take it before a waiting one only finitely      *)
(* often.                                                                  *)
(***************************************************************************)
Fairness ==
  /\ \A w \in Workers : WF_vars(Poll(w)) /\ WF_vars(Advance(w))
  /\ \A e \in Events : WF_vars(Ripen(e))

FairSpec == Spec /\ Fairness

-----------------------------------------------------------------------------
(***************************************************************************)
(* Properties                                                              *)
(***************************************************************************)
Labels == {"idle", "claimed", "waking", "running", "substituting", "delivering",
           "sending", "sent", "unsent", "retrying", "canonical", "closing"}

\* The shape of the rows and of the dispatchers; no event is claimed more than
\* user_event_max_attempts times.
TypeOK ==
  /\ type \in [Events -> Types \cup {"none"}]
  /\ status \in [Events -> {"absent", "pending", "processing", "processed", "failed", "skipped"}]
  /\ attempts \in [Events -> 0..MaxAttempts]
  /\ ripe \in [Events -> BOOLEAN]
  /\ note \in [Events -> {"none", "error", "undelivered", "canonical"}]
  /\ open \in [Conversations -> BOOLEAN]
  /\ turn \in [Events -> 0..(MaxBubbles + 1)]
  /\ link \in [Events -> BOOLEAN]
  /\ delivery \in [Events ->
       [Ordinals -> {"none", "pending", "sent", "delivered", "read", "failed"}]]
  /\ accepted \in [Events -> SUBSET Ordinals]
  /\ pc \in [Workers -> Labels]
  /\ work \in [Workers -> [event : Events \cup {None}, found : BOOLEAN, ready : BOOLEAN,
                           replies : NoTurn..(MaxBubbles + 1), ordinal : 0..(MaxBubbles + 1),
                           note : {"none", "undelivered", "canonical"}, last : BOOLEAN,
                           seen : SUBSET Events]]

\* A turn is written with every earlier turn of its conversation in view, also
\* those other workers persisted meanwhile: the wakes of a conversation are
\* serialised by its lock.
WakesSeeTheConversation ==
  \A w \in Workers : pc[w] = "running" => work[w].seen = ToldIn(ConvOf[Event(w)])

\* The model is never asked for a turn that exists already, by whichever stale
\* or repeated dispatch: an event that was told is not told in other words.
ToldOnce == \A w \in Workers : pc[w] = "running" => turn[Event(w)] = 0

\* An event of a completed build that counts as processed left the trusted link
\* of the app in its conversation, whatever the model wrote or failed to write.
CompletionsCarryTheLink ==
  \A e \in Events : type[e] = "completed" /\ status[e] = "processed" => link[e]

\* A processed event without a note was told in full: Linq has taken every
\* bubble of its turn.  (A scheduled wake that chose silence may be processed
\* while a stale dispatch of it still speaks, so it is left out.)
ProcessedMeansDelivered ==
  \A e \in ByLinq :
    type[e] # "reachout" /\ status[e] = "processed" /\ note[e] = "none"
      => turn[e] # 0 /\ \A o \in 0..(turn[e] - 1) : o \in accepted[e]

\* An event reaches its conversation in one wording, and in full when its row
\* says so: what stale dispatches, retries and lost answers put at risk.
DeliveredOnceInFull == ToldOnce /\ ProcessedMeansDelivered

\* The receipt of a bubble never regresses, whatever order the webhooks and the
\* answers and errors of the send calls come in.
ReceiptsNeverRegress ==
  [][\A e \in Events, o \in Ordinals :
       delivery[e][o] \in {"delivered", "read"}
         => StatusRank(delivery'[e][o]) >= StatusRank(delivery[e][o])]_vars

\* The outbox tells each event at most once, and its bubbles arrive in order.
Telling == INSTANCE Telling WITH
             raised <- {e \in Events : status[e] # "absent"},
             told <- turn,
             heard <- accepted

TellingSpec == Telling!Spec

\* The outcome of a build reaches its conversation, and a completed app as its
\* link, however often the model, Linq or the claim's two minutes fail.
OutcomesReachTheUser ==
  \A e \in Events :
    status[e] = "pending" /\ IsAppOutcome(e) ~> turn[e] # 0 /\ (type[e] = "completed" => link[e])
==============================================================================
