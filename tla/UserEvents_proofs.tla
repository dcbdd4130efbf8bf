-------------------------- MODULE UserEvents_proofs --------------------------
(***************************************************************************)
(* What holds of UserEvents for every number of events, conversations,     *)
(* workers, attempts and bubbles.                                          *)
(***************************************************************************)
EXTENDS UserEvents, TLAPS

Calling   == {"sending", "sent", "unsent"}
Speaking  == {"delivering"} \cup Calling
Preparing == {"claimed", "waking", "running", "substituting"}

\* What a dispatcher knows about its event at each of its steps.
WorkerOK(w) ==
  LET e == Event(w)
  IN  /\ pc[w] = "idle" => work[w] = NoWork
      /\ pc[w] # "idle" => e \in Events /\ status[e] # "absent"
      /\ pc[w] \in Preparing => work[w].ordinal = 0 /\ ~work[w].last
      /\ pc[w] = "substituting" => type[e] = "completed"
      /\ pc[w] = "canonical" => IsAppOutcome(e)
      /\ pc[w] \in Calling => Sending(w)
      /\ pc[w] = "sent" => work[w].ordinal \in accepted[e]
      /\ pc[w] \in Speaking \cup {"closing"} /\ type[e] = "completed" => link[e]
      /\ pc[w] \in Speaking =>
           /\ work[w].replies \in 0..turn[e]
           /\ work[w].ordinal \in 0..work[w].replies
           /\ 0..(work[w].ordinal - 1) \subseteq accepted[e]
           /\ ~work[w].last /\ type[e] # "reachout" => work[w].replies = turn[e] /\ turn[e] # 0
      /\ pc[w] \in {"waking", "running", "substituting"} \cup Speaking =>
           (e \in ByLinq /\ ~work[w].last /\ work[w].note = "none" => work[w].ready)

\* What a row says about the turn and the deliveries of its event.
RowOK(e) ==
  /\ status[e] = "absent" => turn[e] = 0
  /\ turn[e] <= MaxBubbles
  /\ type[e] = "completed" /\ turn[e] # 0 => link[e]
  /\ link[e] => turn[e] # 0
  /\ type[e] = "completed" /\ status[e] = "processed" => link[e]
  /\ \E n \in 0..turn[e] : accepted[e] = 0..(n - 1)
  /\ \A o \in Ordinals : StatusRank(delivery[e][o]) > 0 => o \in accepted[e]
  /\ e \in ByLinq /\ type[e] # "reachout" /\ status[e] = "processed" /\ note[e] = "none"
       => turn[e] # 0 /\ 0..(turn[e] - 1) \subseteq accepted[e]

\* The conversation lock: who writes a turn is alone, and its turn is new.
LocksHeld ==
  \A v, w \in Workers :
    pc[v] = "running" /\ pc[w] = "running" /\ ConvOf[Event(v)] = ConvOf[Event(w)] => v = w

LockInv == LocksHeld /\ ToldOnce /\ WakesSeeTheConversation

Inv == TypeOK /\ (\A w \in Workers : WorkerOK(w)) /\ (\A e \in Events : RowOK(e)) /\ LockInv

-----------------------------------------------------------------------------
(***************************************************************************)
(* Which steps write which rows.                                           *)
(***************************************************************************)
\* Turns are written by the commit of a wake and by the canonical turns only.
LEMMA TurnSteps ==
  ASSUME [Next]_vars
  PROVE  \/ UNCHANGED turnVars
         \/ \E w \in Workers, n \in 1..MaxBubbles, lost \in BOOLEAN : PersistTurn(w, n, lost)
         \/ \E w \in Workers : Substitute(w) \/ CanonicalTurn(w)
  <1>1. ASSUME NEW w \in Workers, Poll(w) \/ Crash(w)
        PROVE  UNCHANGED turnVars
    BY <1>1 DEF Poll, Claim, Crash
  <1>2. ASSUME NEW w \in Workers, Advance(w)
        PROVE  \/ UNCHANGED turnVars
               \/ \E n \in 1..MaxBubbles, lost \in BOOLEAN : PersistTurn(w, n, lost)
               \/ Substitute(w) \/ CanonicalTurn(w)
    BY <1>2 DEF Advance, Skip, Resolve, ResolveFails, TakeLock, SaySilently, WakeFails,
         SubstituteFails, OpenDelivery, DeliveryRaises, Send, MarkSent, MarkFailed, Finish,
         FinishFails, Retry, Close, CanonicalFails
  <1>3. ASSUME NEW e \in Events, Ripen(e) \/ \E t \in Types : Enqueue(e, t)
        PROVE  UNCHANGED turnVars
    BY <1>3 DEF Ripen, Enqueue
  <1>4. ASSUME NEW g \in Conversations, Attendance(g)
        PROVE  UNCHANGED turnVars
    BY <1>4 DEF Attendance
  <1>5. ASSUME NEW e \in Events, NEW o \in Ordinals,
               NEW s \in {"sent", "delivered", "read", "failed"}, Lifecycle(e, o, s)
        PROVE  UNCHANGED turnVars
    BY <1>5 DEF Lifecycle
  <1>6. CASE UNCHANGED vars
    BY <1>6 DEF vars
  <1> QED
    BY <1>1, <1>2, <1>3, <1>4, <1>5, <1>6 DEF Next

\* Linq takes a bubble in a send call only.
LEMMA AcceptedSteps ==
  ASSUME [Next]_vars
  PROVE  \/ UNCHANGED accepted
         \/ \E w \in Workers, taken, answered \in BOOLEAN : Send(w, taken, answered)
  <1>1. ASSUME NEW w \in Workers, Poll(w) \/ Crash(w)
        PROVE  UNCHANGED accepted
    BY <1>1 DEF Poll, Claim, Crash, chatVars
  <1>2. ASSUME NEW w \in Workers, Advance(w)
        PROVE  \/ UNCHANGED accepted
               \/ \E taken, answered \in BOOLEAN : Send(w, taken, answered)
    BY <1>2 DEF Advance, Skip, Resolve, ResolveFails, TakeLock, PersistTurn, SaySilently, WakeFails,
         Substitute, SubstituteFails, OpenDelivery, DeliveryRaises, MarkSent, MarkFailed, Finish,
         FinishFails, Retry, CanonicalTurn, Close, CanonicalFails, chatVars
  <1>3. ASSUME NEW e \in Events, Ripen(e) \/ \E t \in Types : Enqueue(e, t)
        PROVE  UNCHANGED accepted
    BY <1>3 DEF Ripen, Enqueue, chatVars
  <1>4. ASSUME NEW g \in Conversations, Attendance(g)
        PROVE  UNCHANGED accepted
    BY <1>4 DEF Attendance, chatVars
  <1>5. ASSUME NEW e \in Events, NEW o \in Ordinals,
               NEW s \in {"sent", "delivered", "read", "failed"}, Lifecycle(e, o, s)
        PROVE  UNCHANGED accepted
    BY <1>5 DEF Lifecycle
  <1>6. CASE UNCHANGED vars
    BY <1>6 DEF vars, chatVars
  <1> QED
    BY <1>1, <1>2, <1>3, <1>4, <1>5, <1>6 DEF Next

\* The status, type and note of a row change by enqueueing, claiming and ending only.
LEMMA RowSteps ==
  ASSUME [Next]_vars
  PROVE  \/ UNCHANGED <<status, type, note>>
         \/ \E e \in Events, t \in Types : Enqueue(e, t)
         \/ \E w \in Workers, e \in Events : Claim(w, e)
         \/ \E w \in Workers : Skip(w) \/ Finish(w) \/ Retry(w) \/ Close(w)
         \/ \E w \in Workers, committed \in BOOLEAN : FinishFails(w, committed)
  <1>1. ASSUME NEW w \in Workers, Crash(w)
        PROVE  UNCHANGED <<status, type, note>>
    BY <1>1 DEF Crash, eventVars
  <1>2. ASSUME NEW w \in Workers, Advance(w)
        PROVE  \/ UNCHANGED <<status, type, note>>
               \/ Skip(w) \/ Finish(w) \/ Retry(w) \/ Close(w)
               \/ \E committed \in BOOLEAN : FinishFails(w, committed)
    BY <1>2 DEF Advance, Resolve, ResolveFails, TakeLock, PersistTurn, SaySilently, WakeFails,
         Substitute, SubstituteFails, OpenDelivery, DeliveryRaises, Send, MarkSent, MarkFailed,
         CanonicalTurn, CanonicalFails, eventVars
  <1>3. ASSUME NEW e \in Events, Ripen(e)
        PROVE  UNCHANGED <<status, type, note>>
    BY <1>3 DEF Ripen
  <1>4. ASSUME NEW g \in Conversations, Attendance(g)
        PROVE  UNCHANGED <<status, type, note>>
    BY <1>4 DEF Attendance, eventVars
  <1>5. ASSUME NEW e \in Events, NEW o \in Ordinals,
               NEW s \in {"sent", "delivered", "read", "failed"}, Lifecycle(e, o, s)
        PROVE  UNCHANGED <<status, type, note>>
    BY <1>5 DEF Lifecycle, eventVars
  <1>6. CASE UNCHANGED vars
    BY <1>6 DEF vars, eventVars
  <1> QED
    BY <1>1, <1>2, <1>3, <1>4, <1>5, <1>6 DEF Next, Poll

-----------------------------------------------------------------------------
(***************************************************************************)
(* What every step keeps.                                                  *)
(***************************************************************************)

\* A turn is written into an event that has none, and completions get their link.
Written(e, n) ==
  /\ status[e] # "absent"
  /\ turn' = [turn EXCEPT ![e] = IF turn[e] = 0 THEN n ELSE turn[e]]
  /\ link' = [link EXCEPT ![e] = link[e] \/ type[e] = "completed"]

\* The canonical turns of a completion or a failure write a turn only where none is.
LEMMA EnsuredTurn ==
  ASSUME Inv, NEW e \in Events, status[e] # "absent", EnsureTurn(e)
  PROVE  Written(e, 1)
  <1>1. RowOK(e) /\ turn \in [Events -> 0..(MaxBubbles + 1)] /\ link \in [Events -> BOOLEAN]
    BY DEF Inv, TypeOK
  <1>2. CASE type[e] = "completed" /\ link[e]
    <2>1. turn[e] # 0
      BY <1>1, <1>2 DEF RowOK
    <2> QED
      BY <1>1, <1>2, <2>1 DEF EnsureTurn, Written
  <1>3. CASE type[e] = "completed" /\ ~link[e]
    <2>1. turn[e] = 0
      BY <1>1, <1>3 DEF RowOK
    <2>2. turn' = [turn EXCEPT ![e] = IF turn[e] = 0 THEN 1 ELSE turn[e]]
      BY <1>3, <2>1 DEF EnsureTurn
    <2>3. (link[e] \/ type[e] = "completed") = TRUE
      BY <1>3
    <2>4. link' = [link EXCEPT ![e] = TRUE]
      BY <1>3 DEF EnsureTurn
    <2> QED
      BY <2>2, <2>3, <2>4 DEF Written
  <1>4. CASE type[e] # "completed"
    BY <1>1, <1>4 DEF EnsureTurn, Written
  <1> QED
    BY <1>2, <1>3, <1>4

\* The commit of a wake writes into an event that has no turn.
LEMMA PersistedTurn ==
  ASSUME Inv, NEW w \in Workers, NEW n \in 1..MaxBubbles, NEW lost \in BOOLEAN,
         PersistTurn(w, n, lost)
  PROVE  Event(w) \in Events /\ turn[Event(w)] = 0 /\ Written(Event(w), n)
  <1>1. pc[w] = "running"
    BY DEF PersistTurn, At
  <1>2. Event(w) \in Events /\ status[Event(w)] # "absent"
    BY <1>1 DEF Inv, WorkerOK
  <1>3. turn[Event(w)] = 0
    BY <1>1 DEF Inv, LockInv, ToldOnce
  <1>4. link[Event(w)] = FALSE
    BY <1>2, <1>3 DEF Inv, TypeOK, RowOK
  <1> QED
    BY <1>2, <1>3, <1>4 DEF PersistTurn, TurnHasLink, Written

\* Every step leaves the turns alone or writes one.
LEMMA TurnsAreWritten ==
  ASSUME Inv, [Next]_vars
  PROVE  UNCHANGED turnVars \/ \E e \in Events, n \in 1..MaxBubbles : Written(e, n)
  <1>1. ASSUME NEW w \in Workers, NEW n \in 1..MaxBubbles, NEW lost \in BOOLEAN,
               PersistTurn(w, n, lost)
        PROVE  \E e \in Events : Written(e, n)
    BY <1>1, PersistedTurn
  <1>2. ASSUME NEW w \in Workers, Substitute(w) \/ CanonicalTurn(w)
        PROVE  \E e \in Events : Written(e, 1)
    <2>1. pc[w] # "idle" /\ EnsureTurn(Event(w))
      BY <1>2 DEF Substitute, CanonicalTurn, At
    <2>2. Event(w) \in Events /\ status[Event(w)] # "absent"
      BY <2>1 DEF Inv, WorkerOK
    <2> QED
      BY <2>1, <2>2, EnsuredTurn
  <1>3. 1 \in 1..MaxBubbles
    BY ConstantsAssumption
  <1> QED
    BY TurnSteps, <1>1, <1>2, <1>3

\* An event keeps its row and type, and once it was told its turn; links and
\* accepted bubbles stay.
Kept(e) ==
  /\ status[e] # "absent" => status'[e] # "absent" /\ type'[e] = type[e]
  /\ turn[e] # 0 => turn'[e] = turn[e]
  /\ turn'[e] # turn[e] => turn'[e] \in 1..MaxBubbles /\ status[e] # "absent"
  /\ type[e] = "completed" /\ turn'[e] # turn[e] => link'[e]
  /\ link[e] => link'[e]
  /\ link'[e] # link[e] => turn'[e] # 0
  /\ accepted[e] \subseteq accepted'[e]

\* Every step keeps what was enqueued, told, linked and accepted.
LEMMA RowsAreKept ==
  ASSUME Inv, [Next]_vars
  PROVE  \A e \in Events : Kept(e)
  <1>t. /\ status \in [Events -> {"absent", "pending", "processing", "processed", "failed", "skipped"}]
        /\ type \in [Events -> Types \cup {"none"}]
        /\ turn \in [Events -> 0..(MaxBubbles + 1)] /\ link \in [Events -> BOOLEAN]
        /\ accepted \in [Events -> SUBSET Ordinals]
    BY DEF Inv, TypeOK
  <1>1. \A e \in Events : status[e] # "absent" => status'[e] # "absent" /\ type'[e] = type[e]
    <2>1. ASSUME NEW w \in Workers, NEW e \in Events, Claim(w, e)
          PROVE  status' = [status EXCEPT ![e] = "processing"] /\ type' = type
      BY <2>1 DEF Claim
    <2>2. ASSUME NEW w \in Workers, Skip(w) \/ Finish(w) \/ Retry(w) \/ Close(w)
          PROVE  type' = type /\ \E s \in {"skipped", "processed", "failed"} :
                   status' = [status EXCEPT ![Event(w)] = s]
      BY <2>2 DEF Skip, Finish, Retry, Close, SetOutcome
    <2>3. ASSUME NEW w \in Workers, NEW committed \in BOOLEAN, FinishFails(w, committed)
          PROVE  type' = type /\ (status' = status \/ status' = [status EXCEPT ![Event(w)] = "processed"])
      BY <2>3 DEF FinishFails, SetOutcome, eventVars
    <2>4. ASSUME NEW e \in Events, NEW t \in Types, Enqueue(e, t)
          PROVE  /\ status[e] = "absent"
                 /\ type' = [type EXCEPT ![e] = t] /\ status' = [status EXCEPT ![e] = "pending"]
      BY <2>4 DEF Enqueue
    <2> QED
      BY <1>t, RowSteps, <2>1, <2>2, <2>3, <2>4
  <1>2. \A e \in Events : accepted[e] \subseteq accepted'[e]
    <2>1. ASSUME NEW w \in Workers, NEW taken \in BOOLEAN, NEW answered \in BOOLEAN,
                 Send(w, taken, answered)
          PROVE  accepted' = [accepted EXCEPT ![Event(w)] =
                                IF taken THEN @ \cup {work[w].ordinal} ELSE @]
      BY <2>1 DEF Send
    <2> QED
      BY <1>t, AcceptedSteps, <2>1
  <1>3. \A e \in Events : /\ turn[e] # 0 => turn'[e] = turn[e]
                          /\ turn'[e] # turn[e] => turn'[e] \in 1..MaxBubbles /\ status[e] # "absent"
                          /\ type[e] = "completed" /\ turn'[e] # turn[e] => link'[e]
                          /\ link[e] => link'[e]
                          /\ link'[e] # link[e] => turn'[e] # 0
    <2>1. CASE UNCHANGED turnVars
      BY <2>1 DEF turnVars
    <2>2. ASSUME NEW f \in Events, NEW n \in 1..MaxBubbles, Written(f, n), NEW e \in Events
          PROVE  /\ turn[e] # 0 => turn'[e] = turn[e]
                 /\ turn'[e] # turn[e] => turn'[e] \in 1..MaxBubbles /\ status[e] # "absent"
                 /\ type[e] = "completed" /\ turn'[e] # turn[e] => link'[e]
                 /\ link[e] => link'[e]
                 /\ link'[e] # link[e] => turn'[e] # 0
      <3>1. CASE e # f
        <4>1. turn'[e] = turn[e] /\ link'[e] = link[e]
          BY <1>t, <2>2, <3>1 DEF Written
        <4> QED
          BY <4>1
      <3>2. CASE e = f
        <4>1. turn'[e] = IF turn[e] = 0 THEN n ELSE turn[e]
          BY <1>t, <2>2, <3>2 DEF Written
        <4>2. link'[e] = (link[e] \/ type[e] = "completed")
          BY <1>t, <2>2, <3>2 DEF Written
        <4>3. status[e] # "absent" /\ n \in 1..MaxBubbles /\ turn[e] \in Nat
          BY <1>t, <2>2, <3>2 DEF Written
        <4>4. turn'[e] # 0
          BY <4>1, <4>3
        <4> QED
          BY <4>1, <4>2, <4>3, <4>4
      <3> QED
        BY <3>1, <3>2
    <2> QED
      BY <2>1, <2>2, TurnsAreWritten
  <1> QED
    BY <1>1, <1>2, <1>3 DEF Kept

-----------------------------------------------------------------------------
(***************************************************************************)
(* The dispatchers.                                                        *)
(***************************************************************************)
WorkType == [event : Events \cup {None}, found : BOOLEAN, ready : BOOLEAN,
             replies : NoTurn..(MaxBubbles + 1), ordinal : 0..(MaxBubbles + 1),
             note : {"none", "undelivered", "canonical"}, last : BOOLEAN, seen : SUBSET Events]

\* A dispatcher moves by its own steps only.
LEMMA OwnSteps ==
  ASSUME Inv, [Next]_vars, NEW v \in Workers
  PROVE  UNCHANGED <<pc[v], work[v]>> \/ Poll(v) \/ Advance(v) \/ Crash(v)
  <1>t. pc \in [Workers -> Labels] /\ work \in [Workers -> WorkType]
    BY DEF Inv, TypeOK, WorkType
  <1>1. ASSUME NEW w \in Workers, w # v, Poll(w) \/ Crash(w)
        PROVE  UNCHANGED <<pc[v], work[v]>>
    BY <1>t, <1>1 DEF Poll, Claim, Crash, Return, Goto
  <1>2. ASSUME NEW w \in Workers, w # v, Advance(w)
        PROVE  UNCHANGED <<pc[v], work[v]>>
    <2> USE DEF Return, Goto, OnWakeError, NextBubble, Raise
    <2>1. CASE \/ Skip(w) \/ ResolveFails(w) \/ TakeLock(w) \/ SaySilently(w) \/ WakeFails(w)
               \/ \E ready \in BOOLEAN : Resolve(w, ready)
      BY <1>t, <1>2, <2>1 DEF Skip, Resolve, ResolveFails, TakeLock, SaySilently, WakeFails
    <2>2. CASE \/ Substitute(w) \/ SubstituteFails(w)
               \/ \E n \in 1..MaxBubbles, lost \in BOOLEAN : PersistTurn(w, n, lost)
      BY <1>t, <1>2, <2>2 DEF PersistTurn, Substitute, SubstituteFails
    <2>3. CASE \/ OpenDelivery(w) \/ DeliveryRaises(w) \/ MarkSent(w) \/ MarkFailed(w)
               \/ \E taken, answered \in BOOLEAN : Send(w, taken, answered)
      BY <1>t, <1>2, <2>3 DEF OpenDelivery, DeliveryRaises, Send, MarkSent, MarkFailed
    <2>4. CASE \/ Finish(w) \/ Retry(w) \/ CanonicalTurn(w) \/ Close(w) \/ CanonicalFails(w)
               \/ \E committed \in BOOLEAN : FinishFails(w, committed)
      BY <1>t, <1>2, <2>4 DEF Finish, FinishFails, Retry, CanonicalTurn, Close, CanonicalFails
    <2> QED
      BY <1>2, <2>1, <2>2, <2>3, <2>4 DEF Advance
  <1>3. ASSUME NEW e \in Events, Ripen(e) \/ \E t \in Types : Enqueue(e, t)
        PROVE  UNCHANGED <<pc[v], work[v]>>
    BY <1>3 DEF Ripen, Enqueue
  <1>4. ASSUME NEW g \in Conversations, Attendance(g)
        PROVE  UNCHANGED <<pc[v], work[v]>>
    BY <1>4 DEF Attendance
  <1>5. ASSUME NEW e \in Events, NEW o \in Ordinals,
               NEW s \in {"sent", "delivered", "read", "failed"}, Lifecycle(e, o, s)
        PROVE  UNCHANGED <<pc[v], work[v]>>
    BY <1>5 DEF Lifecycle
  <1>6. CASE UNCHANGED vars
    BY <1>6 DEF vars
  <1> QED
    BY <1>1, <1>2, <1>3, <1>4, <1>5, <1>6 DEF Next

\* What a dispatcher knows stays true while others move.
LEMMA OthersKeepIt ==
  ASSUME Inv, [Next]_vars, NEW v \in Workers, UNCHANGED <<pc[v], work[v]>>
  PROVE  WorkerOK(v)'
  <1> DEFINE e == Event(v)
  <1>1. CASE pc[v] = "idle"
    BY <1>1 DEF Inv, WorkerOK, Preparing, Calling, Speaking
  <1>2. CASE pc[v] # "idle"
    <2>1. e \in Events /\ status[e] # "absent" /\ WorkerOK(v)
      BY <1>2 DEF Inv, WorkerOK
    <2>2. Kept(e)
      BY <2>1, RowsAreKept
    <2>3. Event(v)' = e /\ status'[e] # "absent" /\ type'[e] = type[e]
      BY <2>1, <2>2 DEF Kept, Event
    <2>4. /\ turn[e] # 0 => turn'[e] = turn[e]
          /\ turn[e] \in Nat /\ (turn'[e] = turn[e] \/ turn'[e] \in 1..MaxBubbles)
          /\ link[e] => link'[e]
          /\ accepted[e] \subseteq accepted'[e]
      BY <2>1, <2>2 DEF Kept, Inv, TypeOK
    <2>5. 0..turn[e] \subseteq 0..turn'[e]
      BY <2>4
    <2>6. pc[v] \in Calling => Sending(v)'
      BY <2>1 DEF WorkerOK, Sending
    <2>7. pc[v] \in Speaking =>
           /\ work[v].replies \in 0..turn'[e]
           /\ work[v].ordinal \in 0..work[v].replies
           /\ 0..(work[v].ordinal - 1) \subseteq accepted'[e]
           /\ ~work[v].last /\ type'[e] # "reachout" => work[v].replies = turn'[e] /\ turn'[e] # 0
      BY <2>1, <2>3, <2>4, <2>5 DEF WorkerOK
    <2>8. /\ pc[v] = "canonical" => IsAppOutcome(e)'
          /\ pc[v] \in Speaking \cup {"closing"} /\ type'[e] = "completed" => link'[e]
          /\ pc[v] = "sent" => work[v].ordinal \in accepted'[e]
          /\ pc[v] = "substituting" => type'[e] = "completed"
      BY <2>1, <2>3, <2>4 DEF WorkerOK, IsAppOutcome
    <2>9. /\ pc[v] \in Preparing => work[v].ordinal = 0 /\ ~work[v].last
          /\ pc[v] \in {"waking", "running", "substituting"} \cup Speaking =>
               (e \in ByLinq /\ ~work[v].last /\ work[v].note = "none" => work[v].ready)
      BY <2>1 DEF WorkerOK
    <2>10. pc'[v] = pc[v] /\ work'[v] = work[v] /\ work'[v].event = e
      BY DEF Event
    <2> QED
      BY <1>2, <2>1, <2>3, <2>6, <2>7, <2>8, <2>9, <2>10 DEF WorkerOK, IsAppOutcome, Event
  <1> QED
    BY <1>1, <1>2

\* What a dispatcher can rely on in its own step.
LEMMA OwnFacts ==
  ASSUME Inv, [Next]_vars, NEW w \in Workers, pc[w] # "idle"
  PROVE  /\ pc \in [Workers -> Labels] /\ work \in [Workers -> WorkType]
         /\ WorkerOK(w) /\ Event(w) \in Events /\ status[Event(w)] # "absent"
         /\ status'[Event(w)] # "absent" /\ type'[Event(w)] = type[Event(w)]
         /\ RowOK(Event(w)) /\ Kept(Event(w))
         /\ turn[Event(w)] \in Nat /\ turn'[Event(w)] \in Nat
         /\ link[Event(w)] \in BOOLEAN /\ accepted[Event(w)] \subseteq Ordinals
  <1>1. Event(w) \in Events /\ status[Event(w)] # "absent" /\ WorkerOK(w)
    BY DEF Inv, WorkerOK
  <1>2. Kept(Event(w))
    BY <1>1, RowsAreKept
  <1>3. /\ turn[Event(w)] \in Nat /\ link[Event(w)] \in BOOLEAN
        /\ accepted[Event(w)] \subseteq Ordinals
    BY <1>1 DEF Inv, TypeOK
  <1>4. turn'[Event(w)] \in Nat
    BY <1>2, <1>3 DEF Kept
  <1> QED
    BY <1>1, <1>2, <1>3, <1>4 DEF Inv, TypeOK, WorkType, Kept

\* A dispatcher that returns to its poll loop knows nothing.
LEMMA ReturnOK ==
  ASSUME Inv, NEW w \in Workers, Return(w)
  PROVE  WorkerOK(w)'
  <1>1. pc'[w] = "idle" /\ work'[w] = NoWork
    BY DEF Return, Goto, Inv, TypeOK
  <1> QED
    BY <1>1 DEF WorkerOK, Preparing, Speaking, Calling

\* After the errors that end in a retry there is nothing to know but the event.
LEMMA RetryingOK ==
  ASSUME Inv, [Next]_vars, NEW w \in Workers, pc[w] # "idle",
         pc'[w] = "retrying", work'[w] = work[w]
  PROVE  WorkerOK(w)'
  BY OwnFacts DEF WorkerOK, Event, Preparing, Speaking, Calling

\* Claiming, and the wake up to its turn.
LEMMA WakeOK ==
  ASSUME Inv, [Next]_vars, NEW w \in Workers,
         \/ Poll(w) \/ TakeLock(w) \/ SaySilently(w) \/ WakeFails(w)
         \/ \E ready \in BOOLEAN : Resolve(w, ready)
         \/ \E n \in 1..MaxBubbles, lost \in BOOLEAN : PersistTurn(w, n, lost)
  PROVE  WorkerOK(w)'
  <1> DEFINE e == Event(w)
  <1>t. /\ pc \in [Workers -> Labels] /\ work \in [Workers -> WorkType]
        /\ status \in [Events -> {"absent", "pending", "processing", "processed", "failed", "skipped"}]
    BY DEF Inv, TypeOK, WorkType
  <1>o. pc[w] # "idle" =>
          /\ WorkerOK(w) /\ e \in Events
          /\ status'[e] # "absent" /\ type'[e] = type[e]
          /\ RowOK(e) /\ turn[e] \in Nat /\ link[e] \in BOOLEAN
    BY OwnFacts
  <1>1. ASSUME NEW f \in Events, Claim(w, f)
        PROVE  WorkerOK(w)'
    <2>1. pc'[w] = "claimed" /\ work'[w] = [NoWork EXCEPT !.event = f] /\ status'[f] = "processing"
      BY <1>t, <1>1 DEF Claim, Goto, At, Inv, WorkerOK
    <2> QED
      BY <2>1 DEF WorkerOK, Event, NoWork, Preparing, Speaking, Calling
  <1>2. ASSUME NEW ready \in BOOLEAN, Resolve(w, ready)
        PROVE  WorkerOK(w)'
    <2>1. pc[w] = "claimed" /\ pc'[w] = "waking"
      BY <1>t, <1>2 DEF Resolve, Goto, At
    <2>2. /\ work'[w].event = e /\ work'[w].ready = ready
          /\ work'[w].ordinal = work[w].ordinal /\ work'[w].last = work[w].last
          /\ e \in ByLinq /\ work'[w].note = "none" => ready
      <3>1. work'[w] = [work[w] EXCEPT !.found = TRUE, !.ready = ready,
                          !.note = IF e \in ByLinq /\ ~ready THEN "undelivered" ELSE @]
        BY <1>t, <1>2 DEF Resolve
      <3> QED
        BY <1>t, <3>1 DEF WorkType, Event
    <2> QED
      BY <1>o, <2>1, <2>2 DEF WorkerOK, Event, Preparing, Speaking, Calling
  <1>3. ASSUME TakeLock(w)
        PROVE  WorkerOK(w)'
    <2>1. pc[w] = "waking" /\ UNCHANGED <<turn, link, accepted>>
      BY <1>3 DEF TakeLock, At, turnVars, chatVars
    <2>2. CASE TurnExists(e)
      <3>1. pc'[w] = "delivering"
        BY <1>t, <1>3, <2>2 DEF TakeLock, Goto
      <3>2. work'[w] = [work[w] EXCEPT !.replies = turn[e]]
        BY <1>t, <1>3, <2>2 DEF TakeLock
      <3>3. /\ work'[w].event = e /\ work'[w].ready = work[w].ready
            /\ work'[w].ordinal = work[w].ordinal /\ work'[w].last = work[w].last
            /\ work'[w].note = work[w].note /\ work'[w].replies = turn[e]
        BY <1>t, <3>2 DEF WorkType, Event
      <3>4. work[w].ordinal = 0 /\ ~work[w].last
        BY <1>o, <2>1 DEF WorkerOK, Preparing
      <3>5. turn'[e] # 0 /\ (type[e] = "completed" => link'[e])
        BY <1>o, <2>1, <2>2 DEF TurnExists, RowOK
      <3>6. 0..(work'[w].ordinal - 1) \subseteq accepted'[e]
        BY <3>3, <3>4
      <3> QED
        BY <1>o, <2>1, <3>1, <3>3, <3>4, <3>5, <3>6 DEF WorkerOK, Event, Preparing, Speaking, Calling
    <2>3. CASE ~TurnExists(e)
      <3>1. pc'[w] = "running"
        BY <1>t, <1>3, <2>3 DEF TakeLock, Goto
      <3>2. /\ work'[w].event = e /\ work'[w].ready = work[w].ready
            /\ work'[w].ordinal = work[w].ordinal /\ work'[w].last = work[w].last
            /\ work'[w].note = work[w].note
        BY <1>t, <1>3, <2>3 DEF TakeLock, WorkType, Event
      <3> QED
        BY <1>o, <2>1, <3>1, <3>2 DEF WorkerOK, Event, Preparing, Speaking, Calling
    <2> QED
      BY <2>2, <2>3
  <1>4. ASSUME OnWakeError(w), pc[w] \in {"waking", "running"}
        PROVE  WorkerOK(w)'
    <2>1. CASE type[e] = "completed"
      <3>1. pc'[w] = "substituting" /\ work'[w] = work[w]
        BY <1>t, <1>4, <2>1 DEF OnWakeError, Goto
      <3> QED
        BY <1>o, <1>4, <2>1, <3>1 DEF WorkerOK, Event, Preparing, Speaking, Calling
    <2>2. CASE type[e] # "completed"
      <3>1. pc'[w] = "retrying" /\ work'[w] = work[w]
        BY <1>t, <1>4, <2>2 DEF OnWakeError, Goto
      <3> QED
        BY <1>4, <3>1, RetryingOK
    <2> QED
      BY <2>1, <2>2
  <1>5. ASSUME SaySilently(w)
        PROVE  WorkerOK(w)'
    <2>1. pc[w] = "running" /\ UNCHANGED turn /\ type[e] = "reachout" /\ pc'[w] = "delivering"
      BY <1>t, <1>5 DEF SaySilently, At, Goto, turnVars
    <2>2. /\ work'[w].event = e /\ work'[w].ready = work[w].ready
          /\ work'[w].ordinal = work[w].ordinal /\ work'[w].last = work[w].last
          /\ work'[w].note = work[w].note /\ work'[w].replies = 0
      BY <1>t, <1>5 DEF SaySilently, WorkType, Event
    <2>3. work[w].ordinal = 0 /\ ~work[w].last
      BY <1>o, <2>1 DEF WorkerOK, Preparing
    <2>4. 0..(work'[w].ordinal - 1) \subseteq accepted'[e]
      BY <2>2, <2>3
    <2> QED
      BY <1>o, <2>1, <2>2, <2>3, <2>4 DEF WorkerOK, Event, Preparing, Speaking, Calling
  <1>6. ASSUME NEW n \in 1..MaxBubbles, NEW lost \in BOOLEAN, PersistTurn(w, n, lost), ~lost
        PROVE  WorkerOK(w)'
    <2>1. pc[w] = "running" /\ pc'[w] = "delivering"
      BY <1>t, <1>6 DEF PersistTurn, At, Goto
    <2>2. /\ work'[w].event = e /\ work'[w].ready = work[w].ready
          /\ work'[w].ordinal = work[w].ordinal /\ work'[w].last = work[w].last
          /\ work'[w].note = work[w].note /\ work'[w].replies = n
      BY <1>t, <1>6 DEF PersistTurn, WorkType, Event
    <2>3. work[w].ordinal = 0 /\ ~work[w].last
      BY <1>o, <2>1 DEF WorkerOK, Preparing
    <2>4. 0..(work'[w].ordinal - 1) \subseteq accepted'[e]
      BY <2>2, <2>3
    <2>5. turn'[e] = n /\ n # 0 /\ n \in Nat /\ (type[e] = "completed" => link'[e])
      <3>1. turn \in [Events -> 0..(MaxBubbles + 1)] /\ link \in [Events -> BOOLEAN]
        BY DEF Inv, TypeOK
      <3>2. turn' = [turn EXCEPT ![e] = n] /\ link' = [link EXCEPT ![e] = TurnHasLink(e)]
        BY <1>6 DEF PersistTurn
      <3>3. type[e] = "completed" => TurnHasLink(e) = TRUE
        BY DEF TurnHasLink
      <3> QED
        BY <1>o, <2>1, <3>1, <3>2, <3>3
    <2> QED
      BY <1>o, <2>1, <2>2, <2>3, <2>4, <2>5 DEF WorkerOK, Event, Preparing, Speaking, Calling
  <1>7. ASSUME NEW n \in 1..MaxBubbles, NEW lost \in BOOLEAN, PersistTurn(w, n, lost)
        PROVE  WorkerOK(w)'
    <2>1. CASE lost
      <3>1. pc[w] = "running" /\ OnWakeError(w)
        BY <1>7, <2>1 DEF PersistTurn, At
      <3> QED
        BY <1>4, <3>1
    <2> QED
      BY <1>6, <1>7, <2>1
  <1>8. ASSUME WakeFails(w)
        PROVE  WorkerOK(w)'
    BY <1>4, <1>8 DEF WakeFails, At
  <1> QED
    BY <1>1, <1>2, <1>3, <1>5, <1>7, <1>8 DEF Poll

\* The canonical turns.
LEMMA CanonicalOK ==
  ASSUME Inv, [Next]_vars, NEW w \in Workers,
         Substitute(w) \/ SubstituteFails(w) \/ CanonicalTurn(w) \/ Retry(w)
  PROVE  WorkerOK(w)'
  <1> DEFINE e == Event(w)
  <1>t. /\ pc \in [Workers -> Labels] /\ work \in [Workers -> WorkType]
        /\ turn \in [Events -> 0..(MaxBubbles + 1)] /\ link \in [Events -> BOOLEAN]
    BY DEF Inv, TypeOK, WorkType
  <1>i. pc[w] # "idle"
    BY DEF Substitute, SubstituteFails, CanonicalTurn, Retry, At
  <1>o. /\ WorkerOK(w) /\ e \in Events /\ status[e] # "absent"
        /\ status'[e] # "absent" /\ type'[e] = type[e]
        /\ turn[e] \in Nat /\ turn'[e] \in Nat /\ link[e] \in BOOLEAN
    BY <1>i, OwnFacts
  <1>1. ASSUME EnsureTurn(e)
        PROVE  turn'[e] # 0 /\ (type[e] = "completed" => link'[e])
    <2>1. turn' = [turn EXCEPT ![e] = IF turn[e] = 0 THEN 1 ELSE turn[e]]
      BY <1>o, <1>1, EnsuredTurn DEF Written
    <2>2. link' = [link EXCEPT ![e] = link[e] \/ type[e] = "completed"]
      BY <1>o, <1>1, EnsuredTurn DEF Written
    <2>3. turn'[e] # 0
      BY <1>t, <1>o, <2>1
    <2>4. link'[e] = (link[e] \/ type[e] = "completed")
      BY <1>t, <1>o, <2>2
    <2> QED
      BY <2>3, <2>4
  <1>2. ASSUME Substitute(w)
        PROVE  WorkerOK(w)'
    <2>1. pc[w] = "substituting" /\ pc'[w] = "delivering" /\ EnsureTurn(e)
      BY <1>t, <1>2 DEF Substitute, At, Goto
    <2>2. /\ work'[w].event = e /\ work'[w].ordinal = work[w].ordinal
          /\ work'[w].note = "canonical" /\ work'[w].replies = turn'[e]
      <3>1. work'[w] = [work[w] EXCEPT !.replies = turn'[e], !.note = "canonical"]
        BY <1>t, <1>2 DEF Substitute
      <3> QED
        BY <1>t, <3>1 DEF WorkType, Event
    <2>3. work[w].ordinal = 0
      BY <1>o, <2>1 DEF WorkerOK, Preparing
    <2>4. 0..(work'[w].ordinal - 1) \subseteq accepted'[e]
      BY <2>2, <2>3
    <2> QED
      BY <1>o, <1>1, <2>1, <2>2, <2>3, <2>4 DEF WorkerOK, Event, Preparing, Speaking, Calling
  <1>3. ASSUME SubstituteFails(w)
        PROVE  WorkerOK(w)'
    BY <1>t, <1>i, <1>3, RetryingOK DEF SubstituteFails, Goto
  <1>4. ASSUME CanonicalTurn(w)
        PROVE  WorkerOK(w)'
    <2>1. EnsureTurn(e)
      BY <1>4 DEF CanonicalTurn
    <2>2. CASE work[w].replies = NoTurn
      <3>1. pc'[w] = "delivering"
        BY <1>t, <1>4, <2>2 DEF CanonicalTurn, Goto
      <3>2. work'[w] = [work[w] EXCEPT !.last = TRUE, !.ordinal = 0,
                          !.replies = IF type[e] = "completed" THEN turn'[e] ELSE 1]
        BY <1>t, <1>4, <2>2 DEF CanonicalTurn
      <3>3. /\ work'[w].event = e /\ work'[w].ordinal = 0 /\ work'[w].last
            /\ work'[w].replies = IF type[e] = "completed" THEN turn'[e] ELSE 1
        BY <1>t, <3>2 DEF WorkType, Event
      <3>4. work'[w].replies \in 0..turn'[e]
        BY <1>o, <1>1, <2>1, <3>3
      <3>5. 0..(work'[w].ordinal - 1) \subseteq accepted'[e]
        BY <3>3
      <3>6. work'[w].ordinal \in 0..work'[w].replies
        BY <1>o, <3>3, <3>4
      <3> QED
        BY <1>o, <1>1, <2>1, <3>1, <3>3, <3>4, <3>5, <3>6
           DEF WorkerOK, Event, Preparing, Speaking, Calling
    <2>3. CASE work[w].replies # NoTurn
      <3>1. pc'[w] = "closing"
        BY <1>t, <1>4, <2>3 DEF CanonicalTurn, Goto
      <3>2. work'[w].event = e
        BY <1>t, <1>4, <2>3 DEF CanonicalTurn, WorkType, Event
      <3> QED
        BY <1>o, <1>1, <2>1, <3>1, <3>2 DEF WorkerOK, Event, Preparing, Speaking, Calling
    <2> QED
      BY <2>2, <2>3
  <1>5. ASSUME Retry(w)
        PROVE  WorkerOK(w)'
    <2>1. CASE CanonicalDue(w)
      <3>1. pc'[w] = "canonical" /\ work'[w] = work[w] /\ IsAppOutcome(e)
        BY <1>t, <1>5, <2>1 DEF Retry, Goto, CanonicalDue
      <3> QED
        BY <1>o, <3>1 DEF WorkerOK, Event, Preparing, Speaking, Calling, IsAppOutcome
    <2>2. CASE ~CanonicalDue(w)
      BY <1>5, <2>2, ReturnOK DEF Retry
    <2> QED
      BY <2>1, <2>2
  <1> QED
    BY <1>2, <1>3, <1>4, <1>5

\* The delivery of a turn, bubble by bubble.
LEMMA DeliveryOK ==
  ASSUME Inv, [Next]_vars, NEW w \in Workers,
         \/ OpenDelivery(w) \/ DeliveryRaises(w) \/ MarkSent(w) \/ MarkFailed(w)
         \/ \E taken, answered \in BOOLEAN : Send(w, taken, answered)
  PROVE  WorkerOK(w)'
  <1> DEFINE e == Event(w)
  <1>t. /\ pc \in [Workers -> Labels] /\ work \in [Workers -> WorkType]
        /\ accepted \in [Events -> SUBSET Ordinals]
    BY DEF Inv, TypeOK, WorkType
  <1>i. pc[w] \in Speaking
    BY DEF OpenDelivery, DeliveryRaises, MarkSent, MarkFailed, Send, At, Speaking, Calling
  <1>o. /\ WorkerOK(w) /\ RowOK(e) /\ e \in Events /\ status[e] # "absent"
        /\ status'[e] # "absent" /\ type'[e] = type[e]
        /\ turn[e] \in Nat /\ turn'[e] \in Nat
    BY <1>i, OwnFacts DEF Speaking, Calling
  <1>k. link[e] => link'[e]
    BY <1>i, OwnFacts DEF Speaking, Calling, Kept
  <1>a. accepted[e] \subseteq accepted'[e]
    BY <1>i, OwnFacts DEF Speaking, Calling, Kept
  <1>n. UNCHANGED turn
    BY DEF OpenDelivery, DeliveryRaises, MarkSent, MarkFailed, Send, turnVars
  <1>s. /\ work[w].replies \in 0..turn[e] /\ work[w].ordinal \in 0..work[w].replies
        /\ 0..(work[w].ordinal - 1) \subseteq accepted[e]
        /\ work[w].replies \in Int /\ work[w].ordinal \in Nat
    BY <1>i, <1>o DEF WorkerOK
  <1>1. ASSUME Raise(w)
        PROVE  WorkerOK(w)'
    <2>1. work'[w] = work[w] /\ (pc'[w] = "retrying" \/ pc'[w] = "closing")
      BY <1>t, <1>1 DEF Raise, Goto
    <2> QED
      BY <1>i, <1>o, <1>k, <2>1 DEF WorkerOK, Event, Preparing, Speaking, Calling
  <1>2. ASSUME NextBubble(w), Sending(w), work[w].ordinal \in accepted[e]
        PROVE  WorkerOK(w)'
    <2>1. pc'[w] = "delivering" /\ work'[w] = [work[w] EXCEPT !.ordinal = work[w].ordinal + 1]
      BY <1>t, <1>2 DEF NextBubble, Goto
    <2>2. /\ work'[w].event = e /\ work'[w].ready = work[w].ready
          /\ work'[w].ordinal = work[w].ordinal + 1 /\ work'[w].last = work[w].last
          /\ work'[w].note = work[w].note /\ work'[w].replies = work[w].replies
      BY <1>t, <2>1 DEF WorkType, Event
    <2>3. work'[w].ordinal \in 0..work'[w].replies
      BY <1>2, <1>s, <2>2 DEF Sending
    <2>4. 0..(work'[w].ordinal - 1) \subseteq accepted'[e]
      <3>1. \A i \in 0..(work'[w].ordinal - 1) : i \in 0..(work[w].ordinal - 1) \/ i = work[w].ordinal
        BY <1>s, <2>2
      <3> QED
        BY <1>2, <1>a, <1>s, <3>1
    <2> QED
      BY <1>i, <1>o, <1>k, <1>n, <1>s, <2>1, <2>2, <2>3, <2>4
         DEF WorkerOK, Event, Preparing, Speaking, Calling
  <1>3. ASSUME pc'[w] \in Calling, work'[w] = work[w], Sending(w),
               pc'[w] = "sent" => work[w].ordinal \in accepted'[e]
        PROVE  WorkerOK(w)'
    BY <1>i, <1>o, <1>k, <1>a, <1>n, <1>s, <1>3
       DEF WorkerOK, Event, Preparing, Speaking, Calling, Sending
  <1>4. ASSUME OpenDelivery(w)
        PROVE  WorkerOK(w)'
    <2>1. CASE NeedsSend(e, work[w].ordinal)
      BY <1>t, <1>3, <1>4, <2>1 DEF OpenDelivery, Goto, Calling
    <2>2. CASE ~NeedsSend(e, work[w].ordinal)
      <3>1. NextBubble(w) /\ Sending(w)
        BY <1>4, <2>2 DEF OpenDelivery
      <3>2. work[w].ordinal \in Ordinals
        BY <1>o, <1>s, <3>1, ConstantsAssumption DEF Sending, Ordinals, RowOK
      <3>3. delivery[e][work[w].ordinal] \in {"none", "pending", "sent", "delivered", "read", "failed"}
        BY <1>o, <3>2 DEF Inv, TypeOK
      <3>4. StatusRank(delivery[e][work[w].ordinal]) > 0
        BY <2>2, <3>3 DEF NeedsSend, StatusRank
      <3> QED
        BY <1>2, <1>o, <3>1, <3>2, <3>4 DEF RowOK
    <2> QED
      BY <2>1, <2>2
  <1>5. ASSUME NEW taken \in BOOLEAN, NEW answered \in BOOLEAN, Send(w, taken, answered)
        PROVE  WorkerOK(w)'
    <2>1. work'[w] = work[w] /\ pc'[w] = IF answered THEN "sent" ELSE "unsent"
      BY <1>t, <1>5 DEF Send, Goto
    <2>2. Sending(w)
      BY <1>o, <1>5 DEF WorkerOK, Send, At, Calling
    <2>3. answered => work[w].ordinal \in accepted'[e]
      BY <1>t, <1>o, <1>5 DEF Send
    <2> QED
      BY <1>3, <2>1, <2>2, <2>3 DEF Calling
  <1>6. ASSUME MarkSent(w)
        PROVE  WorkerOK(w)'
    BY <1>2, <1>o, <1>6 DEF MarkSent, At, WorkerOK, Calling
  <1> QED
    BY <1>1, <1>4, <1>5, <1>6 DEF DeliveryRaises, MarkFailed

\* What a dispatcher knows after a step of its own.
LEMMA ActorOK ==
  ASSUME Inv, [Next]_vars, NEW w \in Workers, Poll(w) \/ Advance(w) \/ Crash(w)
  PROVE  WorkerOK(w)'
  <1>t. pc \in [Workers -> Labels] /\ work \in [Workers -> WorkType]
    BY DEF Inv, TypeOK, WorkType
  <1>1. CASE Skip(w) \/ Finish(w) \/ Close(w) \/ CanonicalFails(w) \/ Crash(w)
    BY <1>1, ReturnOK DEF Skip, Finish, Close, CanonicalFails, Crash
  <1>2. CASE ResolveFails(w) \/ \E committed \in BOOLEAN : FinishFails(w, committed)
    <2>1. pc[w] # "idle" /\ pc'[w] = "retrying" /\ work'[w] = work[w]
      BY <1>t, <1>2 DEF ResolveFails, FinishFails, Goto, At
    <2> QED
      BY <2>1, RetryingOK
  <1> QED
    BY <1>1, <1>2, WakeOK, CanonicalOK, DeliveryOK DEF Advance

\* Every step keeps what each dispatcher knows.
LEMMA WorkersOK ==
  ASSUME Inv, [Next]_vars, NEW w \in Workers
  PROVE  WorkerOK(w)'
  BY OwnSteps, OthersKeepIt, ActorOK

-----------------------------------------------------------------------------
(***************************************************************************)
(* The rows.                                                               *)
(***************************************************************************)
RowTypes ==
  /\ type \in [Events -> Types \cup {"none"}]
  /\ status \in [Events -> {"absent", "pending", "processing", "processed", "failed", "skipped"}]
  /\ attempts \in [Events -> 0..MaxAttempts]
  /\ ripe \in [Events -> BOOLEAN]
  /\ note \in [Events -> {"none", "error", "undelivered", "canonical"}]

DeliveryTypes ==
  delivery \in [Events -> [Ordinals -> {"none", "pending", "sent", "delivered", "read", "failed"}]]

WorkerTypes == pc \in [Workers -> Labels] /\ work \in [Workers -> WorkType]

\* What the claim and the outcomes write into a row is of its type.
LEMMA RowTypesKept ==
  ASSUME Inv, [Next]_vars
  PROVE  RowTypes'
  <1>t. RowTypes /\ WorkerTypes
    BY DEF Inv, TypeOK, RowTypes, WorkerTypes, WorkType
  <1>1. CASE UNCHANGED eventVars
    BY <1>1, <1>t DEF RowTypes, eventVars
  <1>2. ASSUME NEW e \in Events, Ripen(e) \/ \E t \in Types : Enqueue(e, t)
        PROVE  RowTypes'
    BY <1>2, <1>t DEF RowTypes, Ripen, Enqueue
  <1>3. ASSUME NEW w \in Workers, NEW e \in Events, Claim(w, e)
        PROVE  RowTypes'
    <2>1. attempts[e] + 1 \in 0..MaxAttempts
      BY <1>t, <1>3, ConstantsAssumption DEF Claim, AttemptsLeft, RowTypes
    <2> QED
      BY <1>3, <1>t, <2>1 DEF RowTypes, Claim
  <1>4. ASSUME NEW e, NEW s \in {"skipped", "processed"},
               NEW n \in {"none", "error", "undelivered", "canonical"}, SetOutcome(e, s, n)
        PROVE  RowTypes'
    BY <1>4, <1>t DEF RowTypes, SetOutcome
  <1>5. ASSUME NEW w \in Workers
        PROVE  OutcomeNote(w) \in {"none", "error", "undelivered", "canonical"}
    BY <1>t DEF WorkerTypes, WorkType, OutcomeNote
  <1>6. ASSUME NEW w \in Workers, Advance(w)
        PROVE  RowTypes'
    <2>1. CASE Skip(w) \/ Finish(w) \/ Close(w) \/ \E committed \in BOOLEAN : FinishFails(w, committed)
      BY <1>1, <1>4, <1>5, <2>1 DEF Skip, Finish, Close, FinishFails
    <2>2. CASE Retry(w)
      BY <1>t, <2>2 DEF RowTypes, Retry
    <2> QED
      BY <1>1, <1>6, <2>1, <2>2 DEF Advance, Resolve, ResolveFails, TakeLock, PersistTurn,
         SaySilently, WakeFails, Substitute, SubstituteFails, OpenDelivery, DeliveryRaises, Send,
         MarkSent, MarkFailed, CanonicalTurn, CanonicalFails
  <1>7. ASSUME UNCHANGED vars \/ (\E w \in Workers : Crash(w)) \/ (\E g \in Conversations : Attendance(g))
                 \/ \E e \in Events, o \in Ordinals, s \in {"sent", "delivered", "read", "failed"} :
                      Lifecycle(e, o, s)
        PROVE  UNCHANGED eventVars
    BY <1>7 DEF vars, Crash, Attendance, Lifecycle
  <1> QED
    BY <1>1, <1>2, <1>3, <1>6, <1>7 DEF Next, Poll

\* The receipt of a bubble is only ever what Linq or the send call said of it.
LEMMA DeliveryKept ==
  ASSUME Inv, [Next]_vars
  PROVE  /\ DeliveryTypes'
         /\ \A e \in Events, o \in Ordinals :
              /\ delivery[e][o] \in {"delivered", "read"}
                   => StatusRank(delivery'[e][o]) >= StatusRank(delivery[e][o])
              /\ StatusRank(delivery'[e][o]) > 0
                   => StatusRank(delivery[e][o]) > 0 \/ o \in accepted[e]
  <1> DEFINE Receipts == {"none", "pending", "sent", "delivered", "read", "failed"}
             Fits(s, t, e, o) == /\ t \in Receipts
                                 /\ s \in {"delivered", "read"} => StatusRank(t) >= StatusRank(s)
                                 /\ StatusRank(t) > 0 => StatusRank(s) > 0 \/ o \in accepted[e]
             Goal == /\ DeliveryTypes'
                     /\ \A e \in Events, o \in Ordinals :
                          /\ delivery[e][o] \in {"delivered", "read"}
                               => StatusRank(delivery'[e][o]) >= StatusRank(delivery[e][o])
                          /\ StatusRank(delivery'[e][o]) > 0
                               => StatusRank(delivery[e][o]) > 0 \/ o \in accepted[e]
  <1>t. DeliveryTypes /\ WorkerTypes
    BY DEF Inv, TypeOK, DeliveryTypes, WorkerTypes, WorkType
  <1>s. \A s \in Receipts : StatusRank(s) \in Nat
    BY DEF StatusRank
  <1>1. CASE UNCHANGED delivery
    BY <1>1, <1>t, <1>s DEF DeliveryTypes
  <1>2. ASSUME NEW e \in Events, NEW o \in Ordinals, NEW t,
               delivery' = [delivery EXCEPT ![e][o] = t], Fits(delivery[e][o], t, e, o)
        PROVE  Goal
    <2>1. ASSUME NEW f \in Events, NEW p \in Ordinals
          PROVE  delivery'[f][p] = IF f = e /\ p = o THEN t ELSE delivery[f][p]
      BY <1>2, <1>t DEF DeliveryTypes
    <2>2. DeliveryTypes'
      BY <1>2, <1>t DEF DeliveryTypes
    <2>3. ASSUME NEW f \in Events, NEW p \in Ordinals
          PROVE  Fits(delivery[f][p], delivery'[f][p], f, p)
      BY <1>2, <1>t, <1>s, <2>1 DEF DeliveryTypes
    <2> QED
      BY <2>2, <2>3
  <1>3. ASSUME NEW w \in Workers, pc[w] \in Speaking, Sending(w)
        PROVE  Event(w) \in Events /\ work[w].ordinal \in Ordinals
    <2>1. WorkerOK(w) /\ Event(w) \in Events /\ RowOK(Event(w))
      BY <1>3 DEF Inv, WorkerOK, Speaking, Calling
    <2>2. work[w].ordinal \in Nat /\ work[w].replies \in 0..turn[Event(w)]
      BY <1>3, <1>t, <2>1 DEF WorkerOK, WorkerTypes, WorkType
    <2> QED
      BY <1>3, <2>1, <2>2, ConstantsAssumption DEF RowOK, Sending, Ordinals, Inv, TypeOK
  <1>4. ASSUME NEW w \in Workers, OpenDelivery(w)
        PROVE  Goal
    <2> DEFINE s == delivery[Event(w)][work[w].ordinal]
               t == IF s = "none" THEN "pending" ELSE s
    <2>1. Event(w) \in Events /\ work[w].ordinal \in Ordinals
      BY <1>3, <1>4 DEF OpenDelivery, At, Speaking
    <2>2. delivery' = [delivery EXCEPT ![Event(w)][work[w].ordinal] = t]
      BY <1>4 DEF OpenDelivery
    <2>3. s \in Receipts
      BY <1>t, <2>1 DEF DeliveryTypes
    <2>4. Fits(s, t, Event(w), work[w].ordinal)
      BY <2>3, <1>s DEF StatusRank
    <2> QED
      BY <1>2, <2>1, <2>2, <2>4
  <1>5. ASSUME NEW w \in Workers, MarkSent(w)
        PROVE  Goal
    <2> DEFINE s == delivery[Event(w)][work[w].ordinal]
               t == IF s \in {"pending", "failed"} THEN "sent" ELSE s
    <2>1. pc[w] = "sent" /\ WorkerOK(w)
      BY <1>5 DEF MarkSent, At, Inv
    <2>2. Event(w) \in Events /\ work[w].ordinal \in Ordinals
      BY <1>3, <2>1 DEF WorkerOK, Calling, Speaking
    <2>3. delivery' = [delivery EXCEPT ![Event(w)][work[w].ordinal] = t]
      BY <1>5 DEF MarkSent
    <2>4. s \in Receipts
      BY <1>t, <2>2 DEF DeliveryTypes
    <2>5. work[w].ordinal \in accepted[Event(w)]
      BY <2>1 DEF WorkerOK
    <2>6. Fits(s, t, Event(w), work[w].ordinal)
      BY <2>4, <2>5 DEF StatusRank
    <2> QED
      BY <1>2, <2>2, <2>3, <2>6
  <1>6. ASSUME NEW w \in Workers, MarkFailed(w)
        PROVE  Goal
    <2> DEFINE s == delivery[Event(w)][work[w].ordinal]
    <2>1. pc[w] = "unsent" /\ WorkerOK(w)
      BY <1>6 DEF MarkFailed, At, Inv
    <2>2. Event(w) \in Events /\ work[w].ordinal \in Ordinals
      BY <1>3, <2>1 DEF WorkerOK, Calling, Speaking
    <2>3. delivery' = [delivery EXCEPT ![Event(w)][work[w].ordinal] = AfterSendError(s)]
      BY <1>6 DEF MarkFailed
    <2>4. s \in Receipts
      BY <1>t, <2>2 DEF DeliveryTypes
    <2>5. Fits(s, AfterSendError(s), Event(w), work[w].ordinal)
      BY <2>4 DEF StatusRank, AfterSendError
    <2> QED
      BY <1>2, <2>2, <2>3, <2>5
  <1>7. ASSUME NEW e \in Events, NEW o \in Ordinals,
               NEW r \in {"sent", "delivered", "read", "failed"}, Lifecycle(e, o, r)
        PROVE  Goal
    <2> DEFINE s == delivery[e][o]
               t == IF r = "failed" THEN AfterSendError(s)
                    ELSE IF StatusRank(s) <= StatusRank(r) THEN r ELSE s
    <2>1. delivery' = [delivery EXCEPT ![e][o] = t] /\ o \in accepted[e]
      BY <1>7 DEF Lifecycle
    <2>2. s \in Receipts
      BY <1>t DEF DeliveryTypes
    <2>3. Fits(s, t, e, o)
      BY <2>1, <2>2 DEF StatusRank, AfterSendError
    <2> QED
      BY <1>2, <2>1, <2>3
  <1>8. ASSUME NEW w \in Workers, Poll(w) \/ Crash(w)
        PROVE  UNCHANGED delivery
    BY <1>8 DEF Poll, Claim, Crash, chatVars
  <1>9. ASSUME NEW w \in Workers, Advance(w)
        PROVE  UNCHANGED delivery \/ OpenDelivery(w) \/ MarkSent(w) \/ MarkFailed(w)
    BY <1>9 DEF Advance, Skip, Resolve, ResolveFails, TakeLock, PersistTurn, SaySilently, WakeFails,
         Substitute, SubstituteFails, DeliveryRaises, Send, Finish, FinishFails, Retry,
         CanonicalTurn, Close, CanonicalFails, chatVars
  <1>10. ASSUME UNCHANGED vars \/ (\E g \in Conversations : Attendance(g))
                 \/ \E e \in Events : Ripen(e) \/ \E t \in Types : Enqueue(e, t)
         PROVE  UNCHANGED delivery
    BY <1>10 DEF vars, Attendance, Ripen, Enqueue, chatVars
  <1> QED
    BY <1>1, <1>4, <1>5, <1>6, <1>7, <1>8, <1>9, <1>10 DEF Next

\* A turn has at most the bubbles the model may write, and a link at that.
LEMMA TurnTypesKept ==
  ASSUME Inv, [Next]_vars
  PROVE  /\ turn' \in [Events -> 0..(MaxBubbles + 1)]
         /\ link' \in [Events -> BOOLEAN]
         /\ accepted' \in [Events -> SUBSET Ordinals]
         /\ open' \in [Conversations -> BOOLEAN]
  <1>t. /\ turn \in [Events -> 0..(MaxBubbles + 1)] /\ link \in [Events -> BOOLEAN]
        /\ accepted \in [Events -> SUBSET Ordinals] /\ open \in [Conversations -> BOOLEAN]
        /\ WorkerTypes
    BY DEF Inv, TypeOK, WorkerTypes, WorkType
  <1>1. turn' \in [Events -> 0..(MaxBubbles + 1)] /\ link' \in [Events -> BOOLEAN]
    <2>1. ASSUME NEW e \in Events, NEW n \in 1..MaxBubbles, Written(e, n)
          PROVE  turn' \in [Events -> 0..(MaxBubbles + 1)]
      BY <1>t, <2>1, ConstantsAssumption DEF Written
    <2>2. ASSUME NEW e \in Events, NEW n \in 1..MaxBubbles, Written(e, n)
          PROVE  link' \in [Events -> BOOLEAN]
      <3>1. (link[e] \/ type[e] = "completed") \in BOOLEAN
        OBVIOUS
      <3> QED
        BY <1>t, <2>2, <3>1 DEF Written
    <2> QED
      BY <1>t, <2>1, <2>2, TurnsAreWritten DEF turnVars
  <1>2. accepted' \in [Events -> SUBSET Ordinals]
    <2>1. ASSUME NEW w \in Workers, NEW taken \in BOOLEAN, NEW answered \in BOOLEAN,
                 Send(w, taken, answered)
          PROVE  accepted' \in [Events -> SUBSET Ordinals]
      <3>1. pc[w] = "sending" /\ WorkerOK(w)
        BY <2>1 DEF Send, At, Inv
      <3>2. Event(w) \in Events /\ RowOK(Event(w)) /\ Sending(w)
        BY <3>1 DEF WorkerOK, Calling, Inv
      <3>3. work[w].ordinal \in Nat /\ work[w].replies \in 0..turn[Event(w)]
        BY <1>t, <3>1, <3>2 DEF WorkerOK, WorkerTypes, WorkType, Calling, Speaking
      <3>4. work[w].ordinal \in Ordinals
        BY <1>t, <3>2, <3>3, ConstantsAssumption DEF RowOK, Sending, Ordinals
      <3>5. accepted' = [accepted EXCEPT ![Event(w)] =
                           IF taken THEN accepted[Event(w)] \cup {work[w].ordinal}
                           ELSE accepted[Event(w)]]
        BY <2>1 DEF Send
      <3> QED
        BY <1>t, <3>2, <3>4, <3>5
    <2> QED
      BY <1>t, <2>1, AcceptedSteps
  <1>3. open' \in [Conversations -> BOOLEAN]
    <2>1. ASSUME NEW w \in Workers, Poll(w) \/ Crash(w)
          PROVE  UNCHANGED open
      BY <2>1 DEF Poll, Claim, Crash
    <2>2. ASSUME NEW w \in Workers, Advance(w)
          PROVE  UNCHANGED open
      BY <2>2 DEF Advance, Skip, Resolve, ResolveFails, TakeLock, PersistTurn, SaySilently, WakeFails,
         Substitute, SubstituteFails, OpenDelivery, DeliveryRaises, Send, MarkSent, MarkFailed, Finish,
         FinishFails, Retry, CanonicalTurn, Close, CanonicalFails
    <2>3. ASSUME NEW g \in Conversations, Attendance(g)
          PROVE  open' \in [Conversations -> BOOLEAN]
      BY <1>t, <2>3 DEF Attendance
    <2>4. ASSUME UNCHANGED vars
                   \/ (\E e \in Events : Ripen(e) \/ \E t \in Types : Enqueue(e, t))
                   \/ \E e \in Events, o \in Ordinals, s \in {"sent", "delivered", "read", "failed"} :
                        Lifecycle(e, o, s)
          PROVE  UNCHANGED open
      BY <2>4 DEF vars, Ripen, Enqueue, Lifecycle
    <2> QED
      BY <1>t, <2>1, <2>2, <2>3, <2>4 DEF Next
  <1> QED
    BY <1>1, <1>2, <1>3

\* The locals of a dispatcher: its ordinal never passes the replies it has.
LEMMA WorkerTypesKept ==
  ASSUME Inv, [Next]_vars
  PROVE  WorkerTypes'
  <1>t. WorkerTypes
    BY DEF Inv, TypeOK, WorkerTypes, WorkType
  <1>1. ASSUME NEW w \in Workers, NEW l \in Labels, Goto(w, l)
        PROVE  pc' \in [Workers -> Labels]
    BY <1>t, <1>1 DEF WorkerTypes, Goto
  <1>2. ASSUME NEW w \in Workers, NEW r \in WorkType, work' = [work EXCEPT ![w] = r]
        PROVE  work' \in [Workers -> WorkType]
    BY <1>t, <1>2 DEF WorkerTypes
  <1>3. ASSUME NEW w \in Workers, Return(w)
        PROVE  WorkerTypes'
    <2>1. NoWork \in WorkType
      BY ConstantsAssumption DEF NoWork, WorkType, NoTurn
    <2> QED
      BY <1>1, <1>2, <1>3, <2>1 DEF Return, Labels, WorkerTypes
  <1>4. ASSUME NEW w \in Workers, NEW l \in Labels, Goto(w, l), UNCHANGED work
        PROVE  WorkerTypes'
    BY <1>t, <1>1, <1>4 DEF WorkerTypes
  <1>5. ASSUME NEW w \in Workers, OnWakeError(w) \/ Raise(w)
        PROVE  WorkerTypes'
    BY <1>4, <1>5 DEF OnWakeError, Raise, Labels
  <1>6. ASSUME NEW w \in Workers, NextBubble(w), Sending(w)
        PROVE  WorkerTypes'
    <2>1. work' = [work EXCEPT ![w] = [work[w] EXCEPT !.ordinal = work[w].ordinal + 1]]
      BY <1>t, <1>6 DEF NextBubble, WorkerTypes, WorkType
    <2>2. work[w].ordinal + 1 \in 0..(MaxBubbles + 1)
      BY <1>t, <1>6, ConstantsAssumption DEF Sending, WorkerTypes, WorkType, NoTurn
    <2>3. [work[w] EXCEPT !.ordinal = work[w].ordinal + 1] \in WorkType
      BY <1>t, <2>2 DEF WorkerTypes, WorkType
    <2> QED
      BY <1>1, <1>2, <1>6, <2>1, <2>3 DEF NextBubble, Labels, WorkerTypes
  <1>7. ASSUME NEW w \in Workers, NEW e \in Events, Claim(w, e)
        PROVE  WorkerTypes'
    <2>1. work' = [work EXCEPT ![w] = [work[w] EXCEPT !.event = e]]
      BY <1>t, <1>7 DEF Claim, WorkerTypes, WorkType
    <2>2. [work[w] EXCEPT !.event = e] \in WorkType
      BY <1>t DEF WorkerTypes, WorkType
    <2> QED
      BY <1>1, <1>2, <1>7, <2>1, <2>2 DEF Claim, Labels, WorkerTypes
  <1>8. ASSUME NEW w \in Workers, NEW ready \in BOOLEAN, Resolve(w, ready)
        PROVE  WorkerTypes'
    <2> DEFINE n == IF Event(w) \in ByLinq /\ ~ready THEN "undelivered" ELSE work[w].note
               r == [work[w] EXCEPT !.found = TRUE, !.ready = ready, !.note = n]
    <2>1. work' = [work EXCEPT ![w] = r]
      BY <1>t, <1>8 DEF Resolve, WorkerTypes, WorkType
    <2>2. r \in WorkType
      BY <1>t DEF WorkerTypes, WorkType
    <2> QED
      BY <1>1, <1>2, <1>8, <2>1, <2>2 DEF Resolve, Labels, WorkerTypes
  <1>9. ASSUME NEW w \in Workers, NEW n \in 0..(MaxBubbles + 1), Goto(w, "delivering"),
               work' = [work EXCEPT ![w].replies = n]
        PROVE  WorkerTypes'
    <2>1. work' = [work EXCEPT ![w] = [work[w] EXCEPT !.replies = n]]
      BY <1>t, <1>9 DEF WorkerTypes, WorkType
    <2>2. [work[w] EXCEPT !.replies = n] \in WorkType
      BY <1>t, ConstantsAssumption DEF WorkerTypes, WorkType, NoTurn
    <2> QED
      BY <1>1, <1>2, <1>9, <2>1, <2>2 DEF Labels, WorkerTypes
  <1>10. ASSUME NEW w \in Workers, TakeLock(w)
         PROVE  WorkerTypes'
    <2>1. CASE TurnExists(Event(w))
      <3>1. pc[w] = "waking"
        BY <1>10 DEF TakeLock, At
      <3>2. Event(w) \in Events
        BY <3>1 DEF Inv, WorkerOK
      <3>3. turn[Event(w)] \in 0..(MaxBubbles + 1)
        BY <3>2 DEF Inv, TypeOK
      <3> QED
        BY <1>9, <1>10, <2>1, <3>3 DEF TakeLock
    <2>2. CASE ~TurnExists(Event(w))
      <3> DEFINE r == [work[w] EXCEPT !.seen = ToldIn(ConvOf[Event(w)])]
      <3>1. work' = [work EXCEPT ![w] = r]
        BY <1>t, <1>10, <2>2 DEF TakeLock, WorkerTypes, WorkType
      <3>2. r \in WorkType
        BY <1>t DEF WorkerTypes, WorkType, ToldIn
      <3> QED
        BY <1>1, <1>2, <1>10, <2>2, <3>1, <3>2 DEF TakeLock, Labels, WorkerTypes
    <2> QED
      BY <2>1, <2>2
  <1>11. ASSUME NEW w \in Workers, NEW n \in 1..MaxBubbles, NEW lost \in BOOLEAN,
                PersistTurn(w, n, lost)
         PROVE  WorkerTypes'
    <2>1. n \in 0..(MaxBubbles + 1)
      BY ConstantsAssumption
    <2> QED
      BY <1>5, <1>9, <1>11, <2>1 DEF PersistTurn
  <1>12. ASSUME NEW w \in Workers, SaySilently(w)
         PROVE  WorkerTypes'
    <2>1. 0 \in 0..(MaxBubbles + 1)
      BY ConstantsAssumption
    <2> QED
      BY <1>9, <1>12, <2>1 DEF SaySilently
  <1>e. ASSUME NEW w \in Workers, Substitute(w) \/ CanonicalTurn(w)
        PROVE  turn'[Event(w)] \in 0..(MaxBubbles + 1)
    <2>1. pc[w] # "idle"
      BY <1>e DEF Substitute, CanonicalTurn, At
    <2>2. Event(w) \in Events
      BY <2>1 DEF Inv, WorkerOK
    <2> QED
      BY <2>2, TurnTypesKept
  <1>13. ASSUME NEW w \in Workers, Substitute(w)
         PROVE  WorkerTypes'
    <2> DEFINE r == [work[w] EXCEPT !.replies = turn'[Event(w)], !.note = "canonical"]
    <2>1. work' = [work EXCEPT ![w] = r]
      BY <1>t, <1>13 DEF Substitute, WorkerTypes, WorkType
    <2>2. ASSUME NEW n \in 0..(MaxBubbles + 1)
          PROVE  [work[w] EXCEPT !.replies = n, !.note = "canonical"] \in WorkType
      <3>1. n \in NoTurn..(MaxBubbles + 1)
        BY ConstantsAssumption DEF NoTurn
      <3>2. work[w] \in WorkType
        BY <1>t DEF WorkerTypes
      <3> QED
        BY <3>1, <3>2 DEF WorkType
    <2>3. r \in WorkType
      BY <1>e, <1>13, <2>2
    <2> QED
      BY <1>1, <1>2, <1>13, <2>1, <2>3 DEF Substitute, Labels, WorkerTypes
  <1>14. ASSUME NEW w \in Workers, CanonicalTurn(w)
         PROVE  WorkerTypes'
    <2>1. CASE work[w].replies = NoTurn
      <3> DEFINE n == IF type[Event(w)] = "completed" THEN turn'[Event(w)] ELSE 1
                 r == [work[w] EXCEPT !.last = TRUE, !.ordinal = 0, !.replies = n]
      <3>1. work' = [work EXCEPT ![w] = r]
        BY <1>t, <1>14, <2>1 DEF CanonicalTurn, WorkerTypes, WorkType
      <3>2. n \in 0..(MaxBubbles + 1)
        BY <1>e, <1>14, ConstantsAssumption
      <3>3. ASSUME NEW m \in 0..(MaxBubbles + 1)
            PROVE  [work[w] EXCEPT !.last = TRUE, !.ordinal = 0, !.replies = m] \in WorkType
        <4>1. m \in NoTurn..(MaxBubbles + 1) /\ 0 \in 0..(MaxBubbles + 1)
          BY ConstantsAssumption DEF NoTurn
        <4> QED
          BY <1>t, <4>1 DEF WorkerTypes, WorkType
      <3>4. r \in WorkType
        BY <3>2, <3>3
      <3> QED
        BY <1>1, <1>2, <1>14, <2>1, <3>1, <3>4 DEF CanonicalTurn, Labels, WorkerTypes
    <2>2. CASE work[w].replies # NoTurn
      <3>1. work' = [work EXCEPT ![w] = [work[w] EXCEPT !.last = TRUE]]
        BY <1>t, <1>14, <2>2 DEF CanonicalTurn, WorkerTypes, WorkType
      <3>2. [work[w] EXCEPT !.last = TRUE] \in WorkType
        BY <1>t DEF WorkerTypes, WorkType
      <3> QED
        BY <1>1, <1>2, <1>14, <2>2, <3>1, <3>2 DEF CanonicalTurn, Labels, WorkerTypes
    <2> QED
      BY <2>1, <2>2
  <1>15. ASSUME NEW w \in Workers, ResolveFails(w) \/ SubstituteFails(w)
                  \/ (\E taken, answered \in BOOLEAN : Send(w, taken, answered))
                  \/ \E committed \in BOOLEAN : FinishFails(w, committed)
         PROVE  WorkerTypes'
    BY <1>4, <1>15 DEF ResolveFails, SubstituteFails, Send, FinishFails, Labels
  <1>16. ASSUME NEW w \in Workers, Skip(w) \/ Finish(w) \/ Close(w) \/ CanonicalFails(w) \/ Crash(w)
         PROVE  WorkerTypes'
    BY <1>3, <1>16 DEF Skip, Finish, Close, CanonicalFails, Crash
  <1>17. ASSUME NEW w \in Workers, Retry(w)
         PROVE  WorkerTypes'
    BY <1>3, <1>4, <1>17 DEF Retry, Labels
  <1>18. ASSUME NEW w \in Workers, OpenDelivery(w)
         PROVE  WorkerTypes'
    BY <1>4, <1>6, <1>18 DEF OpenDelivery, Labels
  <1>19. ASSUME NEW w \in Workers, MarkSent(w)
         PROVE  WorkerTypes'
    <2>1. pc[w] = "sent" /\ WorkerOK(w)
      BY <1>19 DEF MarkSent, At, Inv
    <2>2. Sending(w)
      BY <2>1 DEF WorkerOK, Calling
    <2> QED
      BY <1>6, <1>19, <2>2 DEF MarkSent
  <1>20. ASSUME NEW w \in Workers, Advance(w)
         PROVE  WorkerTypes'
    BY <1>5, <1>8, <1>10, <1>11, <1>12, <1>13, <1>14, <1>15, <1>16, <1>17, <1>18, <1>19, <1>20
       DEF Advance, WakeFails, DeliveryRaises, MarkFailed
  <1>21. ASSUME UNCHANGED vars
                  \/ (\E e \in Events : Ripen(e) \/ \E t \in Types : Enqueue(e, t))
                  \/ (\E g \in Conversations : Attendance(g))
                  \/ \E e \in Events, o \in Ordinals, s \in {"sent", "delivered", "read", "failed"} :
                       Lifecycle(e, o, s)
         PROVE  UNCHANGED <<pc, work>>
    BY <1>21 DEF vars, Ripen, Enqueue, Attendance, Lifecycle
  <1> QED
    BY <1>t, <1>7, <1>16, <1>20, <1>21 DEF Next, Poll, WorkerTypes

\* Every step keeps the types.
LEMMA NextType ==
  ASSUME Inv, [Next]_vars
  PROVE  TypeOK'
  BY RowTypesKept, DeliveryKept, TurnTypesKept, WorkerTypesKept
     DEF TypeOK, RowTypes, DeliveryTypes, WorkerTypes, WorkType

\* Linq takes the bubbles of a turn in order, whichever dispatcher sends them.
LEMMA PrefixGrows ==
  ASSUME Inv, NEW w \in Workers, NEW taken \in BOOLEAN, NEW answered \in BOOLEAN,
         Send(w, taken, answered)
  PROVE  /\ Event(w) \in Events
         /\ \E m, n \in 0..turn[Event(w)] :
              /\ accepted[Event(w)] = 0..(m - 1) /\ m \in {n, n - 1}
              /\ accepted' = [accepted EXCEPT ![Event(w)] = 0..(n - 1)]
  <1> DEFINE e == Event(w)
             o == work[w].ordinal
  <1>1. pc[w] = "sending" /\ WorkerOK(w)
    BY DEF Send, At, Inv
  <1>2. e \in Events /\ RowOK(e) /\ Sending(w)
    BY <1>1 DEF WorkerOK, Calling, Inv
  <1>3. PICK m \in 0..turn[e] : accepted[e] = 0..(m - 1)
    BY <1>2 DEF RowOK
  <1>4. /\ turn[e] \in Nat /\ work[w].replies \in 0..turn[e] /\ o \in 0..work[w].replies
        /\ 0..(o - 1) \subseteq accepted[e]
    BY <1>1, <1>2 DEF WorkerOK, Calling, Speaking, Inv, TypeOK
  <1>5. o \in Nat /\ o < turn[e] /\ o <= m
    <2>1. o \in Nat /\ o < turn[e]
      BY <1>2, <1>4 DEF Sending
    <2>2. o > 0 => o - 1 \in 0..(m - 1)
      BY <1>3, <1>4, <2>1
    <2> QED
      BY <1>3, <2>1, <2>2
  <1>6. accepted' = [accepted EXCEPT ![e] = IF taken THEN accepted[e] \cup {o} ELSE accepted[e]]
    BY DEF Send
  <1>7. CASE taken /\ o = m
    <2>1. accepted[e] \cup {o} = 0..((m + 1) - 1)
      BY <1>3, <1>5, <1>7
    <2>2. m + 1 \in 0..turn[e] /\ m \in {m + 1, (m + 1) - 1}
      BY <1>3, <1>4, <1>5, <1>7
    <2>3. accepted' = [accepted EXCEPT ![e] = 0..((m + 1) - 1)]
      BY <1>6, <1>7, <2>1
    <2> QED
      BY <1>2, <1>3, <2>2, <2>3
  <1>8. CASE ~(taken /\ o = m)
    <2>1. taken => accepted[e] \cup {o} = accepted[e]
      BY <1>3, <1>5, <1>8
    <2>2. accepted' = [accepted EXCEPT ![e] = 0..(m - 1)]
      BY <1>3, <1>6, <2>1
    <2> QED
      BY <1>2, <1>3, <2>2
  <1> QED
    BY <1>7, <1>8

\* A dispatcher that ends its event as processed has said what the row then claims.
LEMMA ProcessedIsTrue ==
  ASSUME Inv, [Next]_vars, NEW w \in Workers,
         Finish(w) \/ Close(w) \/ \E committed \in BOOLEAN : FinishFails(w, committed)
  PROVE  LET e == Event(w) IN
         /\ e \in Events
         /\ type[e] = "completed" => link[e]
         /\ e \in ByLinq /\ type[e] # "reachout" /\ ~Close(w) /\ OutcomeNote(w) = "none"
              => turn[e] # 0 /\ 0..(turn[e] - 1) \subseteq accepted[e]
  <1> DEFINE e == Event(w)
  <1>1. pc[w] \in {"delivering", "closing"} /\ WorkerOK(w) /\ work[w] \in WorkType
    BY DEF Finish, Close, FinishFails, AtClose, At, Inv, TypeOK, WorkType
  <1>2. e \in Events /\ (type[e] = "completed" => link[e])
    BY <1>1 DEF WorkerOK, Speaking
  <1>3. ASSUME e \in ByLinq, type[e] # "reachout", ~Close(w), OutcomeNote(w) = "none"
        PROVE  turn[e] # 0 /\ 0..(turn[e] - 1) \subseteq accepted[e]
    <2>1. pc[w] = "delivering" /\ ~Sending(w) /\ ~work[w].last
      BY <1>3 DEF Finish, FinishFails, At
    <2>2. work[w].ready
      BY <1>1, <1>3, <2>1 DEF WorkerOK, OutcomeNote, Speaking
    <2>3. /\ work[w].replies = turn[e] /\ turn[e] # 0 /\ work[w].ordinal \in 0..work[w].replies
          /\ 0..(work[w].ordinal - 1) \subseteq accepted[e]
      BY <1>1, <1>3, <2>1 DEF WorkerOK, Speaking
    <2>4. work[w].ordinal \in Nat /\ turn[e] \in Nat
      BY <1>1, <1>2 DEF Inv, TypeOK, WorkType
    <2>5. work[w].ordinal = turn[e]
      BY <2>1, <2>2, <2>3, <2>4 DEF Sending
    <2> QED
      BY <2>3, <2>5
  <1> QED
    BY <1>2, <1>3

\* Every step keeps what the rows say of the turns and the deliveries.
LEMMA RowsOK ==
  ASSUME Inv, [Next]_vars, NEW e \in Events
  PROVE  RowOK(e)'
  <1>t. /\ status \in [Events -> {"absent", "pending", "processing", "processed", "failed", "skipped"}]
        /\ note \in [Events -> {"none", "error", "undelivered", "canonical"}]
        /\ turn[e] \in Nat /\ accepted \in [Events -> SUBSET Ordinals] /\ RowOK(e)
        /\ link[e] \in BOOLEAN /\ MaxBubbles \in Nat
    BY ConstantsAssumption DEF Inv, TypeOK
  <1>k. Kept(e)
    BY RowsAreKept
  <1>n. turn'[e] \in Nat /\ turn[e] <= turn'[e]
    BY <1>t, <1>k DEF Kept
  <1>1. status'[e] = "absent" => turn'[e] = 0
    BY <1>t, <1>k DEF Kept, RowOK
  <1>2. turn'[e] <= MaxBubbles
    BY <1>t, <1>k DEF Kept, RowOK
  <1>3. type'[e] = "completed" /\ turn'[e] # 0 => link'[e]
    BY <1>t, <1>k DEF Kept, RowOK
  <1>4. link'[e] => turn'[e] # 0
    BY <1>t, <1>k DEF Kept, RowOK
  <1>5. \E n \in 0..turn'[e] : accepted'[e] = 0..(n - 1)
    <2>1. PICK n \in 0..turn[e] : accepted[e] = 0..(n - 1)
      BY <1>t DEF RowOK
    <2>2. 0..turn[e] \subseteq 0..turn'[e]
      BY <1>t, <1>n
    <2>3. CASE accepted'[e] = accepted[e]
      BY <2>1, <2>2, <2>3
    <2>4. ASSUME NEW w \in Workers, NEW taken \in BOOLEAN, NEW answered \in BOOLEAN,
                 Send(w, taken, answered), Event(w) = e
          PROVE  \E m \in 0..turn[e] : accepted'[e] = 0..(m - 1)
      <3>1. PICK m \in 0..turn[e] : accepted' = [accepted EXCEPT ![e] = 0..(m - 1)]
        BY <2>4, PrefixGrows
      <3> QED
        BY <1>t, <3>1
    <2>5. ASSUME NEW w \in Workers, NEW taken \in BOOLEAN, NEW answered \in BOOLEAN,
                 Send(w, taken, answered), Event(w) # e
          PROVE  accepted'[e] = accepted[e]
      BY <1>t, <2>5 DEF Send
    <2> QED
      BY <2>2, <2>3, <2>4, <2>5, AcceptedSteps
  <1>6. \A o \in Ordinals : StatusRank(delivery'[e][o]) > 0 => o \in accepted'[e]
    BY <1>t, <1>k, DeliveryKept DEF Kept, RowOK
  <1>7. /\ type'[e] = "completed" /\ status'[e] = "processed" => link'[e]
        /\ e \in ByLinq /\ type'[e] # "reachout" /\ status'[e] = "processed" /\ note'[e] = "none"
             => turn'[e] # 0 /\ 0..(turn'[e] - 1) \subseteq accepted'[e]
    <2> DEFINE Goal ==
          /\ type'[e] = "completed" /\ status'[e] = "processed" => link'[e]
          /\ e \in ByLinq /\ type'[e] # "reachout" /\ status'[e] = "processed" /\ note'[e] = "none"
               => turn'[e] # 0 /\ 0..(turn'[e] - 1) \subseteq accepted'[e]
    <2>1. CASE status'[e] # "processed"
      BY <2>1
    <2>2. ASSUME status[e] # "absent",
                 type[e] = "completed" => link[e],
                 e \in ByLinq /\ type[e] # "reachout" /\ note'[e] = "none"
                   => turn[e] # 0 /\ 0..(turn[e] - 1) \subseteq accepted[e]
          PROVE  Goal
      BY <1>k, <2>2 DEF Kept
    <2>3. CASE UNCHANGED <<status, type, note>>
      BY <1>t, <2>1, <2>2, <2>3 DEF RowOK
    <2>4. ASSUME NEW f \in Events, NEW s \in {"pending", "processing", "skipped", "failed"},
                 status' = [status EXCEPT ![f] = s],
                 f # e => note'[e] = note[e]
          PROVE  Goal
      <3>1. CASE f = e
        BY <1>t, <2>1, <2>4, <3>1
      <3>2. CASE f # e
        BY <1>t, <2>1, <2>2, <2>4, <3>2 DEF RowOK
      <3> QED
        BY <3>1, <3>2
    <2>5. ASSUME NEW f \in Events, NEW t \in Types, Enqueue(f, t)
          PROVE  Goal
      BY <2>4, <2>5 DEF Enqueue
    <2>6. ASSUME NEW w \in Workers, NEW f \in Events, Claim(w, f)
          PROVE  Goal
      BY <1>t, <2>4, <2>6 DEF Claim
    <2>7. ASSUME NEW w \in Workers, Skip(w) \/ Retry(w)
          PROVE  Goal
      <3>1. pc[w] # "idle"
        BY <2>7 DEF Skip, Retry, At
      <3>2. Event(w) \in Events
        BY <3>1 DEF Inv, WorkerOK
      <3> QED
        BY <1>t, <2>4, <2>7, <3>2 DEF Skip, Retry, SetOutcome
    <2>8. ASSUME NEW w \in Workers,
                 Finish(w) \/ Close(w) \/ \E committed \in BOOLEAN : FinishFails(w, committed)
          PROVE  Goal
      <3> DEFINE f == Event(w)
      <3>1. f \in Events /\ status[f] # "absent"
        <4>1. pc[w] # "idle"
          BY <2>8 DEF Finish, Close, FinishFails, AtClose, At
        <4> QED
          BY <4>1 DEF Inv, WorkerOK
      <3>2. \/ UNCHANGED <<status, type, note>>
            \/ /\ status' = [status EXCEPT ![f] = "processed"]
               /\ note' = [note EXCEPT ![f] = IF Close(w) THEN "canonical" ELSE OutcomeNote(w)]
        <4>1. Finish(w) => ~Close(w)
          BY DEF Finish, Close, AtClose, At
        <4>2. ASSUME NEW committed \in BOOLEAN, FinishFails(w, committed)
              PROVE  ~Close(w)
          BY <4>2 DEF FinishFails, Close, AtClose, At
        <4> QED
          BY <2>8, <4>1, <4>2 DEF Finish, FinishFails, Close, SetOutcome, eventVars
      <3>3. CASE f # e
        BY <1>t, <2>1, <2>2, <2>3, <3>2, <3>3 DEF RowOK
      <3>4. CASE f = e
        <4>1. /\ type[e] = "completed" => link[e]
              /\ e \in ByLinq /\ type[e] # "reachout" /\ ~Close(w) /\ OutcomeNote(w) = "none"
                   => turn[e] # 0 /\ 0..(turn[e] - 1) \subseteq accepted[e]
          BY <2>8, <3>4, ProcessedIsTrue
        <4>2. CASE UNCHANGED <<status, type, note>>
          BY <2>3, <4>2
        <4>3. CASE note' = [note EXCEPT ![f] = IF Close(w) THEN "canonical" ELSE OutcomeNote(w)]
          <5>1. note'[e] = "none" => ~Close(w) /\ OutcomeNote(w) = "none"
            BY <1>t, <3>4, <4>3
          <5> QED
            BY <2>2, <3>1, <3>4, <4>1, <5>1
        <4> QED
          BY <3>2, <4>2, <4>3
      <3> QED
        BY <3>3, <3>4
    <2> QED
      BY RowSteps, <2>3, <2>5, <2>6, <2>7, <2>8
  <1> QED
    BY <1>1, <1>2, <1>3, <1>4, <1>5, <1>6, <1>7 DEF RowOK

-----------------------------------------------------------------------------
(***************************************************************************)
(* The conversation lock.                                                  *)
(***************************************************************************)

\* Who runs a wake has just taken the lock, or did not move.
LEMMA RunningSteps ==
  ASSUME Inv, [Next]_vars, NEW v \in Workers, pc'[v] = "running"
  PROVE  \/ pc[v] = "running" /\ UNCHANGED <<pc[v], work[v]>>
         \/ /\ TakeLock(v) /\ ~TurnExists(Event(v)) /\ UNCHANGED turn
            /\ work'[v].event = Event(v) /\ work'[v].seen = ToldIn(ConvOf[Event(v)])
            /\ \A w \in Workers \ {v} : UNCHANGED <<pc[w], work[w]>>
  <1>t. pc \in [Workers -> Labels] /\ work \in [Workers -> WorkType]
    BY DEF Inv, TypeOK, WorkType
  <1>1. CASE UNCHANGED <<pc[v], work[v]>>
    BY <1>1
  <1>2. ASSUME TakeLock(v)
        PROVE  /\ ~TurnExists(Event(v)) /\ UNCHANGED turn
               /\ work'[v].event = Event(v) /\ work'[v].seen = ToldIn(ConvOf[Event(v)])
               /\ \A w \in Workers \ {v} : UNCHANGED <<pc[w], work[w]>>
    <2>1. ~TurnExists(Event(v))
      BY <1>t, <1>2 DEF TakeLock, Goto
    <2>2. work' = [work EXCEPT ![v].seen = ToldIn(ConvOf[Event(v)])]
      BY <1>2, <2>1 DEF TakeLock
    <2>3. pc' = [pc EXCEPT ![v] = "running"] /\ UNCHANGED turn
      BY <1>2, <2>1 DEF TakeLock, Goto, turnVars
    <2>4. work'[v] = [work[v] EXCEPT !.seen = ToldIn(ConvOf[Event(v)])]
      BY <1>t, <2>2
    <2>5. work'[v].event = Event(v) /\ work'[v].seen = ToldIn(ConvOf[Event(v)])
      BY <1>t, <2>4 DEF WorkType, Event
    <2> QED
      BY <1>t, <2>1, <2>2, <2>3, <2>5
  <1>3. ASSUME Poll(v) \/ Crash(v)
        PROVE  FALSE
    BY <1>t, <1>3 DEF Poll, Claim, Crash, Return, Goto
  <1>4. ASSUME Advance(v)
        PROVE  TakeLock(v)
    <2> USE DEF Return, Goto, OnWakeError, NextBubble, Raise
    <2>1. ~ \/ Skip(v) \/ ResolveFails(v) \/ SaySilently(v) \/ WakeFails(v)
            \/ \E ready \in BOOLEAN : Resolve(v, ready)
      BY <1>t DEF Skip, Resolve, ResolveFails, SaySilently, WakeFails
    <2>2. ~ \/ Substitute(v) \/ SubstituteFails(v)
            \/ \E n \in 1..MaxBubbles, lost \in BOOLEAN : PersistTurn(v, n, lost)
      BY <1>t DEF PersistTurn, Substitute, SubstituteFails
    <2>3. ~ \/ OpenDelivery(v) \/ DeliveryRaises(v) \/ MarkSent(v) \/ MarkFailed(v)
            \/ \E taken, answered \in BOOLEAN : Send(v, taken, answered)
      BY <1>t DEF OpenDelivery, DeliveryRaises, Send, MarkSent, MarkFailed
    <2>4. ~ \/ Finish(v) \/ Retry(v) \/ CanonicalTurn(v) \/ Close(v) \/ CanonicalFails(v)
            \/ \E committed \in BOOLEAN : FinishFails(v, committed)
      BY <1>t DEF Finish, FinishFails, Retry, CanonicalTurn, Close, CanonicalFails
    <2> QED
      BY <1>4, <2>1, <2>2, <2>3, <2>4 DEF Advance
  <1> QED
    BY <1>1, <1>2, <1>3, <1>4, OwnSteps

\* While a wake runs on, no turn of its conversation is written.
LEMMA RunningAlone ==
  ASSUME Inv, [Next]_vars, NEW v \in Workers, pc[v] = "running", UNCHANGED <<pc[v], work[v]>>,
         NEW e \in Events, ConvOf[e] = ConvOf[Event(v)]
  PROVE  turn'[e] = turn[e]
  <1>t. pc \in [Workers -> Labels] /\ turn \in [Events -> 0..(MaxBubbles + 1)]
    BY DEF Inv, TypeOK
  <1>1. ASSUME NEW w \in Workers, NEW n \in 1..MaxBubbles, NEW lost \in BOOLEAN,
               PersistTurn(w, n, lost)
        PROVE  turn'[e] = turn[e]
    <2>1. pc[w] = "running" /\ pc'[w] # "running"
      BY <1>t, <1>1 DEF PersistTurn, At, Goto, OnWakeError
    <2>2. ConvOf[Event(w)] # ConvOf[Event(v)]
      BY <2>1 DEF Inv, LockInv, LocksHeld
    <2> QED
      BY <1>t, <1>1, <2>2 DEF PersistTurn
  <1>2. ASSUME NEW w \in Workers, Substitute(w) \/ CanonicalTurn(w)
        PROVE  turn'[e] = turn[e]
    <2>1. LockFree(w) /\ EnsureTurn(Event(w))
      BY <1>2 DEF Substitute, CanonicalTurn
    <2>2. Event(w) # e
      BY <2>1 DEF LockFree
    <2> QED
      BY <1>t, <2>1, <2>2 DEF EnsureTurn
  <1> QED
    BY <1>1, <1>2, TurnSteps DEF turnVars

\* Every step keeps the conversation lock.
LEMMA LockOK ==
  ASSUME Inv, [Next]_vars
  PROVE  LockInv'
  <1>1. ASSUME NEW v \in Workers, NEW w \in Workers, v # w,
               pc'[v] = "running", pc'[w] = "running", UNCHANGED <<pc[w], work[w]>>
        PROVE  ConvOf[work'[v].event] # ConvOf[work'[w].event]
    <2>1. CASE pc[v] = "running" /\ UNCHANGED <<pc[v], work[v]>>
      BY <1>1, <2>1 DEF Inv, LockInv, LocksHeld, Event
    <2>2. CASE TakeLock(v) /\ work'[v].event = Event(v)
      BY <1>1, <2>2 DEF TakeLock, LockFree, Event
    <2> QED
      BY <1>1, <2>1, <2>2, RunningSteps
  <1>2. LocksHeld'
    <2>1. ASSUME NEW v \in Workers, NEW w \in Workers, v # w, pc'[v] = "running", pc'[w] = "running"
          PROVE  UNCHANGED <<pc[v], work[v]>> \/ UNCHANGED <<pc[w], work[w]>>
      BY <2>1, RunningSteps
    <2> QED
      BY <1>1, <2>1 DEF LocksHeld, Event
  <1>3. ASSUME NEW v \in Workers, pc'[v] = "running"
        PROVE  /\ turn'[work'[v].event] = 0
               /\ work'[v].seen = {e \in Events : ConvOf[e] = ConvOf[work'[v].event] /\ turn'[e] # 0}
    <2>1. CASE pc[v] = "running" /\ UNCHANGED <<pc[v], work[v]>>
      <3>1. Event(v) \in Events
        BY <2>1 DEF Inv, WorkerOK
      <3>2. turn[Event(v)] = 0 /\ work[v].seen = ToldIn(ConvOf[Event(v)])
        BY <2>1 DEF Inv, LockInv, ToldOnce, WakesSeeTheConversation
      <3>3. \A e \in Events : ConvOf[e] = ConvOf[Event(v)] => turn'[e] = turn[e]
        BY <2>1, RunningAlone
      <3>4. work'[v].event = Event(v) /\ work'[v].seen = work[v].seen
        BY <2>1 DEF Event
      <3>5. {e \in Events : ConvOf[e] = ConvOf[Event(v)] /\ turn'[e] # 0}
              = {e \in Events : ConvOf[e] = ConvOf[Event(v)] /\ turn[e] # 0}
        <4> DEFINE c == ConvOf[Event(v)]
        <4>1. \A e \in Events : ConvOf[e] = c => turn'[e] = turn[e]
          BY <3>3
        <4> HIDE DEF c
        <4>2. {e \in Events : ConvOf[e] = c /\ turn'[e] # 0} = {e \in Events : ConvOf[e] = c /\ turn[e] # 0}
          BY <4>1
        <4> QED
          BY <4>2 DEF c
      <3> QED
        BY <3>1, <3>2, <3>3, <3>4, <3>5 DEF ToldIn
    <2>2. CASE /\ TakeLock(v) /\ ~TurnExists(Event(v)) /\ UNCHANGED turn
               /\ work'[v].event = Event(v) /\ work'[v].seen = ToldIn(ConvOf[Event(v)])
      BY <2>2 DEF TurnExists, ToldIn
    <2> QED
      BY <1>3, <2>1, <2>2, RunningSteps
  <1>4. ToldOnce'
    BY <1>3 DEF ToldOnce, Event
  <1>5. WakesSeeTheConversation'
    BY <1>3 DEF WakesSeeTheConversation, Event, ToldIn
  <1> QED
    BY <1>2, <1>4, <1>5 DEF LockInv

-----------------------------------------------------------------------------
(***************************************************************************)
(* The theorems.                                                           *)
(***************************************************************************)
\* The invariant holds at first.
LEMMA InitInv ==
  ASSUME Init
  PROVE  Inv
  <1>1. TypeOK
    BY ConstantsAssumption DEF Init, TypeOK, Labels, NoWork, NoTurn, Ordinals
  <1>2. \A w \in Workers : WorkerOK(w)
    BY DEF Init, WorkerOK, Preparing, Speaking, Calling
  <1>3. \A e \in Events : RowOK(e)
    <2>1. 0..(0 - 1) = {}
      OBVIOUS
    <2>2. MaxBubbles \in Nat
      BY ConstantsAssumption
    <2> QED
      BY <2>1, <2>2 DEF Init, RowOK, StatusRank
  <1>4. LockInv
    BY DEF Init, LockInv, LocksHeld, ToldOnce, WakesSeeTheConversation
  <1> QED
    BY <1>1, <1>2, <1>3, <1>4 DEF Inv

\* Every step keeps the invariant.
LEMMA NextInv ==
  ASSUME Inv, [Next]_vars
  PROVE  Inv'
  BY NextType, WorkersOK, RowsOK, LockOK DEF Inv

\* The inductive invariant: what each dispatcher knows of its event, what each
\* row says of its turn, and the conversation lock.
THEOREM Invariant == Spec => []Inv
  BY InitInv, NextInv, PTL DEF Spec

\* The rows and the dispatchers keep their shape; no event is claimed more
\* often than user_event_max_attempts.
THEOREM TypeCorrect == Spec => []TypeOK
  <1>1. Inv => TypeOK
    BY DEF Inv
  <1> QED
    BY Invariant, <1>1, PTL

\* Every wake of run_agent_event sees all the turns of its conversation.
THEOREM Serialised == Spec => []WakesSeeTheConversation
  <1>1. Inv => WakesSeeTheConversation
    BY DEF Inv, LockInv
  <1> QED
    BY Invariant, <1>1, PTL

\* However many stale dispatches, retries and lost answers, an event is worded
\* once, and a row that _finish_event ended without a note was told in full.
THEOREM DeliveredOnce == Spec => []DeliveredOnceInFull
  <1>1. ASSUME Inv
        PROVE  ProcessedMeansDelivered
    <2>1. \A e \in Events : RowOK(e)
      BY <1>1 DEF Inv
    <2>2. ByLinq \subseteq Events
      BY ConstantsAssumption
    <2> QED
      BY <2>1, <2>2 DEF RowOK, ProcessedMeansDelivered
  <1>2. Inv => DeliveredOnceInFull
    BY <1>1 DEF Inv, LockInv, DeliveredOnceInFull
  <1> QED
    BY Invariant, <1>2, PTL

\* A processed completion left the app's link in its conversation, by the wake
\* or by one of the canonical turns.
THEOREM LinkCarried == Spec => []CompletionsCarryTheLink
  <1>1. Inv => CompletionsCarryTheLink
    BY DEF Inv, RowOK, CompletionsCarryTheLink
  <1> QED
    BY Invariant, <1>1, PTL

\* No send error, answer or lifecycle webhook takes back a receipt.
THEOREM ReceiptsKept == Spec => ReceiptsNeverRegress
  <1> DEFINE A == \A e \in Events, o \in Ordinals :
                    delivery[e][o] \in {"delivered", "read"}
                      => StatusRank(delivery'[e][o]) >= StatusRank(delivery[e][o])
  <1>1. Inv /\ [Next]_vars => [A]_vars
    BY DeliveryKept
  <1>2. Spec => [][A]_vars
    BY Invariant, <1>1, PTL DEF Spec
  <1> QED
    BY <1>2 DEF ReceiptsNeverRegress

-----------------------------------------------------------------------------
(***************************************************************************)
(* The outbox implements Telling.                                          *)
(***************************************************************************)
Raised == {e \in Events : status[e] # "absent"}

\* Only enqueue_user_event raises an event.
LEMMA RaisedSteps ==
  ASSUME Inv, [Next]_vars
  PROVE  \/ Raised' = Raised
         \/ \E e \in Events : Raised' = Raised \cup {e} /\ UNCHANGED <<turn, accepted>>
  <1>t. status \in [Events -> {"absent", "pending", "processing", "processed", "failed", "skipped"}]
    BY DEF Inv, TypeOK
  <1>1. ASSUME NEW e \in Events, NEW t \in Types, Enqueue(e, t)
        PROVE  Raised' = Raised \cup {e} /\ UNCHANGED <<turn, accepted>>
    <2>1. status' = [status EXCEPT ![e] = "pending"] /\ UNCHANGED <<turn, accepted>>
      BY <1>1 DEF Enqueue, turnVars, chatVars
    <2> QED
      BY <1>t, <2>1 DEF Raised
  <1>2. ASSUME NEW f \in Events, NEW s \in {"processing", "processed", "failed", "skipped"},
               status[f] # "absent", status' = [status EXCEPT ![f] = s]
        PROVE  Raised' = Raised
    BY <1>t, <1>2 DEF Raised
  <1>3. ASSUME NEW w \in Workers, NEW e \in Events, Claim(w, e)
        PROVE  Raised' = Raised
    <2>1. status[e] # "absent" /\ status' = [status EXCEPT ![e] = "processing"]
      BY <1>3 DEF Claim, Eligible
    <2> QED
      BY <1>2, <2>1
  <1>4. ASSUME NEW w \in Workers, Skip(w) \/ Finish(w) \/ Retry(w) \/ Close(w)
                 \/ \E committed \in BOOLEAN : FinishFails(w, committed)
        PROVE  Raised' = Raised
    <2>1. pc[w] # "idle"
      BY <1>4 DEF Skip, Finish, Retry, Close, FinishFails, AtClose, At
    <2>2. Event(w) \in Events /\ status[Event(w)] # "absent"
      BY <2>1 DEF Inv, WorkerOK
    <2>3. \/ UNCHANGED status
          \/ \E s \in {"processed", "failed", "skipped"} : status' = [status EXCEPT ![Event(w)] = s]
      BY <1>4 DEF Skip, Finish, Retry, Close, FinishFails, SetOutcome, eventVars
    <2> QED
      BY <1>2, <2>2, <2>3 DEF Raised
  <1> QED
    BY RowSteps, <1>1, <1>3, <1>4 DEF Raised

\* A step that writes a turn tells an event that had none, and does nothing else
\* that a conversation can see.
LEMMA TellingSteps ==
  ASSUME Inv, [Next]_vars, ~UNCHANGED turn
  PROVE  \E e \in Events, n \in 1..MaxBubbles : Telling!Tell(e, n)
  <1>t. turn \in [Events -> 0..(MaxBubbles + 1)]
    BY DEF Inv, TypeOK
  <1>1. UNCHANGED <<status, accepted>>
    BY TurnSteps DEF turnVars, PersistTurn, Substitute, CanonicalTurn, eventVars, chatVars
  <1>2. PICK e \in Events, n \in 1..MaxBubbles : Written(e, n)
    BY TurnsAreWritten DEF turnVars
  <1>3. status[e] # "absent" /\ turn' = [turn EXCEPT ![e] = IF turn[e] = 0 THEN n ELSE turn[e]]
    BY <1>2 DEF Written
  <1>4. turn[e] = 0
    BY <1>t, <1>3
  <1> QED
    BY <1>1, <1>3, <1>4 DEF Telling!Tell

\* A bubble Linq takes is the next of its turn, or one it has already.
LEMMA HearingSteps ==
  ASSUME Inv, [Next]_vars, ~UNCHANGED accepted
  PROVE  \E e \in Events, o \in 0..(MaxBubbles - 1) : Telling!Hear(e, o)
  <1>t. accepted \in [Events -> SUBSET Ordinals]
    BY DEF Inv, TypeOK
  <1>1. PICK w \in Workers, taken \in BOOLEAN, answered \in BOOLEAN : Send(w, taken, answered)
    BY AcceptedSteps
  <1> DEFINE e == Event(w)
  <1>2. e \in Events
    BY <1>1, PrefixGrows
  <1>3. PICK m \in 0..turn[e], n \in 0..turn[e] :
          /\ accepted[e] = 0..(m - 1) /\ m \in {n, n - 1}
          /\ accepted' = [accepted EXCEPT ![e] = 0..(n - 1)]
    BY <1>1, PrefixGrows
  <1>4. m = n - 1
    BY <1>t, <1>3
  <1>5. turn[e] \in Nat /\ turn[e] <= MaxBubbles /\ MaxBubbles \in Nat
    BY <1>2, ConstantsAssumption DEF Inv, RowOK, TypeOK
  <1>6. m \in 0..(MaxBubbles - 1) /\ m < turn[e]
    BY <1>3, <1>4, <1>5
  <1>7. accepted' = [accepted EXCEPT ![e] = 0..m]
    BY <1>3, <1>4
  <1>8. UNCHANGED <<status, turn>>
    BY <1>1 DEF Send, eventVars, turnVars
  <1>9. Telling!Hear(e, m)
    BY <1>3, <1>6, <1>7, <1>8 DEF Telling!Hear
  <1> QED
    BY <1>2, <1>6, <1>9

\* An event is told at most once and its bubbles arrive in order: every step of
\* the outbox is one of Telling's, or does not show.
THEOREM Implements == Spec => TellingSpec
  <1>1. Init => Telling!Init
    BY DEF Init, Telling!Init
  <1>2. ASSUME Inv, [Next]_vars
        PROVE  [Telling!Next]_(Telling!vars)
    <2>1. CASE ~UNCHANGED turn
      BY <1>2, <2>1, TellingSteps DEF Telling!Next
    <2>2. CASE ~UNCHANGED accepted
      BY <1>2, <2>2, HearingSteps DEF Telling!Next
    <2>3. CASE UNCHANGED <<turn, accepted>>
      <3>1. ASSUME NEW e \in Events, Raised' = Raised \cup {e}
            PROVE  Telling!Next
        BY <2>3, <3>1 DEF Telling!Next, Telling!Raise, Raised
      <3>2. CASE Raised' = Raised
        BY <2>3, <3>2 DEF Telling!vars, Raised
      <3> QED
        BY <1>2, <3>1, <3>2, RaisedSteps
    <2> QED
      BY <2>1, <2>2, <2>3
  <1>3. Spec => Telling!Init /\ [][Telling!Next]_(Telling!vars)
    BY <1>1, <1>2, Invariant, PTL DEF Spec
  <1> QED
    BY <1>3 DEF TellingSpec, Telling!Spec
==============================================================================
