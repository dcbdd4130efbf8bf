---------------------------- MODULE People_proofs ----------------------------
(***************************************************************************)
(* What holds of AccountDeletion, Accounts, GoogleAccounts and Waitlist    *)
(* for every set of users, addresses, rows, credentials, groups and        *)
(* requests, and of PeopleMC, which joins them with BankSync.  The modules *)
(* share no state; each part is about the behaviours of one.               *)
(***************************************************************************)
EXTENDS PeopleMC, BankSync_proofs

(***************************************************************************)
(* The end of an account.                                                  *)
(***************************************************************************)
AccountDeletionSpec == AccountDeletionInit /\ [][AccountDeletionNext]_deletionVars

\* While the account lives, the worker has an attempt that was agreed to, and what it has
\* not listed came late.
AttemptOK ==
  /\ Working => agreed
  /\ withdrawn => deletion.status = "cancelled"
  /\ valid \subseteq stored \cup spared
  /\ worker.at = "revoking" => valid \subseteq worker.revoke \cup spared \cup late
  /\ Planned => /\ valid \subseteq spared \cup late
                /\ rows \subseteq worker.plan \cup late
                /\ \A g \in worker.rooms : company[g] = "others" => g \in late
  /\ \A g \in Rooms : company[g] \in {"alone", "others"}

WorkerRows == [at : {"idle", "revoking", "planned"}, own : BOOLEAN, revoke : SUBSET Credentials,
               plan : SUBSET (Owned \cup Traces), rooms : SUBSET Rooms]
TaskRows   == [status : {"none", "active", "processing", "failed", "cancelled"},
               tries : 0..DeletionAttempts, due : BOOLEAN]

DeletionType ==
  /\ alive \in BOOLEAN /\ phrase \in BOOLEAN /\ cancel \in BOOLEAN
  /\ withdrawn \in BOOLEAN /\ agreed \in BOOLEAN
  /\ deletion \in TaskRows /\ worker \in WorkerRows
  /\ rows \subseteq Owned \cup Traces
  /\ stored \subseteq Credentials /\ valid \subseteq Credentials /\ spared \subseteq Credentials
  /\ company \in [Rooms -> {"alone", "others", "handed over", "torn", "gone"}]
  /\ late \subseteq Owned \cup Traces \cup Credentials \cup Rooms

DeletionInv ==
  /\ DeletionType
  /\ alive => AttemptOK
  /\ ~alive => worker.at = "idle" /\ deletion.status = "none" /\ agreed /\ LeavesNothingBehind

\* A worker that rests has nothing in hand.
LEMMA RestingOK == Resting \in WorkerRows /\ Resting.at = "idle"
  BY DEF Resting, WorkerRows

\* The account begins with nothing and nobody to delete it.
LEMMA DeletionInitially ==
  ASSUME AccountDeletionInit
  PROVE  DeletionInv
  <1>1. DeletionType
    <2>1. [status |-> "none", tries |-> 0, due |-> FALSE] \in TaskRows
      BY AccountDeletionAssumption DEF TaskRows
    <2> QED
      BY <2>1, RestingOK DEF AccountDeletionInit, DeletionType
  <1>2. AttemptOK
    BY RestingOK DEF AccountDeletionInit, AttemptOK, Working, Planned
  <1> QED
    BY <1>1, <1>2 DEF DeletionInv, AccountDeletionInit

\* What the user does to the task, and what becomes of an attempt that ends, changes
\* nothing of what the account owns.
LEMMA TaskOnlyOK ==
  ASSUME DeletionInv, alive, UNCHANGED <<accountRows, agreed, stored, valid, spared>>,
         phrase' \in BOOLEAN, cancel' \in BOOLEAN, withdrawn' \in BOOLEAN,
         deletion' \in TaskRows, withdrawn' => deletion'.status = "cancelled",
         \/ UNCHANGED late /\ worker' \in WorkerRows /\ worker'.at = worker.at
               /\ worker'.revoke = worker.revoke /\ worker'.plan = worker.plan
               /\ worker'.rooms = worker.rooms
         \/ worker' = Resting /\ late' = {}
  PROVE  DeletionInv'
  <1>1. worker' \in WorkerRows /\ late' \subseteq Owned \cup Traces \cup Credentials \cup Rooms
    BY RestingOK DEF DeletionInv, DeletionType
  <1>2. DeletionType'
    BY <1>1 DEF accountRows, DeletionInv, DeletionType
  <1>3. AttemptOK'
    <2>1. CASE worker' = Resting
      BY <2>1, RestingOK DEF accountRows, DeletionInv, AttemptOK, Working, Planned
    <2>2. CASE worker' # Resting
      BY <2>2 DEF accountRows, DeletionInv, AttemptOK, Working, Planned
    <2> QED
      BY <2>1, <2>2
  <1> QED
    BY <1>2, <1>3 DEF DeletionInv, accountRows

\* What the user does to the account is late when the worker has listed it already.
LEMMA AccountOnlyOK ==
  ASSUME DeletionInv, alive,
         UNCHANGED <<alive, phrase, deletion, cancel, withdrawn, agreed, worker, spared>>,
         \/ \E r \in Owned \cup Traces : Write(r)
         \/ \E c \in Credentials : Connect(c)
         \/ \E g \in Rooms : ChangeRoom(g)
  PROVE  DeletionInv'
  <1>1. ASSUME NEW r \in Owned \cup Traces, Write(r)
        PROVE  DeletionType' /\ AttemptOK'
    <2>1. /\ rows' = rows \cup {r} /\ UNCHANGED <<stored, valid, company>>
          /\ late' \in {late, late \cup {r}} /\ (Planned => r \in late')
      BY <1>1 DEF Write
    <2>2. DeletionType'
      BY <2>1 DEF DeletionInv, DeletionType
    <2>3. AttemptOK'
      BY <2>1 DEF DeletionInv, AttemptOK, Working, Planned
    <2> QED
      BY <2>2, <2>3
  <1>2. ASSUME NEW c \in Credentials, Connect(c)
        PROVE  DeletionType' /\ AttemptOK'
    <2>1. /\ stored' = stored \cup {c} /\ valid' = valid \cup {c} /\ UNCHANGED <<rows, company>>
          /\ late' \in {late, late \cup {c}} /\ (Working => c \in late')
      BY <1>2 DEF Connect
    <2>2. DeletionType'
      BY <2>1 DEF DeletionInv, DeletionType
    <2>3. AttemptOK'
      BY <2>1 DEF DeletionInv, AttemptOK, Working, Planned
    <2> QED
      BY <2>2, <2>3
  <1>3. ASSUME NEW g \in Rooms, ChangeRoom(g)
        PROVE  DeletionType' /\ AttemptOK'
    <2>1. /\ late' \in {late, late \cup {g}} /\ (Planned => g \in late')
          /\ UNCHANGED <<rows, stored, valid>>
      BY <1>3 DEF ChangeRoom
    <2>2. PICK x \in {"alone", "others"} : company' = [company EXCEPT ![g] = x]
      BY <1>3 DEF ChangeRoom
    <2>3. /\ company' \in [Rooms -> {"alone", "others", "handed over", "torn", "gone"}]
          /\ \A h \in Rooms : company'[h] = company[h] \/ (h = g /\ company'[h] = x)
      BY <2>2 DEF DeletionInv, DeletionType
    <2>4. DeletionType'
      BY <2>1, <2>3 DEF DeletionInv, DeletionType
    <2>5. worker.rooms \subseteq Rooms
      BY DEF DeletionInv, DeletionType, WorkerRows
    <2>6. AttemptOK'
      BY <2>1, <2>3, <2>5 DEF DeletionInv, AttemptOK, Working, Planned
    <2> QED
      BY <2>4, <2>6
  <1> QED
    BY <1>1, <1>2, <1>3 DEF DeletionInv

\* The worker's own steps up to its last transaction.
LEMMA AttemptStep ==
  ASSUME DeletionInv, Claim \/ Plan \/ \E c \in Credentials : Revoke(c)
  PROVE  DeletionInv'
  <1>0. alive /\ UNCHANGED accountRows /\ worker \in WorkerRows
    BY DEF DeletionInv, DeletionType, Claim, Plan, Revoke
  <1>1. ASSUME Claim
        PROVE  DeletionType' /\ AttemptOK'
    <2> DEFINE r == [Resting EXCEPT !.at = "revoking", !.revoke = stored]
    <2>1. r \in WorkerRows /\ r.at = "revoking" /\ r.revoke = stored /\ worker' = r
      BY <1>1 DEF Claim, Resting, WorkerRows, DeletionInv, DeletionType
    <2> HIDE DEF r
    <2>2. ~withdrawn
      BY <1>0, <1>1 DEF Claim, Claimable, DeletionInv, AttemptOK
    <2>3. deletion' \in TaskRows
      <3>1. deletion.tries + 1 \in 0..DeletionAttempts
        <4>1. deletion.tries \in 0..DeletionAttempts
          BY DEF DeletionInv, DeletionType, TaskRows
        <4>2. deletion.tries < DeletionAttempts
          BY <1>1 DEF Claim, Claimable
        <4> QED
          BY <4>1, <4>2, AccountDeletionAssumption
      <3> QED
        BY <1>1, <3>1 DEF Claim, TaskRows
    <2>4. agreed' = TRUE /\ UNCHANGED <<phrase, cancel, withdrawn, stored, valid, spared, late>>
      BY <1>1, <2>2 DEF Claim
    <2>5. DeletionType'
      BY <1>0, <2>1, <2>3, <2>4
         DEF accountRows, DeletionInv, DeletionType
    <2>6. AttemptOK'
      BY <1>0, <2>1, <2>2, <2>4 DEF accountRows, DeletionInv, AttemptOK, Working, Planned
    <2> QED
      BY <2>5, <2>6
  <1>2. ASSUME Plan
        PROVE  DeletionType' /\ AttemptOK'
    <2> DEFINE r == [worker EXCEPT !.at = "planned", !.plan = OwnRows \cup Mentions,
                                   !.rooms = DoomedRooms]
    <2>1. OwnRows \cup Mentions = rows /\ DoomedRooms \subseteq Rooms
      BY DEF OwnRows, Mentions, DoomedRooms, DeletionInv, DeletionType
    <2>2. /\ worker' = r /\ r \in WorkerRows /\ r.at = "planned" /\ r.plan = rows
          /\ r.rooms = DoomedRooms
      BY <1>0, <1>2, <2>1 DEF Plan, WorkerRows, DeletionInv, DeletionType
    <2> HIDE DEF r
    <2>3. /\ worker.at = "revoking" /\ worker.revoke = {}
          /\ UNCHANGED <<phrase, deletion, cancel, withdrawn, agreed, stored, valid, spared, late>>
      BY <1>2 DEF Plan
    <2>4. DeletionType'
      BY <1>0, <2>2, <2>3 DEF accountRows, DeletionInv, DeletionType
    <2>5. AttemptOK'
      BY <1>0, <2>2, <2>3
         DEF accountRows, DeletionInv, AttemptOK, Working, Planned, DoomedRooms
    <2> QED
      BY <2>4, <2>5
  <1>3. ASSUME NEW c \in Credentials, Revoke(c)
        PROVE  DeletionType' /\ AttemptOK'
    <2> DEFINE r == [worker EXCEPT !.revoke = worker.revoke \ {c}]
    <2>1. worker' = r /\ r \in WorkerRows /\ r.at = "revoking" /\ r.revoke = worker.revoke \ {c}
      BY <1>0, <1>3 DEF Revoke, WorkerRows
    <2> HIDE DEF r
    <2>2. /\ worker.at = "revoking" /\ UNCHANGED <<phrase, deletion, cancel, withdrawn, agreed, late>>
          /\ \/ stored' = stored \ {c} /\ valid' = valid \ {c} /\ UNCHANGED spared
             \/ spared' = spared \cup {c} /\ valid' \subseteq valid /\ UNCHANGED stored
      BY <1>3 DEF Revoke
    <2>3. DeletionType'
      BY <1>0, <2>1, <2>2 DEF accountRows, DeletionInv, DeletionType
    <2>4. AttemptOK'
      BY <1>0, <2>1, <2>2 DEF accountRows, DeletionInv, AttemptOK, Working, Planned
    <2> QED
      BY <2>3, <2>4
  <1> QED
    BY <1>0, <1>1, <1>2, <1>3 DEF DeletionInv, accountRows

\* The last transaction leaves only what came late or was refused.
LEMMA PurgeOK ==
  ASSUME DeletionInv, Purge
  PROVE  DeletionInv'
  <1>0. alive /\ AttemptOK /\ Planned
    BY DEF Purge, DeletionInv, Planned
  <1>1. /\ alive' = FALSE /\ rows' = (rows \ worker.plan) \ Owned /\ stored' = {}
        /\ deletion' = [status |-> "none", tries |-> 0, due |-> FALSE]
        /\ cancel' = FALSE /\ worker' = Resting
        /\ UNCHANGED <<phrase, withdrawn, agreed, valid, spared, late>>
    BY DEF Purge, Remaining
  <1>2. /\ company' \in [Rooms -> {"alone", "others", "handed over", "torn", "gone"}]
        /\ \A g \in Rooms : company'[g] = "torn" => g \in worker.rooms /\ company[g] = "others"
    BY DEF Purge
  <1>3. deletion' \in TaskRows /\ deletion'.status = "none"
    BY <1>1, AccountDeletionAssumption DEF TaskRows
  <1>4. DeletionType'
    BY <1>1, <1>2, <1>3, RestingOK DEF DeletionInv, DeletionType
  <1>5. LeavesNothingBehind'
    <2>1. rows' \subseteq Traces \cap late
      BY <1>0, <1>1 DEF AttemptOK, DeletionInv, DeletionType
    <2> QED
      BY <1>0, <1>1, <1>2, <2>1 DEF AttemptOK, LeavesNothingBehind
  <1> QED
    BY <1>0, <1>1, <1>3, <1>4, <1>5, RestingOK DEF DeletionInv, AttemptOK, Working, Planned

\* Every step of the user and of the worker keeps the invariant.
LEMMA DeletionStep ==
  ASSUME DeletionInv, [AccountDeletionNext]_deletionVars
  PROVE  DeletionInv'
  <1>t. /\ phrase \in BOOLEAN /\ cancel \in BOOLEAN /\ withdrawn \in BOOLEAN
        /\ deletion \in TaskRows /\ worker \in WorkerRows
    BY DEF DeletionInv, DeletionType
  <1>w. alive /\ withdrawn => deletion.status = "cancelled"
    BY DEF DeletionInv, AttemptOK
  <1>1. ASSUME \/ \E r \in Owned \cup Traces : Write(r)
               \/ \E c \in Credentials : Connect(c)
               \/ \E g \in Rooms : ChangeRoom(g)
        PROVE  DeletionInv'
    BY <1>1, AccountOnlyOK DEF Write, Connect, ChangeRoom
  <1>2. ASSUME \E text \in BOOLEAN : Say(text)
        PROVE  DeletionInv'
    BY <1>2, <1>t, <1>w, TaskOnlyOK DEF Say
  <1>3. ASSUME Schedule
        PROVE  DeletionInv'
    <2>1. PICK own \in BOOLEAN : worker' = [worker EXCEPT !.own = own]
      BY <1>3 DEF Schedule
    <2>2. /\ worker' \in WorkerRows /\ worker'.at = worker.at /\ worker'.revoke = worker.revoke
          /\ worker'.plan = worker.plan /\ worker'.rooms = worker.rooms
      BY <1>t, <2>1 DEF WorkerRows
    <2>3. deletion' \in TaskRows
      BY <1>3, AccountDeletionAssumption DEF Schedule, TaskRows
    <2> QED
      BY <1>3, <1>t, <2>2, <2>3, TaskOnlyOK DEF Schedule
  <1>4. ASSUME FallDue
        PROVE  DeletionInv'
    <2>1. deletion' \in TaskRows /\ deletion'.status = deletion.status
      BY <1>4, <1>t DEF FallDue, TaskRows
    <2>2. alive
      BY <1>4 DEF FallDue, DeletionInv
    <2> QED
      BY <1>4, <1>t, <1>w, <2>1, <2>2, TaskOnlyOK DEF FallDue, accountRows
  <1>5. ASSUME BeginCancel \/ CommitCancel
        PROVE  DeletionInv'
    <2>1. CASE BeginCancel
      BY <2>1, <1>t, <1>w, TaskOnlyOK DEF BeginCancel
    <2>2. CASE CommitCancel
      <3>1. deletion' \in TaskRows /\ deletion'.status = "cancelled"
        BY <2>2, <1>t DEF CommitCancel, TaskRows
      <3> QED
        BY <2>2, <3>1, <1>t, TaskOnlyOK DEF CommitCancel
    <2> QED
      BY <1>5, <2>1, <2>2
  <1>6. ASSUME Fail \/ Die
        PROVE  DeletionInv'
    <2>1. alive /\ worker' = Resting /\ late' = {}
          /\ UNCHANGED <<accountRows, phrase, cancel, withdrawn, agreed, stored, valid, spared>>
      BY <1>6 DEF Fail, Die, Working, DeletionInv
    <2>2. /\ deletion' \in TaskRows
          /\ deletion.status = "cancelled" => deletion' = deletion
      <3>1. deletion' \in {deletion, [deletion EXCEPT !.status = "failed", !.due = FALSE]}
        BY <1>6 DEF Fail, Die
      <3>2. [deletion EXCEPT !.status = "failed", !.due = FALSE] \in TaskRows
        BY <1>t DEF TaskRows
      <3> QED
        BY <1>6, <1>t, <3>1, <3>2 DEF Fail, Die, StillWanted
    <2> QED
      BY <1>t, <1>w, <2>1, <2>2, TaskOnlyOK DEF accountRows
  <1>7. CASE UNCHANGED deletionVars
    BY <1>7 DEF deletionVars, DeletionInv, DeletionType, AttemptOK, Working, Planned,
         LeavesNothingBehind
  <1> QED
    BY <1>1, <1>2, <1>3, <1>4, <1>5, <1>6, <1>7, AttemptStep, PurgeOK DEF AccountDeletionNext

\* execute_account_deletion removes all that is the user's but what came after its plan and
\* what a provider refused, and only when the user has not taken the deletion back.
THEOREM DeletionComplete == AccountDeletionSpec => []DeletionIsComplete
  <1>1. DeletionInv => DeletionIsComplete
    BY DEF DeletionInv, DeletionIsComplete, DeletedAsAgreed, AttemptOK, LeavesNothingBehind, Working
  <1> QED
    BY <1>1, DeletionInitially, DeletionStep, PTL DEF AccountDeletionSpec

\* The task's attempts stay within scheduled_task_max_attempts, and its rows in shape.
THEOREM DeletionTypes == AccountDeletionSpec => []AccountDeletionTypeOK
  <1>1. DeletionInv => AccountDeletionTypeOK
    BY DEF DeletionInv, DeletionType, AccountDeletionTypeOK, TaskRows, WorkerRows
  <1> QED
    BY <1>1, DeletionInitially, DeletionStep, PTL DEF AccountDeletionSpec

-----------------------------------------------------------------------------
(***************************************************************************)
(* Users and their addresses.                                              *)
(***************************************************************************)
AccountsSpec == AccountsInit /\ [][AccountsNext]_accountVars

VisitRows == [does : {"nothing", "create", "recognise", "adopt", "link"},
             key : Addresses \cup Subjects \cup {NoUser}, found : Users \cup {NoUser}]

AccountRows ==
  /\ users \subseteq Users /\ gone \subseteq Users /\ users \cap gone = {}
  /\ phoneOf \in [Users -> Phones \cup {NoPhone}]
  /\ holder \in [Addresses -> users \cup {NoUser}]
  /\ identity \in [Subjects -> users \cup {NoUser}]
  /\ visit \in [Visits -> VisitRows]
  /\ heard \subseteq Addresses \X (users \cup gone)
  /\ opened \subseteq Subjects \X (users \cup gone)

\* A phone is of one user at most, and of none that is not there.
PhonesApart ==
  /\ \A u \in Users \ users : phoneOf[u] = NoPhone
  /\ \A u, w \in users : phoneOf[u] = phoneOf[w] /\ phoneOf[u] # NoPhone => u = w

\* All the addresses of a subject that has signed in are its user's.
Identified ==
  \A s \in Subjects : identity[s] # NoUser => \A a \in Vouched[s] : holder[a] = identity[s]

\* What a request has found may have gone meanwhile; if not, it still leads there.
RequestOK(r) ==
  /\ r.does = "create" => r.key \in Addresses
  /\ r.does = "create" /\ holder[r.key] = NoUser => \A u \in users : phoneOf[u] # r.key
  /\ r.does \in {"recognise", "adopt", "link"} => r.found \in users \cup gone
  /\ r.does = "recognise" => r.key \in Addresses /\ (r.found \in users => holder[r.key] = r.found)
  /\ r.does = "adopt" => r.key \in Addresses /\ (r.found \in users => phoneOf[r.found] = r.key)
  /\ r.does = "link" =>
       /\ r.key \in Subjects
       /\ \A a \in Vouched[r.key], w \in users :
            holder[a] = NoUser /\ phoneOf[w] = a => w = r.found

AccountsInv ==
  /\ AccountRows /\ PhonesApart /\ Identified
  /\ AccountsAreSeparate
  /\ \A v \in Visits : RequestOK(visit[v])

\* The users there are lose nothing, and no phone is left without its identifier.
Grows ==
  /\ users \cup gone \subseteq users' \cup gone'
  /\ \A u \in users \cup gone : u \in users' => u \in users
  /\ \A a \in Addresses : holder[a] \in users' => holder'[a] = holder[a]
  /\ \A s \in Subjects : identity[s] \in users' => identity'[s] = identity[s]
  /\ \A u \in users : u \in users' /\ phoneOf[u] # NoPhone => phoneOf'[u] = phoneOf[u]
  /\ \A a \in Addresses, w \in users' : holder'[a] = NoUser /\ phoneOf'[w] = a =>
       w \in users /\ holder[a] = NoUser /\ phoneOf[w] = a

\* A request that is forgotten is nobody's.
LEMMA AbsentOK == Absent \in VisitRows /\ Absent.does = "nothing"
  BY DEF Absent, VisitRows

\* Nobody has been heard yet; phones from before are apart.
LEMMA AccountsInitially ==
  ASSUME AccountsInit
  PROVE  AccountsInv
  <1>1. PICK legacy \in [Users -> Phones \cup {NoPhone}] :
          /\ \A u, v \in Users : u # v => legacy[u] = NoPhone \/ legacy[u] # legacy[v]
          /\ phoneOf = legacy
          /\ users = {u \in Users : legacy[u] # NoPhone}
    BY DEF AccountsInit
  <1>2. /\ gone = {} /\ heard = {} /\ opened = {}
        /\ holder = [a \in Addresses |-> NoUser] /\ identity = [s \in Subjects |-> NoUser]
        /\ visit = [v \in Visits |-> Absent]
    BY DEF AccountsInit
  <1>3. AccountRows
    BY <1>1, <1>2, AbsentOK DEF AccountRows
  <1>4. PhonesApart
    BY <1>1 DEF PhonesApart
  <1>5. Identified /\ HeardInOnePlace /\ OpensItsOwn
    BY <1>2 DEF Identified, HeardInOnePlace, OpensItsOwn
  <1>6. Reachable
    BY <1>1, <1>2 DEF Reachable, Addresses
  <1>7. \A v \in Visits : RequestOK(visit[v])
    BY <1>2, AbsentOK DEF RequestOK
  <1> QED
    BY <1>3, <1>4, <1>5, <1>6, <1>7 DEF AccountsInv, AccountsAreSeparate

\* What a request knows stays true while users only grow or go.
LEMMA RequestKept ==
  ASSUME AccountsInv, Grows, NEW r \in VisitRows, RequestOK(r)
  PROVE  RequestOK(r)'
  <1>1. /\ users \subseteq Users /\ phoneOf \in [Users -> Phones \cup {NoPhone}]
        /\ holder \in [Addresses -> users \cup {NoUser}] /\ NoUser \notin users
        /\ NoPhone \notin Addresses
    BY AccountsAssumption DEF AccountsInv, AccountRows, Addresses
  <1>2. CASE r.does = "create"
    BY <1>2 DEF RequestOK, Grows
  <1>3. CASE r.does = "recognise"
    BY <1>1, <1>3 DEF RequestOK, Grows
  <1>4. CASE r.does = "adopt"
    BY <1>1, <1>4 DEF RequestOK, Grows
  <1>5. CASE r.does = "link"
    <2>1. Vouched[r.key] \subseteq Addresses
      BY <1>5, AccountsAssumption DEF RequestOK, Addresses
    <2> QED
      BY <1>1, <1>5, <2>1 DEF RequestOK, Grows
  <1>6. CASE r.does = "nothing"
    BY <1>6 DEF RequestOK
  <1> QED
    BY <1>2, <1>3, <1>4, <1>5, <1>6 DEF VisitRows

\* One request moves, and at most one message and one sign-in are new, both of a user
\* that all its addresses belong to.
LEMMA AccountsKept ==
  ASSUME AccountsInv, Grows, Reachable', PhonesApart', Identified',
         users' \subseteq Users, gone' \subseteq Users, users' \cap gone' = {},
         phoneOf' \in [Users -> Phones \cup {NoPhone}],
         holder' \in [Addresses -> users' \cup {NoUser}],
         identity' \in [Subjects -> users' \cup {NoUser}],
         \/ UNCHANGED visit
         \/ \E v \in Visits, r \in VisitRows :
              RequestOK(r)' /\ visit' = [visit EXCEPT ![v] = r],
         \/ UNCHANGED heard
         \/ \E a \in Addresses : holder'[a] \in users' /\ heard' = heard \cup {<<a, holder'[a]>>},
         \/ UNCHANGED opened
         \/ \E s \in Subjects :
              identity'[s] \in users' /\ opened' = opened \cup {<<s, identity'[s]>>}
  PROVE  AccountsInv'
  <1>1. visit' \in [Visits -> VisitRows]
    BY DEF AccountsInv, AccountRows
  <1>4. ASSUME NEW w \in Visits
        PROVE  RequestOK(visit[w])'
    <2>1. PICK r \in VisitRows : visit'[w] = r
      BY <1>1
    <2>2. RequestOK(r)'
      <3>1. CASE visit[w] = r
        <4>1. RequestOK(r)
          BY <3>1 DEF AccountsInv
        <4> QED
          BY <4>1, RequestKept
      <3>2. CASE visit[w] # r
        BY <2>1, <3>2 DEF AccountsInv, AccountRows
      <3> QED
        BY <3>1, <3>2
    <2> QED
      BY <2>1, <2>2 DEF RequestOK
  <1>2. heard' \subseteq Addresses \X (users' \cup gone') /\ HeardInOnePlace'
    <2>1. heard \subseteq Addresses \X (users' \cup gone')
      BY DEF AccountsInv, AccountRows, Grows
    <2>2. \A m \in heard : m[2] \in users' => holder'[m[1]] = m[2]
      BY DEF AccountsInv, AccountRows, AccountsAreSeparate, HeardInOnePlace, Grows
    <2>3. ASSUME NEW a \in Addresses, holder'[a] \in users', heard' = heard \cup {<<a, holder'[a]>>}
          PROVE  heard' \subseteq Addresses \X (users' \cup gone') /\ HeardInOnePlace'
      BY <2>1, <2>2, <2>3 DEF HeardInOnePlace
    <2> QED
      BY <2>1, <2>2, <2>3 DEF HeardInOnePlace
  <1>3. opened' \subseteq Subjects \X (users' \cup gone') /\ OpensItsOwn'
    <2>1. opened \subseteq Subjects \X (users' \cup gone')
      BY DEF AccountsInv, AccountRows, Grows
    <2>2. \A o \in opened : o[2] \in users' => identity'[o[1]] = o[2]
      BY DEF AccountsInv, AccountRows, AccountsAreSeparate, OpensItsOwn, Grows
    <2>3. \A o \in opened' : o[2] \in users' => o[1] \in Subjects /\ identity'[o[1]] = o[2]
      BY <2>1, <2>2
    <2>4. NoUser \notin users'
      BY AccountsAssumption
    <2> QED
      BY <2>1, <2>3, <2>4 DEF OpensItsOwn, Identified
  <1> QED
    BY <1>1, <1>2, <1>3, <1>4 DEF AccountsInv, AccountRows, AccountsAreSeparate

\* Steps that change no user: a request looks up, gives up, or takes what others have made.
LEMMA LookupOK ==
  ASSUME AccountsInv, UNCHANGED <<users, gone, phoneOf, holder, identity>>,
         \/ UNCHANGED visit
         \/ \E v \in Visits, r \in VisitRows : RequestOK(r) /\ visit' = [visit EXCEPT ![v] = r],
         \/ UNCHANGED heard
         \/ \E a \in Addresses : holder[a] \in users /\ heard' = heard \cup {<<a, holder[a]>>},
         \/ UNCHANGED opened
         \/ \E s \in Subjects : identity[s] \in users /\ opened' = opened \cup {<<s, identity[s]>>}
  PROVE  AccountsInv'
  <1>1. Grows
    BY AccountsAssumption DEF Grows, AccountsInv, AccountRows
  <1>2. Reachable' /\ PhonesApart' /\ Identified'
    BY DEF AccountsInv, AccountsAreSeparate, Reachable, PhonesApart, Identified
  <1>3. \A r \in VisitRows : RequestOK(r) => RequestOK(r)'
    BY DEF RequestOK
  <1> QED
    BY <1>1, <1>2, <1>3, AccountsKept DEF AccountsInv, AccountRows

\* What a lookup finds is true when it is found.
LEMMA FindOK ==
  ASSUME AccountsInv, NEW v \in Visits,
         \/ \E a \in Addresses : Receive(v, a)
         \/ \E s \in Subjects : SignIn(v, s)
         \/ Refuse(v)
  PROVE  AccountsInv'
  <1>0. users \subseteq Users /\ holder \in [Addresses -> users \cup {NoUser}] /\ NoUser \notin users
    BY AccountsAssumption DEF AccountsInv, AccountRows
  <1>1. ASSUME NEW a \in Addresses, Receive(v, a)
        PROVE  AccountsInv'
    <2>1. UNCHANGED <<users, gone, phoneOf, holder, identity, heard, opened>>
      BY <1>1 DEF Receive
    <2>2. CASE Known(a) = {}
      <3> DEFINE r == [does |-> "create", key |-> a, found |-> NoUser]
      <3>1. visit' = [visit EXCEPT ![v] = r]
        BY <1>1, <2>2 DEF Receive, Remember
      <3>2. r \in VisitRows /\ RequestOK(r)
        BY <1>0, <2>2 DEF VisitRows, RequestOK, Known
      <3> QED
        BY <2>1, <3>1, <3>2, LookupOK
    <2>3. CASE Known(a) # {}
      <3>1. PICK u \in Known(a) :
              Remember(v, IF holder[a] = u THEN "recognise" ELSE "adopt", a, u)
        BY <1>1, <2>3 DEF Receive
      <3>2. PICK r : r = [does |-> IF holder[a] = u THEN "recognise" ELSE "adopt",
                          key |-> a, found |-> u]
        OBVIOUS
      <3>3. u \in users /\ (holder[a] # u => phoneOf[u] = a)
        BY <1>0 DEF Known
      <3>4. /\ r.does = IF holder[a] = u THEN "recognise" ELSE "adopt"
            /\ r.key = a /\ r.found = u /\ r \in VisitRows
        BY <1>0, <3>2, <3>3 DEF VisitRows
      <3>5. RequestOK(r)
        BY <1>0, <3>3, <3>4 DEF RequestOK
      <3>6. visit' = [visit EXCEPT ![v] = r]
        BY <3>1, <3>2 DEF Remember
      <3> QED
        BY <2>1, <3>4, <3>5, <3>6, LookupOK
    <2> QED
      BY <2>2, <2>3
  <1>2. ASSUME NEW s \in Subjects, SignIn(v, s)
        PROVE  AccountsInv'
    <2> DEFINE found == UNION {Known(a) : a \in Vouched[s]}
    <2>1. /\ UNCHANGED <<users, gone, phoneOf, holder, identity, heard, opened>>
          /\ Cardinality(found) = 1
      BY <1>2 DEF SignIn, OneCandidate
    <2>2. PICK u \in found : Remember(v, "link", s, u)
      BY <1>2 DEF SignIn
    <2>3. Vouched[s] \subseteq Addresses
      BY AccountsAssumption DEF Addresses
    <2>4. found \subseteq users
      BY <1>0, <2>3 DEF Known
    <2>5. found = {u}
      <3>1. IsFiniteSet(found)
        BY <1>0, <2>4, AccountsAssumption, FS_Subset
      <3>2. \E x : found = {x}
        BY <2>1, <3>1, FS_Singleton
      <3> QED
        BY <3>2
    <2>6. \A a \in Vouched[s], w \in users : holder[a] = NoUser /\ phoneOf[w] = a => w = u
      BY <2>5 DEF Known
    <2> DEFINE r == [does |-> "link", key |-> s, found |-> u]
    <2>7. r \in VisitRows /\ RequestOK(r)
      BY <1>0, <2>4, <2>6 DEF VisitRows, RequestOK
    <2>8. visit' = [visit EXCEPT ![v] = r]
      BY <2>2 DEF Remember
    <2> HIDE DEF r
    <2> QED
      BY <2>1, <2>7, <2>8, LookupOK
  <1>3. ASSUME Refuse(v)
        PROVE  AccountsInv'
    <2>1. RequestOK(Absent)
      BY AbsentOK DEF RequestOK
    <2> QED
      BY <1>3, <2>1, AbsentOK, LookupOK DEF Refuse, Finish
  <1> QED
    BY <1>1, <1>2, <1>3

\* A message of an address, or a sign-in, that leads to the account there is.
LEMMA MeetOK ==
  ASSUME AccountsInv, NEW v \in Visits,
         TakeConcurrent(v) \/ \E s \in Subjects : SignInAgain(v, s)
  PROVE  AccountsInv'
  <1>1. ASSUME TakeConcurrent(v)
        PROVE  AccountsInv'
    <2>1. RequestOK(Absent)
      BY AbsentOK DEF RequestOK
    <2>2. visit[v].key \in Addresses
      BY <1>1 DEF TakeConcurrent, AccountsInv, RequestOK
    <2>3. holder[visit[v].key] \in users
      BY <1>1, <2>2 DEF TakeConcurrent, AccountsInv, AccountRows
    <2> QED
      BY <1>1, <2>1, <2>2, <2>3, AbsentOK, LookupOK DEF TakeConcurrent, Hear, Finish
  <1>2. ASSUME NEW s \in Subjects, SignInAgain(v, s)
        PROVE  AccountsInv'
    <2>1. identity[s] \in users
      BY <1>2 DEF SignInAgain, AccountsInv, AccountRows
    <2> QED
      BY <1>2, <2>1, LookupOK DEF SignInAgain
  <1> QED
    BY <1>1, <1>2

\* The phone of a user: his own, or one of the addresses if he has none.
LEMMA PhoneWithOK ==
  ASSUME AccountsInv, NEW u \in Users, NEW addresses \in SUBSET Addresses
  PROVE  /\ PhoneWith(u, addresses) \in Phones \cup {NoPhone}
         /\ phoneOf[u] # NoPhone => PhoneWith(u, addresses) = phoneOf[u]
         /\ phoneOf[u] = NoPhone => PhoneWith(u, addresses) \in (addresses \cap Phones) \cup {NoPhone}
         /\ phoneOf[u] = NoPhone /\ addresses \cap Phones # {} => PhoneWith(u, addresses) \in Phones
  BY DEF PhoneWith, AccountsInv, AccountRows

\* A user, new or not, is given addresses that are free or his own, and a phone among them
\* if he has none.
LEMMA AddressesOK ==
  ASSUME AccountsInv, NEW u \in Users, NEW A \in SUBSET Addresses,
         NEW phone \in Phones \cup {NoPhone},
         users' = users \cup {u}, u \notin gone, gone' = gone,
         holder' = [a \in Addresses |-> IF a \in A THEN u ELSE holder[a]],
         phoneOf' = [phoneOf EXCEPT ![u] = phone],
         phoneOf[u] # NoPhone => phone = phoneOf[u],
         phoneOf[u] = NoPhone => phone \in A \cup {NoPhone},
         \A a \in A : holder[a] \in {NoUser, u},
         \A a \in A, w \in users : holder[a] = NoUser /\ phoneOf[w] = a => w = u,
         u \in users \/ A # {},
         identity' \in [Subjects -> users' \cup {NoUser}],
         \A s \in Subjects : \/ identity'[s] = identity[s]
                             \/ /\ identity'[s] = u /\ identity[s] \in {NoUser, u}
                                /\ Vouched[s] \subseteq A
  PROVE  Grows /\ Reachable' /\ PhonesApart' /\ Identified'
  <1>0. /\ users \subseteq Users /\ NoUser \notin Users
        /\ phoneOf \in [Users -> Phones \cup {NoPhone}] /\ NoPhone \notin Addresses
        /\ holder \in [Addresses -> users \cup {NoUser}] /\ Phones \subseteq Addresses
        /\ Vouched \in [Subjects -> SUBSET Addresses]
        /\ identity \in [Subjects -> users \cup {NoUser}]
    BY AccountsAssumption DEF AccountsInv, AccountRows, Addresses
  <1>1. /\ phoneOf'[u] = phone /\ \A w \in Users : w # u => phoneOf'[w] = phoneOf[w]
        /\ \A a \in A : holder'[a] = u
        /\ \A a \in Addresses \ A : holder'[a] = holder[a]
    BY <1>0
  <1>2. \A w \in users : phoneOf[w] \in A => w = u
    BY <1>0 DEF AccountsInv, AccountsAreSeparate, Reachable
  <1>3. \A w \in users : phoneOf[w] # NoPhone => holder[phoneOf[w]] \in {NoUser, w}
    BY DEF AccountsInv, AccountsAreSeparate, Reachable
  <1>4. PhonesApart'
    <2>1. \A w \in Users \ users' : phoneOf'[w] = NoPhone
      BY <1>1 DEF AccountsInv, PhonesApart
    <2>2. \A w \in users : phoneOf[w] = phone /\ phone # NoPhone => w = u
      <3>1. CASE phoneOf[u] = NoPhone
        BY <1>2, <3>1
      <3>2. CASE phoneOf[u] # NoPhone
        BY <3>2 DEF AccountsInv, PhonesApart
      <3> QED
        BY <3>1, <3>2
    <2>3. \A x, w \in users : phoneOf[x] = phoneOf[w] /\ phoneOf[x] # NoPhone => x = w
      BY DEF AccountsInv, PhonesApart
    <2> QED
      BY <1>0, <1>1, <2>1, <2>2, <2>3 DEF PhonesApart
  <1>5. Reachable'
    <2>1. ASSUME NEW w \in users', phoneOf'[w] # NoPhone
          PROVE  holder'[phoneOf'[w]] \in {NoUser, w}
      <3>1. CASE w # u
        <4>1. w \in users /\ phoneOf'[w] = phoneOf[w] /\ phoneOf[w] \notin A
          BY <1>0, <1>1, <1>2, <3>1
        <4>2. phoneOf[w] \in Addresses
          BY <1>0, <2>1, <4>1
        <4> QED
          BY <1>1, <1>3, <2>1, <4>1, <4>2
      <3>2. CASE w = u
        <4>1. CASE phone \in A
          BY <1>1, <3>2, <4>1
        <4>2. CASE phone \notin A
          <5>1. phone = phoneOf[u] /\ phone \in Phones
            BY <1>0, <1>1, <2>1, <3>2, <4>2
          <5>2. u \in users
            BY <1>0, <5>1 DEF AccountsInv, PhonesApart
          <5> QED
            BY <1>0, <1>1, <1>3, <3>2, <4>2, <5>1, <5>2
        <4> QED
          BY <4>1, <4>2
      <3> QED
        BY <3>1, <3>2
    <2>2. ASSUME NEW w \in users'
          PROVE  phoneOf'[w] \in Phones \/ \E a \in Addresses : holder'[a] = w
      <3>1. CASE w \in users
        <4>1. CASE phoneOf[w] \in Phones
          BY <1>0, <1>1, <3>1, <4>1
        <4>2. CASE phoneOf[w] \notin Phones
          <5>1. PICK a \in Addresses : holder[a] = w
            BY <3>1, <4>2 DEF AccountsInv, AccountsAreSeparate, Reachable
          <5>2. holder'[a] = w
            BY <1>0, <1>1, <3>1, <5>1
          <5> QED
            BY <5>2
        <4> QED
          BY <4>1, <4>2
      <3>2. CASE w \notin users
        <4>1. w = u /\ A # {}
          BY <3>2
        <4> QED
          BY <1>1, <4>1
      <3> QED
        BY <3>1, <3>2
    <2> QED
      BY <2>1, <2>2 DEF Reachable
  <1>6. Identified'
    <2>1. ASSUME NEW s \in Subjects, identity'[s] # NoUser, NEW a \in Vouched[s]
          PROVE  holder'[a] = identity'[s]
      <3>1. CASE identity'[s] = identity[s]
        <4>1. holder[a] = identity[s] /\ a \in Addresses
          BY <1>0, <2>1, <3>1 DEF AccountsInv, Identified
        <4> QED
          BY <1>1, <2>1, <3>1, <4>1
      <3>2. CASE identity'[s] = u /\ Vouched[s] \subseteq A
        BY <1>1, <2>1, <3>2
      <3> QED
        BY <3>1, <3>2
    <2> QED
      BY <2>1 DEF Identified
  <1>7. Grows
    <2>1. \A a \in Addresses : holder[a] \in users' => holder'[a] = holder[a]
      BY <1>0, <1>1
    <2>2. \A s \in Subjects : identity[s] \in users' => identity'[s] = identity[s]
      BY <1>0
    <2>3. \A w \in users : phoneOf[w] # NoPhone => phoneOf'[w] = phoneOf[w]
      BY <1>0, <1>1
    <2>4. ASSUME NEW a \in Addresses, NEW w \in users', holder'[a] = NoUser, phoneOf'[w] = a
          PROVE  w \in users /\ holder[a] = NoUser /\ phoneOf[w] = a
      <3>1. a \notin A /\ holder[a] = NoUser
        BY <1>0, <1>1, <2>4
      <3>2. CASE w # u
        BY <1>0, <1>1, <2>4, <3>1, <3>2
      <3>3. CASE w = u
        <4>1. phone = a /\ phone # NoPhone /\ phoneOf[u] = phone
          BY <1>0, <1>1, <2>4, <3>1, <3>3
        <4> QED
          BY <3>1, <3>3, <4>1 DEF AccountsInv, PhonesApart
      <3> QED
        BY <3>2, <3>3
    <2>5. \A w \in users \cup gone : w \in users' => w \in users
      BY DEF AccountsInv, AccountRows
    <2> QED
      BY <2>1, <2>2, <2>3, <2>4, <2>5 DEF Grows
  <1> QED
    BY <1>4, <1>5, <1>6, <1>7

\* The same for one address.
LEMMA AddressOK ==
  ASSUME AccountsInv, NEW u \in Users, NEW a \in Addresses, NEW phone \in Phones \cup {NoPhone},
         users' = users \cup {u}, u \notin gone, gone' = gone,
         holder' = [holder EXCEPT ![a] = u],
         phoneOf' = [phoneOf EXCEPT ![u] = phone],
         phoneOf[u] # NoPhone => phone = phoneOf[u],
         phoneOf[u] = NoPhone => phone \in {a, NoPhone},
         holder[a] \in {NoUser, u},
         \A w \in users : holder[a] = NoUser /\ phoneOf[w] = a => w = u,
         UNCHANGED identity
  PROVE  Grows /\ Reachable' /\ PhonesApart' /\ Identified'
  <1> DEFINE A == {a}
  <1>1. A \in SUBSET Addresses /\ A # {} /\ \A b : b \in A <=> b = a
    OBVIOUS
  <1>2. holder' = [b \in Addresses |-> IF b \in A THEN u ELSE holder[b]]
    BY DEF AccountsInv, AccountRows
  <1>3. identity' \in [Subjects -> users' \cup {NoUser}]
    BY DEF AccountsInv, AccountRows
  <1> HIDE DEF A
  <1>4. /\ phoneOf[u] = NoPhone => phone \in A \cup {NoPhone}
        /\ \A b \in A : holder[b] \in {NoUser, u}
        /\ \A b \in A, w \in users : holder[b] = NoUser /\ phoneOf[w] = b => w = u
    BY <1>1
  <1> QED
    BY <1>1, <1>2, <1>3, <1>4, AddressesOK

\* Users are recognised, adopted, made and linked with addresses of their own.
LEMMA AttachOK ==
  ASSUME AccountsInv, NEW v \in Visits,
         \/ Recognise(v) \/ Adopt(v) \/ LinkAll(v)
         \/ \E u \in Users : Create(v, u)
  PROVE  AccountsInv'
  <1>0. /\ users \subseteq Users /\ NoUser \notin Users /\ users \cap gone = {}
        /\ gone \subseteq Users
        /\ phoneOf \in [Users -> Phones \cup {NoPhone}] /\ NoPhone \notin Addresses
        /\ holder \in [Addresses -> users \cup {NoUser}] /\ Phones \subseteq Addresses
        /\ identity \in [Subjects -> users \cup {NoUser}]
        /\ RequestOK(visit[v])
    BY AccountsAssumption DEF AccountsInv, AccountRows, Addresses
  <1>a. RequestOK(Absent)' /\ Absent \in VisitRows
    BY AbsentOK DEF RequestOK
  <1>1. ASSUME Recognise(v)
        PROVE  AccountsInv'
    <2> DEFINE a == visit[v].key
               u == visit[v].found
               phone == PhoneWith(u, {a})
    <2>1. a \in Addresses /\ u \in users /\ holder[a] = u
      BY <1>0, <1>1 DEF Recognise, RequestOK
    <2>2. /\ phone \in Phones \cup {NoPhone}
          /\ phoneOf[u] # NoPhone => phone = phoneOf[u]
          /\ phoneOf[u] = NoPhone => phone \in {a, NoPhone}
      BY <1>0, <2>1, PhoneWithOK
    <2>3. /\ phoneOf' = [phoneOf EXCEPT ![u] = phone] /\ heard' = heard \cup {<<a, u>>}
          /\ visit' = [visit EXCEPT ![v] = Absent]
          /\ UNCHANGED <<users, gone, holder, identity, opened>>
      BY <1>1 DEF Recognise, Hear, Finish
    <2>4. holder' = [holder EXCEPT ![a] = u]
      BY <1>0, <2>1, <2>3
    <2>5. users' = users \cup {u} /\ u \notin gone /\ u \in Users
      BY <1>0, <2>1, <2>3
    <2> HIDE DEF a, u, phone
    <2>6. Grows /\ Reachable' /\ PhonesApart' /\ Identified'
      BY <1>0, <2>1, <2>2, <2>3, <2>4, <2>5, AddressOK
    <2>7. /\ phoneOf' \in [Users -> Phones \cup {NoPhone}]
          /\ heard' = heard \cup {<<a, holder'[a]>>} /\ holder'[a] \in users'
      BY <1>0, <2>1, <2>2, <2>3
    <2> QED
      BY <1>0, <1>a, <2>1, <2>3, <2>6, <2>7, AccountsKept
  <1>2. ASSUME Adopt(v)
        PROVE  AccountsInv'
    <2> DEFINE a == visit[v].key
               u == visit[v].found
    <2>1. a \in Addresses /\ u \in users /\ phoneOf[u] = a /\ holder[a] \in {NoUser, u}
      BY <1>0, <1>2 DEF Adopt, CanLink, RequestOK
    <2>2. /\ heard' = heard \cup {<<a, u>>} /\ visit' = [visit EXCEPT ![v] = Absent]
          /\ holder' = [holder EXCEPT ![a] = u]
          /\ UNCHANGED <<users, gone, phoneOf, identity, opened>>
      BY <1>2 DEF Adopt, Hear, Finish
    <2>3. /\ phoneOf' = [phoneOf EXCEPT ![u] = a] /\ a \in Phones \cup {NoPhone}
      BY <1>0, <2>1, <2>2
    <2>4. users' = users \cup {u} /\ u \notin gone /\ u \in Users
      BY <1>0, <2>1, <2>2
    <2>5. \A w \in users : phoneOf[w] = a => w = u
      BY <1>0, <2>1 DEF AccountsInv, PhonesApart
    <2> HIDE DEF a, u
    <2>6. Grows /\ Reachable' /\ PhonesApart' /\ Identified'
      <3>1. PICK phone \in Phones \cup {NoPhone} : phone = a
        BY <2>3
      <3>2. phoneOf' = [phoneOf EXCEPT ![u] = phone] /\ phoneOf[u] = phone
        BY <2>1, <2>3, <3>1
      <3>3. phone \in {a, NoPhone} /\ identity' = identity /\ gone' = gone
        BY <2>2, <3>1
      <3> QED
        BY <2>1, <2>2, <2>4, <2>5, <3>2, <3>3, AddressOK
    <2>7. /\ holder' \in [Addresses -> users' \cup {NoUser}]
          /\ heard' = heard \cup {<<a, holder'[a]>>} /\ holder'[a] \in users'
      BY <1>0, <2>1, <2>2
    <2> QED
      BY <1>0, <1>a, <2>1, <2>2, <2>6, <2>7, AccountsKept
  <1>3. ASSUME NEW u \in Users, Create(v, u)
        PROVE  AccountsInv'
    <2> DEFINE a == visit[v].key
               phone == PhoneWith(u, {a})
    <2>1. /\ a \in Addresses /\ holder[a] = NoUser /\ u \notin users \cup gone
          /\ \A w \in users : phoneOf[w] # a
      BY <1>0, <1>3 DEF Create, RequestOK
    <2>2. /\ phone \in Phones \cup {NoPhone}
          /\ phoneOf[u] # NoPhone => phone = phoneOf[u]
          /\ phoneOf[u] = NoPhone => phone \in {a, NoPhone}
      BY <1>0, <2>1, PhoneWithOK
    <2>3. /\ phoneOf' = [phoneOf EXCEPT ![u] = phone] /\ heard' = heard \cup {<<a, u>>}
          /\ visit' = [visit EXCEPT ![v] = Absent]
          /\ users' = users \cup {u} /\ holder' = [holder EXCEPT ![a] = u]
          /\ UNCHANGED <<gone, identity, opened>>
      BY <1>3 DEF Create, Hear, Finish
    <2>5. identity' \in [Subjects -> users' \cup {NoUser}]
      BY <1>0, <2>3
    <2> HIDE DEF a, phone
    <2>6. Grows /\ Reachable' /\ PhonesApart' /\ Identified'
      BY <1>0, <2>1, <2>2, <2>3, AddressOK
    <2>7. /\ phoneOf' \in [Users -> Phones \cup {NoPhone}]
          /\ holder' \in [Addresses -> users' \cup {NoUser}]
          /\ heard' = heard \cup {<<a, holder'[a]>>} /\ holder'[a] \in users'
      BY <1>0, <2>1, <2>2, <2>3
    <2>8. users' \subseteq Users /\ gone' \subseteq Users /\ users' \cap gone' = {}
      BY <1>0, <2>1, <2>3
    <2> QED
      BY <1>a, <2>1, <2>3, <2>5, <2>6, <2>7, <2>8, AccountsKept
  <1>4. ASSUME LinkAll(v)
        PROVE  AccountsInv'
    <2> DEFINE s == visit[v].key
               u == visit[v].found
               phone == PhoneWith(u, Vouched[s])
    <2>1. /\ s \in Subjects /\ u \in users /\ identity[s] \in {NoUser, u}
          /\ Vouched[s] \subseteq Addresses
          /\ \A a \in Vouched[s] : holder[a] \in {NoUser, u}
          /\ \A a \in Vouched[s], w \in users : holder[a] = NoUser /\ phoneOf[w] = a => w = u
      BY <1>0, <1>4, AccountsAssumption DEF LinkAll, RequestOK, CanLink, Addresses
    <2>2. /\ phone \in Phones \cup {NoPhone}
          /\ phoneOf[u] # NoPhone => phone = phoneOf[u]
          /\ phoneOf[u] = NoPhone => phone \in Vouched[s] \cup {NoPhone}
      BY <1>0, <2>1, PhoneWithOK
    <2>3. /\ phoneOf' = [phoneOf EXCEPT ![u] = phone] /\ opened' = opened \cup {<<s, u>>}
          /\ visit' = [visit EXCEPT ![v] = Absent]
          /\ holder' = [a \in Addresses |-> IF a \in Vouched[s] THEN u ELSE holder[a]]
          /\ identity' = [identity EXCEPT ![s] = u]
          /\ UNCHANGED <<users, gone, heard>>
      BY <1>4 DEF LinkAll, Finish
    <2>4. users' = users \cup {u} /\ u \notin gone /\ u \in Users
      BY <1>0, <2>1, <2>3
    <2>5. /\ identity' \in [Subjects -> users' \cup {NoUser}] /\ identity'[s] = u
          /\ \A t \in Subjects : t # s => identity'[t] = identity[t]
      BY <1>0, <2>1, <2>3
    <2> DEFINE A == Vouched[s]
    <2> HIDE DEF s, u, phone
    <2>6. Grows /\ Reachable' /\ PhonesApart' /\ Identified'
      <3>1. A \in SUBSET Addresses
        BY <2>1
      <3>2. \A t \in Subjects : \/ identity'[t] = identity[t]
                                \/ /\ identity'[t] = u /\ identity[t] \in {NoUser, u}
                                   /\ Vouched[t] \subseteq A
        BY <2>1, <2>5
      <3>3. /\ holder' = [a \in Addresses |-> IF a \in A THEN u ELSE holder[a]]
            /\ phoneOf[u] = NoPhone => phone \in A \cup {NoPhone}
            /\ \A a \in A : holder[a] \in {NoUser, u}
            /\ \A a \in A, w \in users : holder[a] = NoUser /\ phoneOf[w] = a => w = u
        BY <2>1, <2>2, <2>3
      <3> HIDE DEF A
      <3> QED
        BY <1>0, <2>1, <2>2, <2>3, <2>4, <2>5, <3>1, <3>2, <3>3, AddressesOK
    <2>7. /\ phoneOf' \in [Users -> Phones \cup {NoPhone}]
          /\ holder' \in [Addresses -> users' \cup {NoUser}]
          /\ opened' = opened \cup {<<s, identity'[s]>>} /\ identity'[s] \in users'
      BY <1>0, <2>1, <2>2, <2>3, <2>5
    <2> QED
      BY <1>0, <1>a, <2>1, <2>3, <2>5, <2>6, <2>7, AccountsKept
  <1> QED
    BY <1>1, <1>2, <1>3, <1>4

\* A user goes with his addresses, his phone and his identities.
LEMMA EraseOK ==
  ASSUME AccountsInv, NEW u \in Users, Erase(u)
  PROVE  AccountsInv'
  <1>0. /\ users \subseteq Users /\ NoUser \notin Users /\ users \cap gone = {}
        /\ gone \subseteq Users
        /\ phoneOf \in [Users -> Phones \cup {NoPhone}] /\ NoPhone \notin Addresses
        /\ holder \in [Addresses -> users \cup {NoUser}] /\ Phones \subseteq Addresses
        /\ identity \in [Subjects -> users \cup {NoUser}]
        /\ Vouched \in [Subjects -> SUBSET Addresses]
    BY AccountsAssumption DEF AccountsInv, AccountRows, Addresses
  <1>1. /\ u \in users /\ users' = users \ {u} /\ gone' = gone \cup {u}
        /\ UNCHANGED <<visit, heard, opened>>
    BY DEF Erase
  <1>2. /\ phoneOf' \in [Users -> Phones \cup {NoPhone}] /\ phoneOf'[u] = NoPhone
        /\ \A w \in Users : w # u => phoneOf'[w] = phoneOf[w]
    BY <1>0 DEF Erase
  <1>3. /\ holder' \in [Addresses -> users' \cup {NoUser}]
        /\ \A a \in Addresses : holder'[a] = IF holder[a] = u THEN NoUser ELSE holder[a]
    BY <1>0, <1>1 DEF Erase
  <1>4. /\ identity' \in [Subjects -> users' \cup {NoUser}]
        /\ \A s \in Subjects : identity'[s] = IF identity[s] = u THEN NoUser ELSE identity[s]
    BY <1>0, <1>1 DEF Erase
  <1>5. \A w \in users : phoneOf[w] # NoPhone => holder[phoneOf[w]] \in {NoUser, w}
    BY DEF AccountsInv, AccountsAreSeparate, Reachable
  <1>6. Grows
    <2>1. ASSUME NEW a \in Addresses, NEW w \in users', holder'[a] = NoUser, phoneOf'[w] = a
          PROVE  w \in users /\ holder[a] = NoUser /\ phoneOf[w] = a
      BY <1>0, <1>1, <1>2, <1>3, <1>5, <2>1
    <2>2. \A a \in Addresses : holder[a] \in users' => holder'[a] = holder[a]
      BY <1>1, <1>3
    <2>3. \A s \in Subjects : identity[s] \in users' => identity'[s] = identity[s]
      BY <1>1, <1>4
    <2>4. \A w \in users : w \in users' => phoneOf'[w] = phoneOf[w]
      BY <1>0, <1>1, <1>2
    <2> QED
      BY <1>0, <1>1, <2>1, <2>2, <2>3, <2>4 DEF Grows
  <1>7. Reachable'
    <2>1. \A w \in users' : w \in users /\ w # u /\ phoneOf'[w] = phoneOf[w]
      BY <1>0, <1>1, <1>2
    <2>2. \A w \in users' : phoneOf[w] # NoPhone => holder'[phoneOf[w]] \in {NoUser, w}
      BY <1>0, <1>1, <1>3, <1>5
    <2>3. ASSUME NEW w \in users', phoneOf[w] \notin Phones
          PROVE  \E a \in Addresses : holder'[a] = w
      <3>1. PICK a \in Addresses : holder[a] = w
        BY <2>1, <2>3 DEF AccountsInv, AccountsAreSeparate, Reachable
      <3> QED
        BY <1>3, <2>1, <3>1
    <2> QED
      BY <2>1, <2>2, <2>3 DEF Reachable
  <1>8. PhonesApart'
    BY <1>0, <1>1, <1>2 DEF AccountsInv, PhonesApart
  <1>9. Identified'
    BY <1>0, <1>3, <1>4 DEF AccountsInv, Identified
  <1>10. users' \subseteq Users /\ gone' \subseteq Users /\ users' \cap gone' = {}
    BY <1>0, <1>1
  <1> QED
    BY <1>1, <1>2, <1>3, <1>4, <1>6, <1>7, <1>8, <1>9, <1>10, AccountsKept

\* Every request and every deletion keeps accounts separate.
LEMMA AccountsStep ==
  ASSUME AccountsInv, [AccountsNext]_accountVars
  PROVE  AccountsInv'
  <1>1. CASE UNCHANGED accountVars
    BY <1>1, LookupOK DEF accountVars
  <1> QED
    BY <1>1, FindOK, MeetOK, AttachOK, EraseOK DEF AccountsNext

\* resolve_user_from_identifier, link_user_identifier and the sign-ins together, in any
\* overlap and with accounts deleted meanwhile: nobody's messages or sign-ins go to two
\* accounts, and no account takes over another's address.
THEOREM AccountsSeparate == AccountsSpec => []AccountsAreSeparate
  <1>1. AccountsInv => AccountsAreSeparate
    BY DEF AccountsInv
  <1> QED
    BY <1>1, AccountsInitially, AccountsStep, PTL DEF AccountsSpec

\* Users, their addresses and the requests keep their shape.
THEOREM AccountTypes == AccountsSpec => []AccountsTypeOK
  <1>1. AccountsInv => AccountsTypeOK
    BY DEF AccountsInv, AccountRows, AccountsTypeOK, VisitRows
  <1> QED
    BY <1>1, AccountsInitially, AccountsStep, PTL DEF AccountsSpec

-----------------------------------------------------------------------------
(***************************************************************************)
(* Google accounts.                                                        *)
(***************************************************************************)
GoogleSpec == GoogleInit /\ [][GoogleNext]_googleVars

Consentings == [user : Owners \cup {NoOwner}, service : Services \cup {NoService}, used : BOOLEAN]
CallbackRows ==
  [at : {"none", "read", "used", "exchanged", "found", "stored", "failed"},
   of : Consents \cup {NoConsent}, who : Identities \cup {NoIdentity},
   row : Callbacks \cup {NoCallback}, token : Callbacks \cup {NoCallback}]
Pairs == [row : Callbacks \cup {NoCallback}, token : Callbacks \cup {NoCallback}]
DisconnectRows ==
  [at : {"idle", "read", "one", "last"}, who : Identities \cup {NoIdentity},
   row : Callbacks \cup {NoCallback}, service : Services \cup {NoService}]
RefreshRows == [who : Identities \cup {NoIdentity}, row : Callbacks \cup {NoCallback},
                token : Callbacks \cup {NoCallback}]

GoogleRows ==
  /\ consent \in [Consents -> Consentings] /\ callback \in [Callbacks -> CallbackRows]
  /\ connected \in [Identities -> Pairs] /\ grants \in [Identities -> SUBSET Services]
  /\ accepted \subseteq Callbacks /\ disconnect \in [Disconnects -> DisconnectRows]
  /\ refresh \in [Refreshes -> RefreshRows] /\ unsettled \subseteq Identities

\* Two callbacks of the same user and the same identity.
Started(c) == callback[c].at # "none"
Kin(x, y) ==
  /\ x \in Callbacks /\ y \in Callbacks /\ Started(x) /\ Started(y)
  /\ UserOf(x) = UserOf(y) /\ callback[x].who = callback[y].who

\* A row and a token that belong together at an identity.
Pair(i, row, token) == Kin(row, token) /\ callback[row].who = i /\ callback[row].at = "stored"

CallbackOK(c) ==
  /\ Started(c) => /\ callback[c].of \in Consents /\ callback[c].who \in Identities
                   /\ consent[callback[c].of].user # NoOwner
                   /\ consent[callback[c].of].service \in Services
  /\ callback[c].at = "found" =>
       /\ Kin(c, callback[c].token)
       /\ callback[c].row # NoCallback =>
            Kin(c, callback[c].row) /\ callback[callback[c].row].at = "stored"

ConnectedOK(i) ==
  /\ connected[i].row # NoCallback => Pair(i, connected[i].row, connected[i].token)
  /\ connected[i].row = NoCallback => connected[i].token = NoCallback /\ grants[i] = {}

RefreshOK(t) ==
  refresh[t].who # NoIdentity => Pair(refresh[t].who, refresh[t].row, refresh[t].token)

\* A state that was given to a user is for a service.
GoogleServed == \A f \in Consents : consent[f].user # NoOwner => consent[f].service \in Services

GoogleBase ==
  /\ GoogleRows /\ GoogleServed
  /\ \A c \in Callbacks : CallbackOK(c)
  /\ \A i \in Identities : ConnectedOK(i)
  /\ \A t \in Refreshes : RefreshOK(t)

\* A callback that was begun is of its user and identity for good, and one that was stored
\* stays so.
Firm ==
  /\ \A c \in Callbacks : Started(c) =>
       /\ callback'[c].at # "none"
       /\ callback'[c].of = callback[c].of /\ callback'[c].who = callback[c].who
       /\ callback[c].at = "stored" => callback'[c].at = "stored"
  /\ \A f \in Consents : consent[f].user # NoOwner =>
       consent'[f].user = consent[f].user /\ consent'[f].service = consent[f].service

\* Kin stay kin.
LEMMA KinKept ==
  ASSUME GoogleBase, Firm, NEW x, NEW y, Kin(x, y)
  PROVE  Kin(x, y)'
  <1>1. /\ callback'[x].of = callback[x].of /\ callback'[y].of = callback[y].of
        /\ callback'[x].who = callback[x].who /\ callback'[y].who = callback[y].who
        /\ callback'[x].at # "none" /\ callback'[y].at # "none"
    BY DEF Firm, Kin
  <1>2. /\ callback[x].of \in Consents /\ consent[callback[x].of].user # NoOwner
        /\ callback[y].of \in Consents /\ consent[callback[y].of].user # NoOwner
    BY DEF GoogleBase, CallbackOK, Kin
  <1>3. /\ consent'[callback[x].of].user = consent[callback[x].of].user
        /\ consent'[callback[y].of].user = consent[callback[y].of].user
    BY <1>2 DEF Firm
  <1> QED
    BY <1>1, <1>3 DEF Kin, Started, UserOf

\* And pairs stay pairs.
LEMMA PairKept ==
  ASSUME GoogleBase, Firm, NEW i, NEW row, NEW token, Pair(i, row, token)
  PROVE  Pair(i, row, token)'
  <1>1. Kin(row, token)'
    BY KinKept DEF Pair
  <1>2. callback'[row].who = i /\ callback'[row].at = "stored"
    BY DEF Pair, Kin, Firm
  <1> QED
    BY <1>1, <1>2 DEF Pair

\* A step whose callbacks, rows and refreshes are as they were, or are known to be right.
LEMMA BaseKept ==
  ASSUME GoogleBase, Firm, GoogleRows', GoogleServed',
         \A c \in Callbacks : callback'[c] = callback[c] \/ CallbackOK(c)',
         \A i \in Identities : \/ connected'[i] = connected[i] /\ grants'[i] = grants[i]
                               \/ ConnectedOK(i)',
         \A t \in Refreshes : refresh'[t] = refresh[t] \/ RefreshOK(t)'
  PROVE  GoogleBase'
  <1>1. ASSUME NEW c \in Callbacks
        PROVE  CallbackOK(c)'
    <2>1. CASE callback'[c] = callback[c]
      <3>1. PICK r : r = callback[c]
        OBVIOUS
      <3>2. /\ r.at # "none" => /\ r.of \in Consents /\ r.who \in Identities
                                /\ consent[r.of].user # NoOwner /\ consent[r.of].service \in Services
            /\ r.at = "found" => /\ Kin(c, r.token)
                                 /\ r.row # NoCallback => Kin(c, r.row) /\ callback[r.row].at = "stored"
        BY <3>1 DEF GoogleBase, CallbackOK, Started
      <3>3. r.at = "found" => /\ Kin(c, r.token)'
                              /\ r.row # NoCallback => Kin(c, r.row)' /\ callback'[r.row].at = "stored"
        <4>1. r.at = "found" => Kin(c, r.token)'
          BY <3>2, KinKept
        <4>2. r.at = "found" /\ r.row # NoCallback => Kin(c, r.row)'
          BY <3>2, KinKept
        <4>3. r.at = "found" /\ r.row # NoCallback => callback'[r.row].at = "stored"
          BY <3>2 DEF Firm, Kin
        <4> QED
          BY <4>1, <4>2, <4>3
      <3>4. callback'[c] = r
        BY <2>1, <3>1
      <3>5. r.at # "none" => consent'[r.of].user # NoOwner /\ consent'[r.of].service \in Services
        BY <3>2 DEF Firm
      <3> QED
        BY <3>2, <3>3, <3>4, <3>5 DEF CallbackOK, Started, Kin, UserOf
    <2> QED
      BY <2>1
  <1>2. ASSUME NEW i \in Identities
        PROVE  ConnectedOK(i)'
    <2>1. CASE connected'[i] = connected[i] /\ grants'[i] = grants[i]
      <3>1. PICK row, token : row = connected[i].row /\ token = connected[i].token
        OBVIOUS
      <3>2. row # NoCallback => Pair(i, row, token)'
        <4>1. row # NoCallback => Pair(i, row, token)
          BY <3>1 DEF GoogleBase, ConnectedOK
        <4> QED
          BY <4>1, PairKept
      <3>3. row = NoCallback => token = NoCallback /\ grants'[i] = {}
        BY <2>1, <3>1 DEF GoogleBase, ConnectedOK
      <3>4. connected'[i].row = row /\ connected'[i].token = token
        BY <2>1, <3>1
      <3> QED
        BY <3>2, <3>3, <3>4 DEF ConnectedOK, Pair, Kin, UserOf, Started
    <2> QED
      BY <2>1
  <1>3. ASSUME NEW t \in Refreshes
        PROVE  RefreshOK(t)'
    <2>1. CASE refresh'[t] = refresh[t]
      <3>1. PICK r : r = refresh[t]
        OBVIOUS
      <3>2. r.who # NoIdentity => Pair(r.who, r.row, r.token)'
        <4>1. r.who # NoIdentity => Pair(r.who, r.row, r.token)
          BY <3>1 DEF GoogleBase, RefreshOK
        <4> QED
          BY <4>1, PairKept
      <3>3. refresh'[t] = r
        BY <2>1, <3>1
      <3> QED
        BY <3>2, <3>3 DEF RefreshOK, Pair, Kin, UserOf, Started
    <2> QED
      BY <2>1
  <1> QED
    BY <1>1, <1>2, <1>3 DEF GoogleBase

\* A callback that moves on, and what the others are at stays.
LEMMA CallbackMoves ==
  ASSUME GoogleBase, NEW c \in Callbacks, NEW r \in CallbackRows,
         callback' = [callback EXCEPT ![c] = r],
         Started(c) => /\ r.at # "none" /\ r.of = callback[c].of /\ r.who = callback[c].who
                       /\ callback[c].at = "stored" => r.at = "stored",
         \A f \in Consents : consent[f].user # NoOwner =>
           consent'[f].user = consent[f].user /\ consent'[f].service = consent[f].service
  PROVE  /\ Firm /\ callback' \in [Callbacks -> CallbackRows] /\ callback'[c] = r
         /\ \A x \in Callbacks : x # c => callback'[x] = callback[x]
  <1>1. /\ callback' \in [Callbacks -> CallbackRows] /\ callback'[c] = r
        /\ \A x \in Callbacks : x # c => callback'[x] = callback[x]
    BY DEF GoogleBase, GoogleRows
  <1>2. ASSUME NEW x \in Callbacks, Started(x)
        PROVE  /\ callback'[x].at # "none"
               /\ callback'[x].of = callback[x].of /\ callback'[x].who = callback[x].who
               /\ callback[x].at = "stored" => callback'[x].at = "stored"
    BY <1>1, <1>2 DEF Started
  <1> QED
    BY <1>1, <1>2 DEF Firm

\* Steps of a callback up to the exchange, and one that fails.
LEMMA CallbackBase ==
  ASSUME GoogleBase, unsettled' \subseteq Identities, NEW c \in Callbacks,
         \/ \E f \in Consents, i \in Identities : BeginCallback(c, f, i)
         \/ UseConsent(c) \/ Exchange(c) \/ FailCallback(c)
  PROVE  GoogleBase'
  <1>0. /\ consent \in [Consents -> Consentings] /\ callback[c] \in CallbackRows
        /\ accepted \subseteq Callbacks
    BY DEF GoogleBase, GoogleRows
  <1>r. UNCHANGED <<connected, grants, disconnect, refresh>>
    BY DEF BeginCallback, UseConsent, Exchange, FailCallback
  <1>g. ASSUME Firm, callback' \in [Callbacks -> CallbackRows],
               consent' \in [Consents -> Consentings], accepted' \subseteq Callbacks,
               \A x \in Callbacks : x # c => callback'[x] = callback[x], CallbackOK(c)',
               \A f \in Consents : /\ consent'[f].user = consent[f].user
                                   /\ consent'[f].service = consent[f].service
        PROVE  GoogleBase'
    <2>1. GoogleRows'
      BY <1>r, <1>g DEF GoogleBase, GoogleRows
    <2>2. GoogleServed'
      BY <1>g DEF GoogleBase, GoogleServed
    <2> QED
      BY <1>r, <1>g, <2>1, <2>2, BaseKept
  <1>k. ASSUME NEW at \in {"used", "exchanged", "failed"},
               callback' = [callback EXCEPT ![c].at = at], Started(c),
               callback[c].at # "stored",
               consent' \in [Consents -> Consentings], accepted' \subseteq Callbacks,
               \A f \in Consents : /\ consent'[f].user = consent[f].user
                                   /\ consent'[f].service = consent[f].service
        PROVE  GoogleBase'
    <2> DEFINE r == [callback[c] EXCEPT !.at = at]
    <2>1. /\ r \in CallbackRows /\ r.at = at /\ r.of = callback[c].of /\ r.who = callback[c].who
          /\ callback' = [callback EXCEPT ![c] = r]
      BY <1>0, <1>k DEF CallbackRows, GoogleBase, GoogleRows
    <2> HIDE DEF r
    <2>2. /\ Firm /\ callback' \in [Callbacks -> CallbackRows] /\ callback'[c] = r
          /\ \A x \in Callbacks : x # c => callback'[x] = callback[x]
      <3>1. r.at # "none"
        BY <2>1
      <3>2. \A f \in Consents : consent[f].user # NoOwner =>
              consent'[f].user = consent[f].user /\ consent'[f].service = consent[f].service
        BY <1>k
      <3> QED
        BY <1>k, <2>1, <3>1, <3>2, CallbackMoves
    <2>3. /\ callback[c].of \in Consents /\ callback[c].who \in Identities
          /\ consent[callback[c].of].user # NoOwner
          /\ consent[callback[c].of].service \in Services
      BY <1>k DEF GoogleBase, CallbackOK
    <2>4. CallbackOK(c)'
      BY <1>k, <2>1, <2>2, <2>3 DEF CallbackOK
    <2> QED
      BY <1>g, <1>k, <2>2, <2>4
  <1>1. ASSUME NEW f \in Consents, NEW i \in Identities, BeginCallback(c, f, i)
        PROVE  GoogleBase'
    <2> DEFINE r == [Unstarted EXCEPT !.at = "read", !.of = f, !.who = i]
    <2>1. /\ r \in CallbackRows /\ r.at = "read" /\ r.of = f /\ r.who = i
          /\ callback' = [callback EXCEPT ![c] = r]
      BY <1>1 DEF BeginCallback, Unstarted, CallbackRows
    <2>2. callback[c].at = "none" /\ consent[f].user # NoOwner /\ UNCHANGED <<consent, accepted>>
      BY <1>1 DEF BeginCallback
    <2> HIDE DEF r
    <2>3. /\ Firm /\ callback' \in [Callbacks -> CallbackRows] /\ callback'[c] = r
          /\ \A x \in Callbacks : x # c => callback'[x] = callback[x]
      BY <2>1, <2>2, CallbackMoves DEF Started
    <2>4. consent[f].service \in Services
      BY <2>2 DEF GoogleBase, GoogleServed
    <2>5. CallbackOK(c)'
      BY <2>1, <2>2, <2>3, <2>4 DEF CallbackOK
    <2> QED
      BY <1>0, <1>g, <2>2, <2>3, <2>5
  <1>2. ASSUME UseConsent(c)
        PROVE  GoogleBase'
    <2>1. /\ callback[c].at = "read" /\ callback' = [callback EXCEPT ![c].at = "used"]
          /\ consent' = [consent EXCEPT ![callback[c].of].used = TRUE] /\ UNCHANGED accepted
      BY <1>2 DEF UseConsent
    <2>2. Started(c) /\ callback[c].of \in Consents
      BY <2>1 DEF GoogleBase, CallbackOK, Started
    <2>3. /\ consent' \in [Consents -> Consentings]
          /\ \A f \in Consents : /\ consent'[f].user = consent[f].user
                                 /\ consent'[f].service = consent[f].service
      <3>1. [consent[callback[c].of] EXCEPT !.used = TRUE] \in Consentings
        BY <1>0, <2>2 DEF Consentings
      <3>2. consent' = [consent EXCEPT ![callback[c].of] = [consent[callback[c].of] EXCEPT !.used = TRUE]]
        BY <2>1
      <3> QED
        BY <1>0, <2>2, <3>1, <3>2 DEF Consentings
    <2> QED
      BY <1>0, <1>k, <2>1, <2>2, <2>3
  <1>3. ASSUME Exchange(c) \/ FailCallback(c)
        PROVE  GoogleBase'
    <2>1. /\ \E at \in {"exchanged", "failed"} : callback' = [callback EXCEPT ![c].at = at]
          /\ Started(c) /\ callback[c].at # "stored" /\ accepted' \subseteq Callbacks
          /\ UNCHANGED consent
      BY <1>0, <1>3 DEF Exchange, FailCallback, Started
    <2> QED
      BY <1>0, <1>k, <2>1
  <1> QED
    BY <1>1, <1>2, <1>3

\* The account that is found, and the token, are of the user who consented.
LEMMA FindBase ==
  ASSUME GoogleBase, unsettled' \subseteq Identities, NEW c \in Callbacks, FindAccount(c)
  PROVE  GoogleBase'
  <1> DEFINE i == callback[c].who
  <1>0. /\ callback[c] \in CallbackRows /\ callback[c].at = "exchanged" /\ SameOwner(c, i)
        /\ UNCHANGED <<consent, connected, grants, accepted, disconnect, refresh>>
    BY DEF FindAccount, GoogleBase, GoogleRows
  <1>1. i \in Identities /\ Started(c) /\ CallbackOK(c) /\ ConnectedOK(i) /\ connected[i] \in Pairs
    BY <1>0 DEF GoogleBase, GoogleRows, CallbackOK, Started
  <1>2. PICK token \in {c, connected[i].token} \ {NoCallback} :
          callback' = [callback EXCEPT ![c].at = "found", ![c].row = connected[i].row,
                                       ![c].token = token]
    BY DEF FindAccount
  <1>3. connected[i].row # NoCallback => Kin(c, connected[i].row) /\ callback[connected[i].row].at = "stored"
    BY <1>0, <1>1 DEF ConnectedOK, Pair, Kin, SameOwner
  <1>4. Kin(c, token)
    <2>1. Kin(c, c)
      BY <1>1 DEF Kin
    <2>2. token # c => connected[i].row # NoCallback /\ Kin(connected[i].row, token)
      BY <1>1, <1>2 DEF ConnectedOK, Pair
    <2> QED
      BY <1>3, <2>1, <2>2 DEF Kin
  <1> DEFINE r == [callback[c] EXCEPT !.at = "found", !.row = connected[i].row, !.token = token]
  <1>5. /\ r \in CallbackRows /\ r.at = "found" /\ r.of = callback[c].of /\ r.who = callback[c].who
        /\ r.row = connected[i].row /\ r.token = token
        /\ callback' = [callback EXCEPT ![c] = r]
    BY <1>0, <1>1, <1>2 DEF CallbackRows, Pairs, GoogleBase, GoogleRows
  <1> HIDE DEF r
  <1>6. /\ Firm /\ callback' \in [Callbacks -> CallbackRows] /\ callback'[c] = r
        /\ \A x \in Callbacks : x # c => callback'[x] = callback[x]
    BY <1>0, <1>5, CallbackMoves
  <1>7. CallbackOK(c)'
    <2>1. PICK row : row = connected[i].row
      OBVIOUS
    <2>2. PICK tok : tok = token
      OBVIOUS
    <2>3. Kin(c, tok)'
      BY <1>4, <1>6, <2>2, KinKept
    <2>4. row # NoCallback => Kin(c, row)' /\ callback'[row].at = "stored"
      <3>1. row # NoCallback => Kin(c, row)
        BY <1>3, <2>1
      <3>2. row # NoCallback => Kin(c, row)'
        BY <1>6, <3>1, KinKept
      <3>3. row # NoCallback => callback'[row].at = "stored"
        BY <1>3, <1>6, <2>1, <3>1 DEF Firm, Kin
      <3> QED
        BY <3>2, <3>3
    <2>5. callback'[c].token = tok /\ callback'[c].row = row
      BY <1>5, <1>6, <2>1, <2>2
    <2>6. /\ callback'[c].of \in Consents /\ callback'[c].who \in Identities
          /\ consent'[callback'[c].of].user # NoOwner
          /\ consent'[callback'[c].of].service \in Services
      BY <1>0, <1>1, <1>5, <1>6 DEF CallbackOK
    <2> QED
      BY <2>3, <2>4, <2>5, <2>6 DEF CallbackOK, Kin, UserOf, Started
  <1>8. GoogleRows' /\ GoogleServed'
    BY <1>0, <1>6 DEF GoogleBase, GoogleRows, GoogleServed
  <1> QED
    BY <1>0, <1>6, <1>7, <1>8, BaseKept

\* What is stored belongs together.
LEMMA StoreBase ==
  ASSUME GoogleBase, unsettled' \subseteq Identities, NEW c \in Callbacks, Store(c)
  PROVE  /\ GoogleBase' /\ Firm
         /\ \A x \in Callbacks : x # c => callback'[x] = callback[x]
         /\ callback'[c].at = "stored"
  <1>i. PICK i \in Identities : i = callback[c].who
    BY DEF Store, GoogleBase, CallbackOK, Started
  <1> DEFINE row == IF connected[i].row = NoCallback THEN c ELSE connected[i].row
             token == callback[c].token
  <1>0. /\ callback[c] \in CallbackRows /\ callback[c].at = "found" /\ connected[i].row = callback[c].row
        /\ UNCHANGED <<consent, accepted, disconnect, refresh>>
    BY <1>i DEF Store, Unchanged, GoogleBase, GoogleRows
  <1>1. /\ Started(c) /\ CallbackOK(c) /\ ConnectedOK(i) /\ connected[i] \in Pairs
        /\ consent[callback[c].of].service \in Services
    BY <1>0 DEF GoogleBase, GoogleRows, CallbackOK, Started
  <1>2. connected' = [connected EXCEPT ![i] = [row |-> row, token |-> token]]
    BY <1>i DEF Store, GoogleBase, GoogleRows
  <1>3. /\ grants' = [grants EXCEPT ![i] = grants[i] \cup {consent[callback[c].of].service}]
        /\ grants' \in [Identities -> SUBSET Services]
    <2>1. grants' = [grants EXCEPT ![i] = grants[i] \cup {consent[callback[c].of].service}]
      BY <1>i DEF Store
    <2> QED
      BY <1>1, <2>1 DEF GoogleBase, GoogleRows
  <1> DEFINE r == [callback[c] EXCEPT !.at = "stored"]
  <1>4. /\ r \in CallbackRows /\ r.at = "stored" /\ r.of = callback[c].of /\ r.who = callback[c].who
        /\ callback' = [callback EXCEPT ![c] = r]
    BY <1>0 DEF Store, CallbackRows, GoogleBase, GoogleRows
  <1> HIDE DEF r
  <1>5. /\ Firm /\ callback' \in [Callbacks -> CallbackRows] /\ callback'[c] = r
        /\ \A x \in Callbacks : x # c => callback'[x] = callback[x]
    BY <1>0, <1>4, CallbackMoves
  <1>6. CallbackOK(c)'
    BY <1>0, <1>1, <1>4, <1>5 DEF CallbackOK
  <1>7. ConnectedOK(i)'
    <2>1. PICK x, y : x = row /\ y = token
      OBVIOUS
    <2>2. Kin(x, y) /\ x # NoCallback /\ callback[x].who = i /\ (x = c \/ callback[x].at = "stored")
      <3>1. Kin(c, token)
        BY <1>0, <1>1 DEF CallbackOK
      <3>2. row # c => Kin(c, row) /\ callback[row].at = "stored"
        BY <1>0, <1>1 DEF CallbackOK
      <3>3. Kin(row, token)
        <4>1. CASE row = c
          BY <3>1, <4>1
        <4>2. CASE row # c
          BY <3>1, <3>2, <4>2 DEF Kin
        <4> QED
          BY <4>1, <4>2
      <3>4. callback[row].who = i
        BY <1>i, <3>2 DEF Kin
      <3>5. row # NoCallback
        BY GoogleAssumption
      <3> QED
        BY <2>1, <3>2, <3>3, <3>4, <3>5
    <2>3. Kin(x, y)'
      BY <1>5, <2>2, KinKept
    <2>4. callback'[x].who = i /\ callback'[x].at = "stored"
      BY <1>4, <1>5, <2>2 DEF Firm, Kin
    <2>5. connected'[i].row = x /\ connected'[i].token = y
      BY <1>1, <1>2, <2>1 DEF GoogleBase, GoogleRows
    <2> QED
      BY <2>2, <2>3, <2>4, <2>5 DEF ConnectedOK, Pair, Kin, UserOf, Started
  <1>8. GoogleRows'
    <2>1. [row |-> row, token |-> token] \in Pairs
      BY <1>0, <1>1 DEF Pairs, CallbackRows
    <2>2. connected' \in [Identities -> Pairs]
      BY <1>2, <2>1 DEF GoogleBase, GoogleRows
    <2> QED
      BY <1>0, <1>3, <1>5, <2>2 DEF GoogleBase, GoogleRows
  <1>9. \A j \in Identities : j # i => connected'[j] = connected[j] /\ grants'[j] = grants[j]
    BY <1>2, <1>3 DEF GoogleBase, GoogleRows
  <1>10. GoogleServed'
    BY <1>0 DEF GoogleBase, GoogleServed
  <1>12. GoogleBase'
    BY <1>0, <1>5, <1>6, <1>8, <1>7, <1>9, <1>10, BaseKept
  <1> QED
    BY <1>4, <1>5, <1>12

\* Steps that begin no callback and move none.
LEMMA OtherBase ==
  ASSUME GoogleBase, unsettled' \subseteq Identities,
         \/ \E f \in Consents, u \in Owners, s \in Services : Authorize(f, u, s)
         \/ \E d \in Disconnects :
              \/ \E i \in Identities, s \in Services : BeginDisconnect(d, i, s)
              \/ DeleteGrant(d) \/ CommitDisconnect(d) \/ FailDisconnect(d)
         \/ \E t \in Refreshes : EndRefresh(t) \/ \E i \in Identities : BeginRefresh(t, i)
         \/ UNCHANGED googleVars
  PROVE  GoogleBase' /\ Firm
  <1>0. /\ consent \in [Consents -> Consentings] /\ callback \in [Callbacks -> CallbackRows]
        /\ connected \in [Identities -> Pairs] /\ grants \in [Identities -> SUBSET Services]
        /\ accepted \subseteq Callbacks /\ disconnect \in [Disconnects -> DisconnectRows]
        /\ refresh \in [Refreshes -> RefreshRows]
    BY DEF GoogleBase, GoogleRows
  <1>f. UNCHANGED <<consent, callback>> => Firm
    BY DEF Firm, Started
  <1>i. Idle \in DisconnectRows
    BY DEF Idle, DisconnectRows
  <1>1. ASSUME NEW f \in Consents, NEW u \in Owners, NEW s \in Services, Authorize(f, u, s)
        PROVE  GoogleBase' /\ Firm
    <2>1. /\ consent[f].user = NoOwner
          /\ consent' = [consent EXCEPT ![f] = [user |-> u, service |-> s, used |-> FALSE]]
          /\ UNCHANGED <<callback, connected, grants, accepted, disconnect, refresh>>
      BY <1>1 DEF Authorize
    <2>2. [user |-> u, service |-> s, used |-> FALSE] \in Consentings
      BY DEF Consentings
    <2>3. /\ consent' \in [Consents -> Consentings]
          /\ \A g \in Consents : g # f => consent'[g] = consent[g]
          /\ consent'[f].service = s
      BY <1>0, <2>1, <2>2
    <2>4. Firm
      BY <2>1, <2>3 DEF Firm, Started
    <2>5. GoogleRows' /\ GoogleServed'
      BY <1>0, <2>1, <2>3 DEF GoogleBase, GoogleRows, GoogleServed
    <2> QED
      BY <2>1, <2>4, <2>5, BaseKept
  <1>2. ASSUME UNCHANGED <<consent, callback, connected, refresh>>,
               disconnect' \in [Disconnects -> DisconnectRows], accepted' \subseteq accepted,
               grants' = grants
        PROVE  GoogleBase' /\ Firm
    <2>1. GoogleRows' /\ GoogleServed'
      BY <1>0, <1>2 DEF GoogleBase, GoogleRows, GoogleServed
    <2> QED
      BY <1>2, <1>f, <2>1, BaseKept
  <1>3. ASSUME NEW d \in Disconnects,
               \/ \E i \in Identities, s \in Services : BeginDisconnect(d, i, s)
               \/ DeleteGrant(d) \/ FailDisconnect(d)
        PROVE  GoogleBase' /\ Firm
    <2>1. UNCHANGED <<consent, callback, connected, refresh, grants>> /\ accepted' \subseteq accepted
      BY <1>3 DEF BeginDisconnect, DeleteGrant, FailDisconnect
    <2>2. disconnect' \in [Disconnects -> DisconnectRows]
      <3>1. ASSUME NEW i \in Identities, NEW s \in Services, BeginDisconnect(d, i, s)
            PROVE  disconnect' \in [Disconnects -> DisconnectRows]
        <4>1. [at |-> "read", who |-> i, row |-> connected[i].row, service |-> s] \in DisconnectRows
          BY <1>0 DEF DisconnectRows, Pairs
        <4> QED
          BY <1>0, <3>1, <4>1 DEF BeginDisconnect
      <3>2. ASSUME DeleteGrant(d)
            PROVE  disconnect' \in [Disconnects -> DisconnectRows]
        <4>1. PICK at \in {"one", "last"} : disconnect' = [disconnect EXCEPT ![d].at = at]
          BY <3>2 DEF DeleteGrant
        <4>2. [disconnect[d] EXCEPT !.at = at] \in DisconnectRows
          BY <1>0 DEF DisconnectRows
        <4>3. disconnect' = [disconnect EXCEPT ![d] = [disconnect[d] EXCEPT !.at = at]]
          BY <1>0, <4>1
        <4> QED
          BY <1>0, <4>2, <4>3
      <3>3. ASSUME FailDisconnect(d)
            PROVE  disconnect' \in [Disconnects -> DisconnectRows]
        BY <1>0, <1>i, <3>3 DEF FailDisconnect
      <3> QED
        BY <1>3, <3>1, <3>2, <3>3
    <2> QED
      BY <1>2, <2>1, <2>2
  <1>4. ASSUME NEW d \in Disconnects, CommitDisconnect(d)
        PROVE  GoogleBase' /\ Firm
    <2> DEFINE i == disconnect[d].who
    <2>1. /\ UNCHANGED <<consent, callback, accepted, refresh>>
          /\ disconnect' = [disconnect EXCEPT ![d] = Idle]
      BY <1>4 DEF CommitDisconnect
    <2>2. \/ connected' = [connected EXCEPT ![i] = NoRow] /\ grants' = [grants EXCEPT ![i] = {}]
          \/ /\ grants' = [grants EXCEPT ![i] = grants[i] \ {disconnect[d].service}]
             /\ UNCHANGED connected
      BY <1>4 DEF CommitDisconnect
    <2>3. NoRow \in Pairs /\ NoRow.row = NoCallback /\ NoRow.token = NoCallback
      BY DEF NoRow, Pairs
    <2>4. /\ connected' \in [Identities -> Pairs] /\ grants' \in [Identities -> SUBSET Services]
          /\ \A j \in Identities : \/ connected'[j] = NoRow /\ grants'[j] = {}
                                   \/ connected'[j] = connected[j] /\ grants'[j] \subseteq grants[j]
      <3>1. CASE connected' = [connected EXCEPT ![i] = NoRow] /\ grants' = [grants EXCEPT ![i] = {}]
        BY <1>0, <2>3, <3>1
      <3>2. CASE /\ grants' = [grants EXCEPT ![i] = grants[i] \ {disconnect[d].service}]
                 /\ UNCHANGED connected
        BY <1>0, <3>2
      <3> QED
        BY <2>2, <3>1, <3>2
    <2>5. GoogleRows' /\ GoogleServed'
      BY <1>0, <1>i, <2>1, <2>4 DEF GoogleBase, GoogleRows, GoogleServed
    <2>6. ASSUME NEW j \in Identities
          PROVE  (connected'[j] = connected[j] /\ grants'[j] = grants[j]) \/ ConnectedOK(j)'
      <3>1. CASE connected'[j] = NoRow /\ grants'[j] = {}
        BY <2>3, <3>1 DEF ConnectedOK
      <3>2. CASE connected'[j] = connected[j] /\ grants'[j] \subseteq grants[j]
        <4>1. ConnectedOK(j)
          BY DEF GoogleBase
        <4> QED
          BY <2>1, <3>2, <4>1 DEF ConnectedOK, Pair, Kin, UserOf, Started
      <3> QED
        BY <2>4, <3>1, <3>2
    <2> QED
      BY <1>f, <2>1, <2>5, <2>6, BaseKept
  <1>5. ASSUME NEW t \in Refreshes, NEW i \in Identities, BeginRefresh(t, i)
        PROVE  GoogleBase' /\ Firm
    <2>1. /\ grants[i] # {} /\ UNCHANGED <<consent, callback, connected, grants, accepted, disconnect>>
          /\ refresh' = [refresh EXCEPT ![t] =
               [who |-> i, row |-> connected[i].row, token |-> connected[i].token]]
      BY <1>5 DEF BeginRefresh
    <2>2. PICK row, token : row = connected[i].row /\ token = connected[i].token
      OBVIOUS
    <2>3. Pair(i, row, token)
      BY <2>1, <2>2 DEF GoogleBase, ConnectedOK
    <2>4. /\ [who |-> i, row |-> connected[i].row, token |-> connected[i].token] \in RefreshRows
      BY <1>0 DEF RefreshRows, Pairs
    <2>5. /\ refresh' \in [Refreshes -> RefreshRows] /\ \A x \in Refreshes : x # t => refresh'[x] = refresh[x]
          /\ refresh'[t].who = i /\ refresh'[t].row = row /\ refresh'[t].token = token
      BY <1>0, <2>1, <2>2, <2>4
    <2>6. RefreshOK(t)'
      BY <2>1, <2>3, <2>5 DEF RefreshOK, Pair, Kin, UserOf, Started
    <2>7. GoogleRows' /\ GoogleServed'
      BY <1>0, <2>1, <2>5 DEF GoogleBase, GoogleRows, GoogleServed
    <2> QED
      BY <1>f, <2>1, <2>5, <2>6, <2>7, BaseKept
  <1>6. ASSUME NEW t \in Refreshes, EndRefresh(t)
        PROVE  GoogleBase' /\ Firm
    <2>1. /\ refresh[t].who # NoIdentity /\ UNCHANGED <<consent, callback, grants, accepted, disconnect>>
          /\ refresh' = [refresh EXCEPT ![t] = [who |-> NoIdentity, row |-> NoCallback, token |-> NoCallback]]
      BY <1>6 DEF EndRefresh
    <2>2. PICK i \in Identities : i = refresh[t].who
      BY <1>0, <2>1 DEF RefreshRows
    <2>3. PICK row, token : row = refresh[t].row /\ token = refresh[t].token
      OBVIOUS
    <2>4. Pair(i, row, token) /\ token \in Callbacks
      BY <2>1, <2>2, <2>3 DEF GoogleBase, RefreshOK, Pair, Kin
    <2>5. [who |-> NoIdentity, row |-> NoCallback, token |-> NoCallback] \in RefreshRows
      BY DEF RefreshRows
    <2>6. /\ refresh' \in [Refreshes -> RefreshRows] /\ \A x \in Refreshes : x # t => refresh'[x] = refresh[x]
          /\ refresh'[t].who = NoIdentity
      BY <1>0, <2>1, <2>5
    <2>7. RefreshOK(t)'
      BY <2>6 DEF RefreshOK
    <2>8. /\ connected' \in [Identities -> Pairs]
          /\ \A j \in Identities : j # i => connected'[j] = connected[j]
          /\ \/ connected'[i] = connected[i]
             \/ connected[i].row = row /\ connected'[i].row = row /\ connected'[i].token = token
      <3>1. CASE connected' = connected
        BY <1>0, <3>1
      <3>2. CASE connected[i].row = row /\ connected' = [connected EXCEPT ![i].token = token]
        <4>1. [connected[i] EXCEPT !.token = token] \in Pairs
          BY <1>0, <2>4 DEF Pairs
        <4>2. connected' = [connected EXCEPT ![i] = [connected[i] EXCEPT !.token = token]]
          BY <1>0, <3>2
        <4>3. /\ [connected[i] EXCEPT !.token = token].row = connected[i].row
              /\ [connected[i] EXCEPT !.token = token].token = token
          BY <1>0 DEF Pairs
        <4> QED
          BY <1>0, <3>2, <4>1, <4>2, <4>3
      <3> QED
        BY <1>6, <2>2, <2>3, <3>1, <3>2 DEF EndRefresh, Unchanged
    <2>9. ConnectedOK(i)' \/ connected'[i] = connected[i]
      <3>1. row # NoCallback
        BY <2>4, GoogleAssumption DEF Pair, Kin
      <3> QED
        BY <2>1, <2>4, <2>8, <3>1 DEF ConnectedOK, Pair, Kin, UserOf, Started
    <2>10. GoogleRows' /\ GoogleServed'
      BY <1>0, <2>1, <2>6, <2>8 DEF GoogleBase, GoogleRows, GoogleServed
    <2>11. \A j \in Identities : (connected'[j] = connected[j] /\ grants'[j] = grants[j]) \/ ConnectedOK(j)'
      BY <2>1, <2>8, <2>9 DEF ConnectedOK, Pair, Kin, UserOf, Started
    <2> QED
      BY <1>f, <2>1, <2>6, <2>7, <2>10, <2>11, BaseKept
  <1>7. CASE UNCHANGED googleVars
    BY <1>0, <1>2, <1>7 DEF googleVars
  <1> QED
    BY <1>1, <1>3, <1>4, <1>5, <1>6, <1>7

-----------------------------------------------------------------------------
(***************************************************************************)
(* Google: accounts that no two requests work on at once.  What keeps them *)
(* working is what the one request at work on them, and every refresh, has *)
(* read and will write.                                                    *)
(***************************************************************************)

\* A callback that may write to the row of an identity.
Handles(c, i) == callback[c].who = i /\ callback[c].at \in {"exchanged", "found"}

Alone(i) ==
  /\ \A c \in Callbacks, d \in Disconnects : ~(Handles(c, i) /\ disconnect[d].who = i)
  /\ \A c, e \in Callbacks : Handles(c, i) /\ Handles(e, i) => c = e
  /\ \A d, e \in Disconnects : disconnect[d].who = i /\ disconnect[e].who = i => d = e

\* Google has taken the tokens back, and the row is still there.
TakenBack(i) == \E d \in Disconnects : disconnect[d].who = i /\ disconnect[d].at = "last"

\* What a callback, a refresh and a disconnection are about to write is right.
Brings(c) ==
  /\ callback[c].at = "exchanged" => c \in accepted
  /\ callback[c].at = "found" => callback[c].token \in accepted

Returns(t, i) ==
  refresh[t].who = i /\ refresh[t].row = connected[i].row => refresh[t].token \in accepted

LeavesRight(d, i) ==
  disconnect[d].who = i =>
    /\ disconnect[d].at = "one" => grants[i] \ {disconnect[d].service} # {}
    /\ disconnect[d].at = "last" => connected[i].row = disconnect[d].row

Settled(i) ==
  /\ Alone(i)
  /\ connected[i].row # NoCallback => grants[i] # {}
  /\ ~TakenBack(i) => /\ connected[i].row # NoCallback => connected[i].token \in accepted
                      /\ \A t \in Refreshes : Returns(t, i)
  /\ \A c \in Callbacks : Handles(c, i) => Brings(c)
  /\ \A d \in Disconnects : LeavesRight(d, i)

GoogleInv == GoogleBase /\ \A i \in Identities \ unsettled : Settled(i)

\* A step that leaves the row of an identity alone, and what others are about to write to it.
LEMMA SettledKept ==
  ASSUME GoogleBase, NEW i \in Identities, Settled(i), Alone(i)',
         connected'[i] = connected[i], grants'[i] = grants[i],
         \A x \in accepted : callback[x].who = i => x \in accepted',
         \A c \in Callbacks : callback'[c] = callback[c] \/ ~Handles(c, i)' \/ Brings(c)',
         \A d \in Disconnects : \/ disconnect'[d] = disconnect[d]
                                \/ /\ disconnect'[d].who # i \/ disconnect'[d].at = "read"
                                   /\ disconnect[d].who = i => disconnect[d].at # "last",
         \A t \in Refreshes : \/ refresh'[t] = refresh[t] \/ refresh'[t].who # i
                              \/ /\ refresh'[t].token = connected[i].token
                                 /\ connected[i].row # NoCallback
  PROVE  Settled(i)'
  <1>1. TakenBack(i) => TakenBack(i)'
    BY DEF TakenBack
  <1>2. ~TakenBack(i)' => (connected'[i].row # NoCallback => connected'[i].token \in accepted')
    <2>1. connected[i].row # NoCallback =>
            connected[i].token \in Callbacks /\ callback[connected[i].token].who = i
      BY DEF GoogleBase, ConnectedOK, Pair, Kin
    <2> QED
      BY <1>1, <2>1 DEF Settled
  <1>3. ASSUME NEW t \in Refreshes, ~TakenBack(i)'
        PROVE  Returns(t, i)'
    <2>1. CASE refresh'[t] = refresh[t]
      <3>1. refresh[t].who = i => callback[refresh[t].token].who = i
        BY GoogleAssumption DEF GoogleBase, RefreshOK, Pair, Kin
      <3>2. Returns(t, i)
        BY <1>1, <1>3 DEF Settled
      <3> QED
        BY <2>1, <3>1, <3>2 DEF Returns
    <2>2. CASE refresh'[t].who # i
      BY <2>2 DEF Returns
    <2>3. CASE refresh'[t].token = connected[i].token /\ connected[i].row # NoCallback
      BY <1>2, <1>3, <2>3 DEF Returns
    <2> QED
      BY <2>1, <2>2, <2>3
  <1>4. ASSUME NEW c \in Callbacks, Handles(c, i)'
        PROVE  Brings(c)'
    <2>1. CASE callback'[c] = callback[c]
      <3>1. Handles(c, i) /\ Brings(c)
        BY <1>4, <2>1 DEF Handles, Settled
      <3>2. callback[c].at = "found" => callback[callback[c].token].who = i
        BY <3>1 DEF Handles, GoogleBase, CallbackOK, Kin
      <3> QED
        BY <2>1, <3>1, <3>2 DEF Handles, Brings
    <2> QED
      BY <1>4, <2>1
  <1>5. ASSUME NEW d \in Disconnects
        PROVE  LeavesRight(d, i)'
    <2>1. CASE disconnect'[d] = disconnect[d]
      BY <2>1 DEF Settled, LeavesRight
    <2>2. CASE disconnect'[d].who # i \/ disconnect'[d].at = "read"
      BY <2>2 DEF LeavesRight
    <2> QED
      BY <2>1, <2>2
  <1>6. connected'[i].row # NoCallback => grants'[i] # {}
    BY DEF Settled
  <1> QED
    BY <1>2, <1>3, <1>4, <1>5, <1>6 DEF Settled

\* An identity that stays settled has no two requests at work.
LEMMA AloneLater ==
  ASSUME NEW i \in Identities, i \notin unsettled',
         unsettled' = unsettled \cup {j \in Identities : Crowded(j)' \/ HalfDone(j)}
  PROVE  Alone(i)' /\ ~HalfDone(i) /\ i \notin unsettled
  <1>1. ~Crowded(i)' /\ ~HalfDone(i) /\ i \notin unsettled
    OBVIOUS
  <1>2. \A x, y : x \in AtWork(i)' /\ y \in AtWork(i)' => x = y
    BY <1>1 DEF Crowded
  <1>3. /\ \A c \in Callbacks : Handles(c, i)' => c \in AtWork(i)'
        /\ \A d \in Disconnects : disconnect'[d].who = i => d \in AtWork(i)'
    BY DEF AtWork, Handles
  <1>4. \A c \in Callbacks, d \in Disconnects : c # d
    BY GoogleAssumption
  <1>5. Alone(i)'
    BY <1>2, <1>3, <1>4 DEF Alone
  <1> QED
    BY <1>1, <1>5

\* Steps of callbacks that do not store.
LEMMA CallbackSettles ==
  ASSUME GoogleBase, NEW i \in Identities, Settled(i), Alone(i)', NEW c \in Callbacks,
         \/ \E f \in Consents, j \in Identities : BeginCallback(c, f, j)
         \/ UseConsent(c) \/ Exchange(c) \/ FindAccount(c) \/ FailCallback(c)
  PROVE  Settled(i)'
  <1>0. callback \in [Callbacks -> CallbackRows] /\ callback[c] \in CallbackRows
    BY DEF GoogleBase, GoogleRows
  <1>1. UNCHANGED <<connected, grants, disconnect, refresh>> /\ accepted \subseteq accepted'
    BY DEF BeginCallback, UseConsent, Exchange, FindAccount, FailCallback
  <1>2. ~Handles(c, i)' \/ Brings(c)'
    <2>1. CASE \E f \in Consents, j \in Identities : BeginCallback(c, f, j)
      <3>1. callback'[c].at = "read"
        BY <1>0, <2>1 DEF BeginCallback, Unstarted
      <3> QED
        BY <3>1 DEF Handles
    <2>2. CASE UseConsent(c) \/ FailCallback(c)
      <3>1. callback'[c].at \in {"used", "failed"}
        BY <1>0, <2>2 DEF UseConsent, FailCallback, CallbackRows
      <3> QED
        BY <3>1 DEF Handles
    <2>3. CASE Exchange(c)
      <3>1. callback'[c].at = "exchanged" /\ c \in accepted'
        BY <1>0, <2>3 DEF Exchange, CallbackRows
      <3> QED
        BY <3>1 DEF Brings
    <2>4. CASE FindAccount(c)
      <3>1. PICK j : j = callback[c].who
        OBVIOUS
      <3>2. /\ callback[c].at = "exchanged" /\ UNCHANGED accepted
            /\ \E token \in {c, connected[j].token} \ {NoCallback} :
                 callback' = [callback EXCEPT ![c].at = "found", ![c].row = connected[j].row,
                                              ![c].token = token]
        BY <2>4, <3>1 DEF FindAccount
      <3>3. PICK token \in {c, connected[j].token} \ {NoCallback} :
              callback' = [callback EXCEPT ![c].at = "found", ![c].row = connected[j].row,
                                           ![c].token = token]
        BY <3>2
      <3>4. callback'[c].at = "found" /\ callback'[c].token = token /\ callback'[c].who = j
        BY <1>0, <3>1, <3>3 DEF CallbackRows
      <3>5. ASSUME j = i
            PROVE  token \in accepted
        <4>1. Handles(c, i)
          BY <3>1, <3>2, <3>5 DEF Handles
        <4>2. c \in accepted
          BY <3>2, <4>1 DEF Settled, Brings
        <4>3. ~TakenBack(i)
          BY <4>1 DEF Settled, Alone, TakenBack
        <4>4. token # c => connected[i].row # NoCallback
          BY <3>3, <3>5 DEF GoogleBase, ConnectedOK
        <4> QED
          BY <3>3, <3>5, <4>2, <4>3, <4>4 DEF Settled
      <3> QED
        BY <3>2, <3>4, <3>5 DEF Handles, Brings
    <2> QED
      BY <2>1, <2>2, <2>3, <2>4
  <1>3. \A x \in Callbacks : x # c => callback'[x] = callback[x]
    BY <1>0 DEF BeginCallback, UseConsent, Exchange, FindAccount, FailCallback
  <1> QED
    BY <1>1, <1>2, <1>3, SettledKept

\* What is stored is accepted, and no refresh writes to a row that is new.
LEMMA StoreSettles ==
  ASSUME GoogleBase, GoogleBase', NEW i \in Identities, Settled(i), Alone(i)',
         NEW c \in Callbacks, Store(c),
         \A x \in Callbacks : x # c => callback'[x] = callback[x],
         callback'[c].at = "stored"
  PROVE  Settled(i)'
  <1>0. /\ callback[c].at = "found" /\ UNCHANGED <<consent, accepted, disconnect, refresh>>
        /\ connected \in [Identities -> Pairs] /\ grants \in [Identities -> SUBSET Services]
    BY DEF Store, GoogleBase, GoogleRows
  <1>b. ~Handles(c, i)'
    BY DEF Handles
  <1>1. CASE callback[c].who # i
    <2>1. connected'[i] = connected[i] /\ grants'[i] = grants[i]
      BY <1>0, <1>1 DEF Store
    <2> QED
      BY <1>0, <1>b, <2>1, SettledKept
  <1>2. CASE callback[c].who = i
    <2>1. PICK row, token : /\ row = (IF connected[i].row = NoCallback THEN c ELSE connected[i].row)
                            /\ token = callback[c].token
      OBVIOUS
    <2>2. /\ connected'[i] = [row |-> row, token |-> token]
          /\ grants'[i] = grants[i] \cup {consent[callback[c].of].service}
      <3>1. /\ connected' = [connected EXCEPT ![i] = [row |-> row, token |-> token]]
            /\ grants' = [grants EXCEPT ![i] = grants[i] \cup {consent[callback[c].of].service}]
        BY <1>0, <1>2, <2>1 DEF Store
      <3> QED
        BY <1>0, <3>1
    <2>3. Handles(c, i) /\ token \in accepted
      BY <1>0, <1>2, <2>1 DEF Handles, Settled, Brings
    <2>4. ~TakenBack(i) /\ \A d \in Disconnects : disconnect[d].who # i
      BY <2>3 DEF Settled, Alone, TakenBack
    <2>5. connected'[i].row = row /\ connected'[i].token = token /\ grants'[i] # {}
      BY <2>2
    <2>6. ASSUME NEW t \in Refreshes
          PROVE  Returns(t, i)'
      <3>1. CASE row = connected[i].row
        BY <1>0, <2>4, <2>5, <3>1 DEF Settled, Returns
      <3>2. CASE row = c
        <4>1. refresh[t].who = i => refresh[t].row # c
          BY <1>0, GoogleAssumption DEF GoogleBase, RefreshOK, Pair
        <4> QED
          BY <1>0, <2>5, <3>2, <4>1 DEF Returns
      <3> QED
        BY <2>1, <3>1, <3>2
    <2>7. ASSUME NEW x \in Callbacks, Handles(x, i)'
          PROVE  Brings(x)'
      <3>1. x # c
        BY <1>b, <2>7
      <3>2. Handles(x, i)
        BY <2>7, <3>1 DEF Handles
      <3> QED
        BY <2>3, <3>1, <3>2 DEF Settled, Alone
    <2>8. \A d \in Disconnects : LeavesRight(d, i)'
      BY <1>0, <2>4 DEF LeavesRight
    <2> QED
      BY <1>0, <2>3, <2>5, <2>6, <2>7, <2>8 DEF Settled
  <1> QED
    BY <1>1, <1>2

\* Disconnections: the last service takes the row with it, unless the request is stopped halfway.
LEMMA DisconnectSettles ==
  ASSUME GoogleBase, GoogleBase', NEW i \in Identities, Settled(i), Alone(i)', ~HalfDone(i),
         NEW d \in Disconnects,
         \/ \E j \in Identities, s \in Services : BeginDisconnect(d, j, s)
         \/ DeleteGrant(d) \/ CommitDisconnect(d) \/ FailDisconnect(d)
  PROVE  Settled(i)'
  <1>0. /\ disconnect \in [Disconnects -> DisconnectRows] /\ disconnect[d] \in DisconnectRows
        /\ connected \in [Identities -> Pairs] /\ grants \in [Identities -> SUBSET Services]
        /\ UNCHANGED <<consent, callback, refresh>>
        /\ \A e \in Disconnects : e # d => disconnect'[e] = disconnect[e]
    BY DEF BeginDisconnect, DeleteGrant, CommitDisconnect, FailDisconnect, GoogleBase, GoogleRows
  <1>n. Idle.who # i
    BY GoogleAssumption DEF Idle
  <1>1. CASE \E j \in Identities, s \in Services : BeginDisconnect(d, j, s)
    <2>1. /\ disconnect[d].at = "idle" /\ disconnect'[d].at = "read"
          /\ UNCHANGED <<connected, grants, accepted>>
      BY <1>0, <1>1 DEF BeginDisconnect
    <2> QED
      BY <1>0, <2>1, SettledKept
  <1>2. CASE FailDisconnect(d)
    <2>1. disconnect'[d] = Idle /\ UNCHANGED <<connected, grants, accepted>>
      BY <1>0, <1>2 DEF FailDisconnect
    <2>2. disconnect[d].who = i => disconnect[d].at # "last"
      BY <1>2 DEF HalfDone
    <2> QED
      BY <1>0, <1>n, <2>1, <2>2, SettledKept
  <1>3. CASE DeleteGrant(d)
    <2> DEFINE j == disconnect[d].who
               s == disconnect[d].service
    <2>1. /\ disconnect[d].at = "read" /\ connected[j].row = disconnect[d].row
          /\ disconnect' = [disconnect EXCEPT ![d].at = IF IsLast(j, s) THEN "last" ELSE "one"]
          /\ accepted' = (IF IsLast(j, s) THEN {c \in accepted : callback[c].who # j} ELSE accepted)
          /\ UNCHANGED <<connected, grants>>
      BY <1>3 DEF DeleteGrant, Unchanged
    <2>2. /\ disconnect'[d].at = IF IsLast(j, s) THEN "last" ELSE "one"
          /\ disconnect'[d].who = j /\ disconnect'[d].row = disconnect[d].row
          /\ disconnect'[d].service = s
      BY <1>0, <2>1 DEF DisconnectRows
    <2>3. CASE j # i
      BY <1>0, <2>1, <2>2, <2>3, SettledKept
    <2>4. CASE j = i
      <3>1. /\ \A e \in Disconnects : disconnect[e].who = i => e = d
            /\ \A c \in Callbacks : ~Handles(c, i)
        BY <2>4 DEF Settled, Alone
      <3>2. ~TakenBack(i)
        BY <2>1, <3>1 DEF TakenBack
      <3>3. ~TakenBack(i)' => accepted' = accepted
        BY <2>1, <2>2, <2>4 DEF TakenBack
      <3>4. ~TakenBack(i)' => /\ connected'[i].row # NoCallback => connected'[i].token \in accepted'
                              /\ \A t \in Refreshes : Returns(t, i)'
        BY <1>0, <2>1, <3>2, <3>3 DEF Settled, Returns
      <3>5. \A c \in Callbacks : ~Handles(c, i)'
        BY <1>0, <3>1 DEF Handles
      <3>6. \A e \in Disconnects : LeavesRight(e, i)'
        <4>1. LeavesRight(d, i)'
          BY <2>1, <2>2, <2>4 DEF LeavesRight, IsLast
        <4>2. \A e \in Disconnects : e # d => LeavesRight(e, i)'
          BY <1>0, <2>1, <3>1 DEF LeavesRight
        <4> QED
          BY <4>1, <4>2
      <3>7. connected'[i].row # NoCallback => grants'[i] # {}
        BY <2>1 DEF Settled
      <3> QED
        BY <3>4, <3>5, <3>6, <3>7 DEF Settled
    <2> QED
      BY <2>3, <2>4
  <1>4. CASE CommitDisconnect(d)
    <2>1. PICK j, s : j = disconnect[d].who /\ s = disconnect[d].service
      OBVIOUS
    <2>2. /\ disconnect'[d] = Idle /\ UNCHANGED accepted
          /\ disconnect[d].at \in {"one", "last"}
      BY <1>0, <1>4 DEF CommitDisconnect
    <2>3. IF disconnect[d].at = "last" /\ connected[j].row = disconnect[d].row
          THEN connected' = [connected EXCEPT ![j] = NoRow] /\ grants' = [grants EXCEPT ![j] = {}]
          ELSE grants' = [grants EXCEPT ![j] = grants[j] \ {s}] /\ UNCHANGED connected
      BY <1>4, <2>1 DEF CommitDisconnect, Unchanged
    <2>4. CASE j # i
      <3>1. connected'[i] = connected[i] /\ grants'[i] = grants[i]
        BY <1>0, <2>3, <2>4
      <3> QED
        BY <1>0, <1>n, <2>1, <2>2, <2>4, <3>1, SettledKept
    <2>5. CASE j = i
      <3>1. /\ \A e \in Disconnects : disconnect[e].who = i => e = d
            /\ \A c \in Callbacks : ~Handles(c, i)
        BY <2>1, <2>5 DEF Settled, Alone
      <3>2. /\ \A e \in Disconnects : disconnect'[e].who # i
            /\ \A c \in Callbacks : ~Handles(c, i)'
        BY <1>0, <1>n, <2>2, <3>1 DEF Handles
      <3>3. CASE disconnect[d].at = "last"
        <4>1. connected[i].row = disconnect[d].row
          BY <2>1, <2>5, <3>3 DEF Settled, LeavesRight
        <4>2. connected'[i].row = NoCallback
          BY <1>0, <2>3, <2>5, <3>3, <4>1 DEF NoRow
        <4>3. \A t \in Refreshes : Returns(t, i)'
          <5>1. \A t \in Refreshes : refresh'[t].who = i => refresh'[t].row # NoCallback
            BY GoogleAssumption DEF GoogleBase, RefreshOK, Pair, Kin
          <5> QED
            BY <4>2, <5>1 DEF Returns
        <4> QED
          BY <3>2, <4>2, <4>3 DEF Settled, LeavesRight
      <3>4. CASE disconnect[d].at = "one"
        <4>1. grants'[i] # {} /\ connected' = connected
          BY <1>0, <2>1, <2>3, <2>5, <3>4 DEF Settled, LeavesRight
        <4>2. ~TakenBack(i)
          BY <3>1, <3>4 DEF TakenBack
        <4>3. \A t \in Refreshes : Returns(t, i)'
          BY <1>0, <2>2, <4>1, <4>2 DEF Settled, Returns
        <4> QED
          BY <2>2, <3>2, <4>1, <4>2, <4>3 DEF Settled, LeavesRight
      <3> QED
        BY <2>2, <3>3, <3>4
    <2> QED
      BY <2>4, <2>5
  <1> QED
    BY <1>1, <1>2, <1>3, <1>4

\* Refreshes: what is written back is what the row has held.
LEMMA RefreshSettles ==
  ASSUME GoogleBase, NEW i \in Identities, Settled(i), Alone(i)', NEW t \in Refreshes,
         EndRefresh(t) \/ \E j \in Identities : BeginRefresh(t, j)
  PROVE  Settled(i)'
  <1>0. /\ refresh \in [Refreshes -> RefreshRows] /\ connected \in [Identities -> Pairs]
        /\ UNCHANGED <<consent, callback, grants, accepted, disconnect>>
        /\ \A x \in Refreshes : x # t => refresh'[x] = refresh[x]
    BY DEF GoogleBase, GoogleRows, EndRefresh, BeginRefresh
  <1>1. ASSUME NEW j \in Identities, BeginRefresh(t, j)
        PROVE  Settled(i)'
    <2>1. /\ UNCHANGED connected /\ refresh'[t].who = j /\ refresh'[t].token = connected[j].token
          /\ grants[j] # {}
      BY <1>0, <1>1 DEF BeginRefresh
    <2>2. connected[j].row # NoCallback
      BY <2>1 DEF GoogleBase, ConnectedOK
    <2> QED
      BY <1>0, <2>1, <2>2, SettledKept
  <1>2. CASE EndRefresh(t)
    <2>1. PICK j, row, token : j = refresh[t].who /\ row = refresh[t].row /\ token = refresh[t].token
      OBVIOUS
    <2>2. /\ refresh'[t].who = NoIdentity
          /\ connected' = IF connected[j].row = row
                          THEN [connected EXCEPT ![j].token = token] ELSE connected
      BY <1>0, <1>2, <2>1 DEF EndRefresh, Unchanged
    <2>n. refresh'[t].who # i
      BY <2>2, GoogleAssumption
    <2>3. CASE connected'[i] = connected[i]
      BY <1>0, <2>n, <2>3, SettledKept
    <2>4. CASE j = i /\ connected[i].row = row
      <3>1. connected'[i].row = connected[i].row /\ connected'[i].token = token
        BY <1>0, <2>2, <2>4 DEF Pairs
      <3>2. TakenBack(i)' = TakenBack(i) /\ (\A d \in Disconnects : LeavesRight(d, i)')
        BY <1>0, <3>1 DEF TakenBack, Settled, LeavesRight
      <3>3. ~TakenBack(i) => token \in accepted
        BY <2>1, <2>4 DEF Settled, Returns
      <3>4. ~TakenBack(i) => \A x \in Refreshes : Returns(x, i)'
        BY <1>0, <2>n, <3>1 DEF Settled, Returns
      <3>5. \A c \in Callbacks : Handles(c, i)' => Brings(c)'
        BY <1>0 DEF Settled, Handles, Brings
      <3>6. connected'[i].row # NoCallback => grants'[i] # {}
        BY <1>0, <3>1 DEF Settled
      <3> QED
        BY <1>0, <3>1, <3>2, <3>3, <3>4, <3>5, <3>6 DEF Settled
    <2>5. connected'[i] = connected[i] \/ (j = i /\ connected[i].row = row)
      BY <1>0, <2>2
    <2> QED
      BY <2>3, <2>4, <2>5
  <1> QED
    BY <1>1, <1>2

\* GoogleInv holds at first.
LEMMA GoogleInitially == GoogleInit => GoogleInv
  <1> SUFFICES ASSUME GoogleInit
               PROVE  GoogleInv
    OBVIOUS
  <1>1. GoogleRows
    BY DEF GoogleInit, GoogleRows, Consentings, CallbackRows, Pairs, DisconnectRows, RefreshRows,
           Unstarted, NoRow, Idle
  <1>2. /\ \A c \in Callbacks : callback[c].at = "none"
        /\ \A i \in Identities : connected[i].row = NoCallback /\ connected[i].token = NoCallback
                                 /\ grants[i] = {}
        /\ \A t \in Refreshes : refresh[t].who = NoIdentity
        /\ \A f \in Consents : consent[f].user = NoOwner
        /\ \A d \in Disconnects : disconnect[d].who = NoIdentity
    BY DEF GoogleInit, Unstarted, NoRow, Idle
  <1>3. GoogleBase
    BY <1>1, <1>2 DEF GoogleBase, GoogleServed, CallbackOK, Started, ConnectedOK, RefreshOK
  <1>4. ASSUME NEW i \in Identities
        PROVE  Settled(i)
    <2>1. i # NoIdentity
      BY GoogleAssumption
    <2> QED
      BY <1>2, <2>1 DEF Settled, Alone, Handles, Brings, Returns, LeavesRight
  <1> QED
    BY <1>3, <1>4 DEF GoogleInv

\* Every step keeps it.
LEMMA GoogleKeeps == GoogleInv /\ [GoogleNext]_googleVars => GoogleInv'
  <1> SUFFICES ASSUME GoogleInv, [GoogleNext]_googleVars
               PROVE  GoogleInv'
    OBVIOUS
  <1>0. GoogleBase /\ \A i \in Identities \ unsettled : Settled(i)
    BY DEF GoogleInv
  <1>u. unsettled' \subseteq Identities
    BY <1>0 DEF GoogleNext, googleVars, GoogleBase, GoogleRows
  <1>s. CASE UNCHANGED googleVars
    <2>1. GoogleBase'
      BY <1>0, <1>s, <1>u, OtherBase
    <2>2. ASSUME NEW i \in Identities, i \notin unsettled'
          PROVE  Settled(i)'
      <3>1. Settled(i) /\ Alone(i)'
        BY <1>0, <1>s, <2>2 DEF Settled, Alone, Handles, googleVars
      <3> QED
        BY <1>0, <1>s, <3>1, SettledKept DEF googleVars
    <2> QED
      BY <2>1, <2>2 DEF GoogleInv
  <1>n. CASE GoogleNext
    <2>a. \A i \in Identities : i \notin unsettled' =>
            Alone(i)' /\ ~HalfDone(i) /\ i \notin unsettled /\ Settled(i)
      BY <1>0, <1>n, AloneLater DEF GoogleNext
    <2>1. ASSUME NEW f \in Consents, NEW u \in Owners, NEW s \in Services, Authorize(f, u, s)
          PROVE  GoogleInv'
      <3>1. GoogleBase'
        BY <1>0, <1>u, <2>1, OtherBase
      <3>2. ASSUME NEW i \in Identities, i \notin unsettled'
            PROVE  Settled(i)'
        <4>1. UNCHANGED <<callback, connected, grants, accepted, disconnect, refresh>>
          BY <2>1 DEF Authorize
        <4> QED
          BY <1>0, <2>a, <3>2, <4>1, SettledKept
      <3> QED
        BY <3>1, <3>2 DEF GoogleInv
    <2>2. ASSUME NEW c \in Callbacks,
                 \/ \E f \in Consents, i \in Identities : BeginCallback(c, f, i)
                 \/ UseConsent(c) \/ Exchange(c) \/ FindAccount(c) \/ FailCallback(c)
          PROVE  GoogleInv'
      <3>1. GoogleBase'
        BY <1>0, <1>u, <2>2, CallbackBase, FindBase
      <3>2. \A i \in Identities : i \notin unsettled' => Settled(i)'
        BY <1>0, <2>a, <2>2, CallbackSettles
      <3> QED
        BY <3>1, <3>2 DEF GoogleInv
    <2>3. ASSUME NEW c \in Callbacks, Store(c)
          PROVE  GoogleInv'
      <3>1. /\ GoogleBase' /\ callback'[c].at = "stored"
            /\ \A x \in Callbacks : x # c => callback'[x] = callback[x]
        BY <1>0, <1>u, <2>3, StoreBase
      <3>2. \A i \in Identities : i \notin unsettled' => Settled(i)'
        BY <1>0, <2>a, <2>3, <3>1, StoreSettles
      <3> QED
        BY <3>1, <3>2 DEF GoogleInv
    <2>4. ASSUME NEW d \in Disconnects,
                 \/ \E i \in Identities, s \in Services : BeginDisconnect(d, i, s)
                 \/ DeleteGrant(d) \/ CommitDisconnect(d) \/ FailDisconnect(d)
          PROVE  GoogleInv'
      <3>1. GoogleBase'
        BY <1>0, <1>u, <2>4, OtherBase
      <3>2. \A i \in Identities : i \notin unsettled' => Settled(i)'
        BY <1>0, <2>a, <2>4, <3>1, DisconnectSettles
      <3> QED
        BY <3>1, <3>2 DEF GoogleInv
    <2>5. ASSUME NEW t \in Refreshes, EndRefresh(t) \/ \E i \in Identities : BeginRefresh(t, i)
          PROVE  GoogleInv'
      <3>1. GoogleBase'
        BY <1>0, <1>u, <2>5, OtherBase
      <3>2. \A i \in Identities : i \notin unsettled' => Settled(i)'
        BY <1>0, <2>a, <2>5, RefreshSettles
      <3> QED
        BY <3>1, <3>2 DEF GoogleInv
    <2> QED
      BY <1>n, <2>1, <2>2, <2>3, <2>4, <2>5 DEF GoogleNext
  <1> QED
    BY <1>n, <1>s

\* What the invariant says of the connected accounts.
LEMMA GoogleSays == GoogleInv => ConnectionsAreTheUsers /\ GoogleTypeOK
  <1> SUFFICES ASSUME GoogleInv
               PROVE  ConnectionsAreTheUsers /\ GoogleTypeOK
    OBVIOUS
  <1>0. GoogleBase /\ \A i \in Identities \ unsettled : Settled(i)
    BY DEF GoogleInv
  <1>r. ASSUME NEW i \in Identities
        PROVE  connected[i] = NoRow <=> connected[i].row = NoCallback
    BY <1>0 DEF GoogleBase, GoogleRows, Pairs, ConnectedOK, NoRow
  <1>1. TokensAreTheOwners
    BY <1>0, <1>r DEF TokensAreTheOwners, GoogleBase, ConnectedOK, Pair, Kin
  <1>2. ASSUME NEW i \in Identities \ unsettled
        PROVE  /\ connected[i] = NoRow <=> grants[i] = {}
               /\ connected[i] # NoRow /\ AtWork(i) = {} => connected[i].token \in accepted
    <2>1. Settled(i) /\ ConnectedOK(i) /\ (connected[i] = NoRow <=> connected[i].row = NoCallback)
      BY <1>0, <1>r DEF GoogleBase
    <2>2. AtWork(i) = {} => ~TakenBack(i)
      BY DEF AtWork, TakenBack
    <2> QED
      BY <2>1, <2>2 DEF Settled, ConnectedOK
  <1>3. GoogleTypeOK
    <2>1. GoogleRows
      BY <1>0 DEF GoogleBase
    <2>2. ASSUME NEW c \in Callbacks
          PROVE  /\ callback[c].at \in {"none", "read", "used", "exchanged", "found", "stored", "failed"}
                 /\ callback[c].of \in Consents \cup {NoConsent}
                 /\ callback[c].who \in Identities \cup {NoIdentity}
                 /\ {callback[c].row, callback[c].token} \subseteq Callbacks \cup {NoCallback}
      <3>1. callback[c] \in CallbackRows
        BY <2>1 DEF GoogleRows
      <3> QED
        BY <3>1 DEF CallbackRows
    <2> QED
      BY <2>1, <2>2 DEF GoogleTypeOK, GoogleRows, Consentings, Pairs, DisconnectRows, RefreshRows
  <1> QED
    BY <1>1, <1>2, <1>3 DEF ConnectionsAreTheUsers, SettledAccountsWork

\* The connection of an identity is its owner's, through all overlaps of complete_google_oauth,
\* disconnect_google_integration and get_valid_google_access_token; and where no two requests
\* overlapped, an account keeps a service and a token that Google accepts, or it is gone.
THEOREM ConnectionsKept == GoogleSpec => []ConnectionsAreTheUsers
  <1> QED
    BY GoogleInitially, GoogleKeeps, GoogleSays, PTL DEF GoogleSpec

\* The rows, the requests and the tokens of services/integrations.py stay of their types.
THEOREM GoogleTypes == GoogleSpec => []GoogleTypeOK
  <1> QED
    BY GoogleInitially, GoogleKeeps, GoogleSays, PTL DEF GoogleSpec

(***************************************************************************)
(* The waiting list.                                                       *)
(***************************************************************************)
WaitlistSpec == WaitlistInit /\ [][WaitlistNext]_waitlistVars

Places == [email : Signups, by : Signups \cup {NoSignup}]
Joins  == [at : {"idle", "found"}, email : Signups \cup {NoSignup}, by : Signups \cup {NoSignup}]

\* The referrer a join has found is queued, and stays so.
RefersToQueued ==
  \A r \in Requests :
    request[r].at = "found" => request[r].email \in Signups /\ request[r].by \in Queued \cup {NoSignup}

\* What a rule counts is the end of what it let through; the rest is a window old.
Remembers(counted, let, rule, now) ==
  /\ Len(counted) <= Len(let)
  /\ \A i \in 1..Len(counted) : counted[i] = let[Len(let) - Len(counted) + i]
  /\ \A i \in 1..(Len(let) - Len(counted)) : let[i] + Window(rule) <= now

\* What was let through is of the past, and never more than the limit in a window.
Spread(let, rule, now) ==
  /\ \A i \in 1..Len(let) : let[i] <= now
  /\ \A i \in 1..Len(let) :
       i > RuleLimit(rule) => let[i - RuleLimit(rule)] + Window(rule) <= let[i]

CountsInv ==
  \A rule \in Rules, k \in Keys :
    /\ Remembers(attempts[rule][k], admitted[rule][k], rule, tick)
    /\ Spread(admitted[rule][k], rule, tick)

WaitlistInv == WaitlistTypeOK /\ RefersToQueued /\ QueuedInOrder /\ CountsInv

\* A set of positions has a first one.
LEMMA MinOf ==
  ASSUME NEW T, T \subseteq Nat, T # {}
  PROVE  Min(T) \in T /\ \A y \in T : Min(T) <= y
  <1>1. T \subseteq Nat /\ T # {}
    OBVIOUS
  <1>2. PICK m \in T : \A y \in T : ~(<<y, m>> \in OpToRel(<, Nat))
    BY <1>1, NatLessThanWellFounded, WFMin
  <1>3. \A y \in T : ~(y < m)
    BY <1>1, <1>2 DEF OpToRel
  <1>4. \A y \in T : m <= y
    BY <1>1, <1>3
  <1> QED
    BY <1>4 DEF Min

\* The windows and the limits are numbers.
LEMMA RuleNumbers ==
  ASSUME NEW rule \in Rules
  PROVE  Window(rule) \in Nat \ {0} /\ RuleLimit(rule) \in Nat \ {0}
  <1>1. Window(rule) \in Nat \ {0}
    BY WaitlistAssumption DEF Window
  <1>2. CASE rule = "minute"
    <2>1. RuleLimit(rule) = PerMinute
      BY <1>2 DEF RuleLimit
    <2> QED
      BY <1>1, <2>1, WaitlistAssumption
  <1>3. CASE rule = "hour"
    <2>1. RuleLimit(rule) = PerHour
      BY <1>3 DEF RuleLimit
    <2> QED
      BY <1>1, <2>1, WaitlistAssumption
  <1>4. CASE rule = "address"
    <2>1. RuleLimit(rule) = PerAddress
      BY <1>4 DEF RuleLimit
    <2> QED
      BY <1>1, <2>1, WaitlistAssumption
  <1> QED
    BY <1>2, <1>3, <1>4 DEF Rules

\* To forget what is old is to remember what is not.
LEMMA CountedOK ==
  ASSUME NEW times \in Seq(0..LastTick), NEW let \in Seq(0..LastTick), NEW rule \in Rules,
         tick \in 0..LastTick, Remembers(times, let, rule, tick)
  PROVE  /\ Counted(times, rule) \in Seq(0..LastTick)
         /\ Remembers(Counted(times, rule), let, rule, tick)
  <1> DEFINE young == {i \in DOMAIN times : times[i] + Window(rule) > tick}
  <1>1. Counted(times, rule) = IF young = {} THEN <<>> ELSE SubSeq(times, Min(young), Len(times))
    BY DEF Counted
  <1>2. /\ young \subseteq 1..Len(times) /\ Len(times) \in Nat /\ Len(let) \in Nat
        /\ \A i \in 1..Len(times) : times[i] \in 0..LastTick
        /\ Window(rule) \in Nat /\ tick \in Nat
    <2>1. \A i \in 1..Len(times) : times[i] \in 0..LastTick
      BY ElementOfSeq
    <2> QED
      BY <2>1, RuleNumbers
  <1>3. \A i \in 1..Len(times) : i \notin young => times[i] + Window(rule) <= tick
    BY <1>2
  <1> HIDE DEF young
  <1>4. /\ Len(times) <= Len(let)
        /\ \A i \in 1..Len(times) : times[i] = let[Len(let) - Len(times) + i]
        /\ \A i \in 1..(Len(let) - Len(times)) : let[i] + Window(rule) <= tick
    BY DEF Remembers
  <1>5. ASSUME NEW p \in 0..Len(times), \A i \in 1..p : i \notin young
        PROVE  \A i \in 1..(Len(let) - Len(times) + p) : let[i] + Window(rule) <= tick
    <2> SUFFICES ASSUME NEW i \in 1..(Len(let) - Len(times) + p)
                 PROVE  let[i] + Window(rule) <= tick
      OBVIOUS
    <2>1. CASE i <= Len(let) - Len(times)
      BY <1>2, <1>4, <2>1
    <2>2. CASE i > Len(let) - Len(times)
      <3>1. PICK q \in 1..p : i = Len(let) - Len(times) + q
        <4>1. i - (Len(let) - Len(times)) \in 1..p
          BY <1>2, <2>2
        <4> QED
          BY <1>2, <4>1
      <3>2. q \in 1..Len(times) /\ times[q] = let[i] /\ q \notin young
        BY <1>2, <1>4, <1>5, <3>1
      <3> QED
        BY <1>3, <3>2
    <2> QED
      BY <1>2, <2>1, <2>2
  <1>6. CASE young = {}
    <2>1. Counted(times, rule) = <<>>
      BY <1>1, <1>6
    <2>2. \A i \in 1..Len(let) : let[i] + Window(rule) <= tick
      <3>1. \A i \in 1..(Len(let) - Len(times) + Len(times)) : let[i] + Window(rule) <= tick
        BY <1>2, <1>5, <1>6
      <3> QED
        BY <1>2, <3>1
    <2>3. Len(<<>>) = 0 /\ <<>> \in Seq(0..LastTick)
      OBVIOUS
    <2>4. Remembers(<<>>, let, rule, tick)
      BY <1>2, <2>2, <2>3 DEF Remembers
    <2> QED
      BY <2>1, <2>3, <2>4
  <1>7. CASE young # {}
    <2>1. PICK m \in young : m = Min(young) /\ \A y \in young : m <= y
      <3>1. young \subseteq Nat
        BY <1>2
      <3>2. Min(young) \in young /\ \A y \in young : Min(young) <= y
        BY <1>7, <3>1, MinOf
      <3> QED
        BY <3>2
    <2>2. m \in 1..Len(times)
      BY <1>2, <2>1
    <2>3. PICK rest : rest = SubSeq(times, m, Len(times))
      OBVIOUS
    <2>4. \A i \in m..Len(times) : times[i] \in 0..LastTick
      BY <1>2, <2>2
    <2>5. /\ rest \in Seq(0..LastTick) /\ Len(rest) = Len(times) - m + 1
          /\ \A i \in 1..Len(rest) : rest[i] = times[m + i - 1]
      BY <1>2, <2>2, <2>3, <2>4, SubSeqProperties
    <2>6. \A i \in 1..(m - 1) : i \notin young
      BY <1>2, <2>1, <2>2
    <2>7. \A i \in 1..(Len(let) - Len(times) + (m - 1)) : let[i] + Window(rule) <= tick
      <3>1. m - 1 \in 0..Len(times)
        BY <1>2, <2>2
      <3> QED
        BY <1>5, <2>6, <3>1
    <2>8. \A i \in 1..Len(rest) : rest[i] = let[Len(let) - Len(rest) + i]
      <3> SUFFICES ASSUME NEW i \in 1..Len(rest)
                   PROVE  rest[i] = let[Len(let) - Len(rest) + i]
        OBVIOUS
      <3>1. m + i - 1 \in 1..Len(times) /\ rest[i] = times[m + i - 1]
        BY <1>2, <2>2, <2>5
      <3>2. Len(let) - Len(times) + (m + i - 1) = Len(let) - Len(rest) + i
        BY <1>2, <2>2, <2>5
      <3> QED
        BY <1>4, <3>1, <3>2
    <2>9. Remembers(rest, let, rule, tick)
      <3>1. Len(rest) <= Len(let) /\ Len(let) - Len(rest) = Len(let) - Len(times) + (m - 1)
        BY <1>2, <1>4, <2>2, <2>5
      <3> QED
        BY <2>7, <2>8, <3>1 DEF Remembers
    <2> QED
      BY <1>1, <1>7, <2>1, <2>3, <2>5, <2>9
  <1> QED
    BY <1>6, <1>7

\* What is let through below the limit is a window later than the one a limit before it.
LEMMA LeavesOK ==
  ASSUME NEW counted \in Seq(0..LastTick), NEW let \in Seq(0..LastTick), NEW rule \in Rules,
         NEW now \in 0..LastTick, Remembers(counted, let, rule, now), Spread(let, rule, now),
         Leaves(rule, counted)
  PROVE  /\ Append(counted, now) \in Seq(0..LastTick) /\ Append(let, now) \in Seq(0..LastTick)
         /\ Remembers(Append(counted, now), Append(let, now), rule, now)
         /\ Spread(Append(let, now), rule, now)
  <1>1. PICK c, s : c = Append(counted, now) /\ s = Append(let, now)
    OBVIOUS
  <1>2. /\ Len(counted) \in Nat /\ Len(let) \in Nat
        /\ c \in Seq(0..LastTick) /\ Len(c) = Len(counted) + 1 /\ c[Len(counted) + 1] = now
        /\ \A i \in 1..Len(counted) : c[i] = counted[i]
        /\ s \in Seq(0..LastTick) /\ Len(s) = Len(let) + 1 /\ s[Len(let) + 1] = now
        /\ \A i \in 1..Len(let) : s[i] = let[i]
    BY <1>1
  <1>3. /\ Len(counted) <= Len(let)
        /\ \A i \in 1..Len(counted) : counted[i] = let[Len(let) - Len(counted) + i]
        /\ \A i \in 1..(Len(let) - Len(counted)) : let[i] + Window(rule) <= now
    BY DEF Remembers
  <1>4. /\ RuleLimit(rule) \in Nat \ {0} /\ Window(rule) \in Nat
        /\ Len(counted) < RuleLimit(rule) /\ now \in Nat
    BY RuleNumbers DEF Leaves
  <1>5. Remembers(c, s, rule, now)
    <2>1. Len(c) <= Len(s) /\ Len(s) - Len(c) = Len(let) - Len(counted)
      BY <1>2, <1>3
    <2>2. \A i \in 1..Len(c) : c[i] = s[Len(s) - Len(c) + i]
      <3> SUFFICES ASSUME NEW i \in 1..Len(c)
                   PROVE  c[i] = s[Len(let) - Len(counted) + i]
        BY <2>1
      <3>1. CASE i = Len(counted) + 1
        <4>1. Len(let) - Len(counted) + i = Len(let) + 1
          BY <1>2, <3>1
        <4> QED
          BY <1>2, <3>1, <4>1
      <3>2. CASE i \in 1..Len(counted)
        <4>1. Len(let) - Len(counted) + i \in 1..Len(let)
          BY <1>2, <1>3, <3>2
        <4> QED
          BY <1>2, <1>3, <3>2, <4>1
      <3> QED
        BY <1>2, <3>1, <3>2
    <2>3. \A i \in 1..(Len(s) - Len(c)) : s[i] + Window(rule) <= now
      <3> SUFFICES ASSUME NEW i \in 1..(Len(let) - Len(counted))
                   PROVE  s[i] + Window(rule) <= now
        BY <2>1
      <3>1. i \in 1..Len(let)
        BY <1>2, <1>3
      <3> QED
        BY <1>2, <1>3, <3>1
    <2> QED
      BY <2>1, <2>2, <2>3 DEF Remembers
  <1>6. Spread(s, rule, now)
    <2>1. \A i \in 1..Len(let) : let[i] <= now
      BY DEF Spread
    <2>2. \A i \in 1..Len(s) : s[i] <= now
      BY <1>2, <1>4, <2>1
    <2>3. ASSUME NEW i \in 1..Len(s), i > RuleLimit(rule)
          PROVE  s[i - RuleLimit(rule)] + Window(rule) <= s[i]
      <3>1. i - RuleLimit(rule) \in 1..Len(let)
        BY <1>2, <1>4, <2>3
      <3>2. s[i - RuleLimit(rule)] = let[i - RuleLimit(rule)]
        BY <1>2, <3>1
      <3>3. CASE i = Len(let) + 1
        <4>1. i - RuleLimit(rule) \in 1..(Len(let) - Len(counted))
          BY <1>2, <1>3, <1>4, <3>1, <3>3
        <4> QED
          BY <1>2, <1>3, <3>2, <3>3, <4>1
      <3>4. CASE i \in 1..Len(let)
        BY <1>2, <2>3, <3>2, <3>4 DEF Spread
      <3> QED
        BY <1>2, <3>3, <3>4
    <2> QED
      BY <2>2, <2>3 DEF Spread
  <1> QED
    BY <1>1, <1>2, <1>5, <1>6

\* The tables of times, before and after an attempt, key by key.
Table(f) == f \in [Rules -> [Keys -> Seq(0..LastTick)]]

\* An attempt that is let through is counted by every rule.
LEMMA AdmitOK ==
  ASSUME WaitlistTypeOK, CountsInv, NEW client \in Clients, NEW address \in Signups,
         Admit(client, address)
  PROVE  /\ Table(attempts') /\ Table(admitted')
         /\ \A rule \in Rules, k \in Keys :
              /\ Remembers(attempts'[rule][k], admitted'[rule][k], rule, tick)
              /\ Spread(admitted'[rule][k], rule, tick)
  <1>1. Table(attempts) /\ Table(admitted) /\ tick \in 0..LastTick
    BY DEF WaitlistTypeOK, Table
  <1>2. ASSUME NEW rule \in Rules
        PROVE  KeyOf(rule, client, address) \in Keys
    BY DEF KeyOf, Keys
  <1>3. ASSUME NEW rule \in Rules, NEW k \in Keys
        PROVE  /\ attempts[rule][k] \in Seq(0..LastTick) /\ admitted[rule][k] \in Seq(0..LastTick)
               /\ Remembers(attempts[rule][k], admitted[rule][k], rule, tick)
               /\ Spread(admitted[rule][k], rule, tick)
    BY <1>1 DEF Table, CountsInv
  <1> DEFINE Times(rule) == Counted(attempts[rule][KeyOf(rule, client, address)], rule)
             Old(rule)  == admitted[rule][KeyOf(rule, client, address)]
  <1>4. ASSUME NEW rule \in Rules
        PROVE  /\ Append(Times(rule), tick) \in Seq(0..LastTick)
               /\ Append(Old(rule), tick) \in Seq(0..LastTick)
               /\ Remembers(Append(Times(rule), tick), Append(Old(rule), tick), rule, tick)
               /\ Spread(Append(Old(rule), tick), rule, tick)
    <2>1. Times(rule) \in Seq(0..LastTick) /\ Remembers(Times(rule), Old(rule), rule, tick)
      BY <1>1, <1>2, <1>3, CountedOK
    <2>2. Old(rule) \in Seq(0..LastTick) /\ Spread(Old(rule), rule, tick)
      BY <1>2, <1>3
    <2>3. Leaves(rule, Times(rule))
      BY DEF Admit, Allows
    <2> HIDE DEF Times, Old
    <2> QED
      BY <1>1, <2>1, <2>2, <2>3, LeavesOK
  <1>5. /\ attempts' = [rule \in Rules |-> [attempts[rule] EXCEPT ![KeyOf(rule, client, address)] =
                          Append(Times(rule), tick)]]
        /\ admitted' = [rule \in Rules |-> [admitted[rule] EXCEPT ![KeyOf(rule, client, address)] =
                          Append(Old(rule), tick)]]
    <2>1. attempts' = [rule \in Rules |-> [attempts[rule] EXCEPT ![KeyOf(rule, client, address)] =
                         Append(Times(rule), tick)]]
      BY <1>1, <1>2 DEF Admit, Count, Table
    <2>2. admitted' = [rule \in Rules |-> [admitted[rule] EXCEPT ![KeyOf(rule, client, address)] =
                         Append(Old(rule), tick)]]
      BY <1>1, <1>2 DEF Admit, Table
    <2> QED
      BY <2>1, <2>2
  <1> HIDE DEF Times, Old
  <1>6. ASSUME NEW rule \in Rules
        PROVE  /\ attempts'[rule] = [attempts[rule] EXCEPT ![KeyOf(rule, client, address)] =
                                       Append(Times(rule), tick)]
               /\ admitted'[rule] = [admitted[rule] EXCEPT ![KeyOf(rule, client, address)] =
                                       Append(Old(rule), tick)]
               /\ attempts[rule] \in [Keys -> Seq(0..LastTick)]
               /\ admitted[rule] \in [Keys -> Seq(0..LastTick)]
    BY <1>1, <1>5 DEF Table
  <1>7. ASSUME NEW rule \in Rules
        PROVE  /\ attempts'[rule] \in [Keys -> Seq(0..LastTick)]
               /\ admitted'[rule] \in [Keys -> Seq(0..LastTick)]
    <2>1. PICK c, l : c = Append(Times(rule), tick) /\ l = Append(Old(rule), tick)
      OBVIOUS
    <2>2. PICK key \in Keys : key = KeyOf(rule, client, address)
      BY <1>2
    <2>3. c \in Seq(0..LastTick) /\ l \in Seq(0..LastTick)
      BY <1>4, <2>1
    <2>4. [attempts[rule] EXCEPT ![key] = c] \in [Keys -> Seq(0..LastTick)]
      BY <1>6, <2>3
    <2>5. [admitted[rule] EXCEPT ![key] = l] \in [Keys -> Seq(0..LastTick)]
      BY <1>6, <2>3
    <2> QED
      BY <1>6, <2>1, <2>2, <2>4, <2>5
  <1>8. Table(attempts') /\ Table(admitted')
    BY <1>5, <1>7 DEF Table
  <1>9. ASSUME NEW rule \in Rules, NEW k \in Keys
        PROVE  /\ Remembers(attempts'[rule][k], admitted'[rule][k], rule, tick)
               /\ Spread(admitted'[rule][k], rule, tick)
    <2>1. CASE k = KeyOf(rule, client, address)
      <3>1. attempts'[rule][k] = Append(Times(rule), tick)
        BY <1>2, <1>6, <2>1
      <3>2. admitted'[rule][k] = Append(Old(rule), tick)
        BY <1>2, <1>6, <2>1
      <3> QED
        BY <1>4, <3>1, <3>2
    <2>2. CASE k # KeyOf(rule, client, address)
      <3>1. PICK c, l, key : /\ c = Append(Times(rule), tick) /\ l = Append(Old(rule), tick)
                             /\ key = KeyOf(rule, client, address)
        OBVIOUS
      <3>2. /\ [attempts[rule] EXCEPT ![key] = c][k] = attempts[rule][k]
            /\ [admitted[rule] EXCEPT ![key] = l][k] = admitted[rule][k]
        BY <1>6, <2>2, <3>1
      <3>3. attempts'[rule][k] = attempts[rule][k] /\ admitted'[rule][k] = admitted[rule][k]
        BY <1>6, <3>1, <3>2
      <3> QED
        BY <1>3, <3>3
    <2> QED
      BY <2>1, <2>2
  <1> QED
    BY <1>8, <1>9

\* As the clock goes on, what is old stays old.
LEMMA TickOK ==
  ASSUME NEW counted \in Seq(0..LastTick), NEW let \in Seq(0..LastTick), NEW rule \in Rules,
         NEW now \in Nat, NEW later \in Nat, now <= later,
         Remembers(counted, let, rule, now), Spread(let, rule, now)
  PROVE  Remembers(counted, let, rule, later) /\ Spread(let, rule, later)
  <1>1. Window(rule) \in Nat /\ Len(let) \in Nat /\ Len(counted) \in Nat /\ Len(counted) <= Len(let)
    BY RuleNumbers DEF Remembers
  <1>2. \A i \in 1..Len(let) : let[i] \in Nat
    <2>1. \A i \in 1..Len(let) : let[i] \in 0..LastTick
      BY ElementOfSeq
    <2> QED
      BY <2>1
  <1>3. \A i \in 1..(Len(let) - Len(counted)) : let[i] + Window(rule) <= later
    <2> SUFFICES ASSUME NEW i \in 1..(Len(let) - Len(counted))
                 PROVE  let[i] + Window(rule) <= later
      OBVIOUS
    <2>1. let[i] \in Nat /\ let[i] + Window(rule) <= now
      BY <1>1, <1>2 DEF Remembers
    <2> QED
      BY <1>1, <2>1
  <1>4. \A i \in 1..Len(let) : let[i] <= later
    BY <1>2 DEF Spread
  <1> QED
    BY <1>1, <1>3, <1>4 DEF Remembers, Spread

\* Nobody waits at first.
LEMMA WaitlistInitially == WaitlistInit => WaitlistInv
  <1> SUFFICES ASSUME WaitlistInit
               PROVE  WaitlistInv
    OBVIOUS
  <1>1. Quiet \in Joins /\ Quiet.at = "idle"
    BY DEF Quiet, Joins
  <1>2. request \in [Requests -> Joins] /\ \A r \in Requests : request[r].at = "idle"
    BY <1>1 DEF WaitlistInit
  <1>3. admitted = [rule \in Rules |-> [k \in Keys |-> <<>>]] /\ attempts = admitted
    BY DEF WaitlistInit
  <1>4. attempts \in [Rules -> [Keys -> Seq(0..LastTick)]]
    BY <1>3
  <1>5. queue \in Seq(Places) /\ queue = <<>>
    BY DEF WaitlistInit
  <1>6. WaitlistTypeOK
    BY <1>2, <1>3, <1>4, <1>5, WaitlistAssumption DEF WaitlistInit, WaitlistTypeOK, Joins, Places
  <1>7. RefersToQueued /\ QueuedInOrder
    BY <1>2, <1>5 DEF RefersToQueued, QueuedInOrder
  <1>8. CountsInv
    <2> SUFFICES ASSUME NEW rule \in Rules, NEW k \in Keys
                 PROVE  /\ Remembers(attempts[rule][k], admitted[rule][k], rule, tick)
                        /\ Spread(admitted[rule][k], rule, tick)
      BY DEF CountsInv
    <2>1. attempts[rule][k] = <<>> /\ admitted[rule][k] = <<>> /\ Len(<<>>) = 0
      BY <1>3
    <2> QED
      BY <2>1 DEF Remembers, Spread
  <1> QED
    BY <1>6, <1>7, <1>8 DEF WaitlistInv

\* The join that commits puts its address at the end of the queue.
LEMMA CommitJoinOK ==
  ASSUME WaitlistInv, NEW r \in Requests, CommitJoin(r)
  PROVE  WaitlistInv'
  <1> DEFINE place == [email |-> request[r].email, by |-> request[r].by]
             n == Len(queue)
  <1>1. /\ request[r] \in Joins /\ request[r].email \in Signups
        /\ request[r].by \in Queued \cup {NoSignup} /\ request[r].email \notin Queued
        /\ queue \in Seq(Places) /\ n \in Nat
    BY DEF WaitlistInv, WaitlistTypeOK, RefersToQueued, CommitJoin, Joins, Places
  <1>2. /\ place \in Places /\ place.email = request[r].email /\ place.by = request[r].by
    BY <1>1 DEF Joins, Places
  <1> HIDE DEF place
  <1>3. queue' = Append(queue, place)
    BY DEF CommitJoin, place
  <1>4. /\ queue' \in Seq(Places) /\ DOMAIN queue' = 1..(n + 1) /\ DOMAIN queue = 1..n
        /\ queue'[n + 1] = place /\ \A i \in 1..n : queue'[i] = queue[i]
    BY <1>1, <1>2, <1>3
  <1>5. Queued \subseteq Queued'
    <2> SUFFICES ASSUME NEW i \in DOMAIN queue
                 PROVE  queue[i].email \in Queued'
      BY DEF Queued
    <2>1. i \in DOMAIN queue' /\ queue'[i] = queue[i]
      BY <1>1, <1>4
    <2> QED
      BY <2>1 DEF Queued
  <1>6. /\ request' \in [Requests -> Joins]
        /\ \A q \in Requests : request'[q] = request[q] \/ request'[q].at = "idle"
    <2>1. Quiet \in Joins /\ Quiet.at = "idle"
      BY DEF Quiet, Joins
    <2>2. request' = [request EXCEPT ![r] = Quiet] /\ request \in [Requests -> Joins]
      BY DEF CommitJoin, WaitlistInv, WaitlistTypeOK, Joins
    <2> QED
      BY <2>1, <2>2
  <1>7. WaitlistTypeOK'
    BY <1>4, <1>6 DEF CommitJoin, WaitlistInv, WaitlistTypeOK, Joins, Places
  <1>8. RefersToQueued'
    BY <1>5, <1>6 DEF WaitlistInv, RefersToQueued
  <1>9. QueuedInOrder'
    <2>1. ASSUME NEW i \in DOMAIN queue', NEW j \in DOMAIN queue',
                 queue'[i].email = queue'[j].email
          PROVE  i = j
      <3>1. CASE i \in 1..n /\ j \in 1..n
        BY <1>4, <2>1, <3>1 DEF WaitlistInv, QueuedInOrder
      <3>2. ASSUME NEW k \in 1..n  PROVE queue'[k].email # queue'[n + 1].email
        <4>1. queue[k].email \in Queued
          BY <1>4 DEF Queued
        <4> QED
          BY <1>1, <1>2, <1>4, <4>1
      <3> QED
        BY <1>1, <1>4, <2>1, <3>1, <3>2
    <2>2. ASSUME NEW i \in DOMAIN queue', queue'[i].by # NoSignup
          PROVE  \E j \in 1..(i - 1) : queue'[j].email = queue'[i].by
      <3>1. CASE i \in 1..n
        <4>1. PICK j \in 1..(i - 1) : queue[j].email = queue[i].by
          BY <1>4, <2>2, <3>1 DEF WaitlistInv, QueuedInOrder
        <4>2. j \in 1..n
          BY <1>1, <3>1
        <4> QED
          BY <1>4, <3>1, <4>1, <4>2
      <3>2. CASE i = n + 1
        <4>1. place.by \in Queued
          BY <1>1, <1>2, <1>4, <2>2, <3>2
        <4>2. PICK j \in DOMAIN queue : queue[j].email = place.by
          BY <4>1 DEF Queued
        <4>3. j \in 1..(i - 1)
          BY <1>1, <1>4, <3>2
        <4> QED
          BY <1>4, <3>2, <4>2, <4>3
      <3> QED
        BY <1>1, <1>4, <3>1, <3>2
    <2> QED
      BY <2>1, <2>2 DEF QueuedInOrder
  <1>10. CountsInv'
    <2>1. CountsInv /\ UNCHANGED <<attempts, admitted, tick>>
      BY DEF CommitJoin, WaitlistInv
    <2> QED
      BY <2>1 DEF CountsInv, Remembers, Spread
  <1> QED
    BY <1>7, <1>8, <1>9, <1>10 DEF WaitlistInv

\* The queue stands while attempts are counted, and joins begin or are given up.
LEMMA QueueStands ==
  ASSUME WaitlistInv, [WaitlistNext]_waitlistVars, \A r \in Requests : ~CommitJoin(r)
  PROVE  WaitlistInv'
  <1>1. queue' = queue /\ Queued' = Queued /\ QueuedInOrder'
    <2>1. queue' = queue
      BY DEF WaitlistNext, waitlistVars, Tick, CheckEligibility, JoinAgain, BeginJoin, GiveUpJoin
    <2> QED
      BY <2>1 DEF WaitlistInv, Queued, QueuedInOrder
  <1>2. endpoint' = endpoint /\ tick' \in 0..LastTick
    BY WaitlistAssumption DEF WaitlistNext, waitlistVars, Tick, CheckEligibility, JoinAgain,
       BeginJoin, GiveUpJoin, WaitlistInv, WaitlistTypeOK
  <1>3. Table(attempts') /\ Table(admitted') /\ CountsInv'
    <2>1. CASE \E client \in Clients, address \in Signups : Admit(client, address) /\ UNCHANGED tick
      <3>1. PICK client \in Clients, address \in Signups :
              Admit(client, address) /\ UNCHANGED tick
        BY <2>1
      <3> QED
        BY <3>1, AdmitOK DEF WaitlistInv, CountsInv
    <2>2. CASE UNCHANGED <<attempts, admitted>>
      <3>1. Table(attempts) /\ Table(admitted) /\ tick \in 0..LastTick
        BY DEF WaitlistInv, WaitlistTypeOK, Table
      <3>2. tick' = tick \/ tick' = tick + 1
        BY DEF WaitlistNext, waitlistVars, Tick, CheckEligibility, JoinAgain, BeginJoin, GiveUpJoin
      <3>3. ASSUME NEW rule \in Rules, NEW k \in Keys
            PROVE  /\ Remembers(attempts[rule][k], admitted[rule][k], rule, tick')
                   /\ Spread(admitted[rule][k], rule, tick')
        <4>1. attempts[rule][k] \in Seq(0..LastTick) /\ admitted[rule][k] \in Seq(0..LastTick)
          BY <3>1 DEF Table
        <4>2. /\ Remembers(attempts[rule][k], admitted[rule][k], rule, tick)
              /\ Spread(admitted[rule][k], rule, tick)
          BY DEF WaitlistInv, CountsInv
        <4>3. tick \in Nat /\ tick' \in Nat /\ tick <= tick'
          BY <3>1, <3>2
        <4> QED
          BY <4>1, <4>2, <4>3, TickOK
      <3> QED
        BY <2>2, <3>1, <3>3 DEF CountsInv
    <2>3. \/ \E client \in Clients, address \in Signups : Admit(client, address) /\ UNCHANGED tick
          \/ UNCHANGED <<attempts, admitted>>
      BY DEF WaitlistNext, waitlistVars, Tick, CheckEligibility, JoinAgain, BeginJoin, GiveUpJoin
    <2> QED
      BY <2>1, <2>2, <2>3
  <1>4. request \in [Requests -> Joins]
    BY DEF WaitlistInv, WaitlistTypeOK, Joins
  <1>5. request' \in [Requests -> Joins] /\ RefersToQueued'
    <2>1. CASE UNCHANGED request
      BY <1>1, <1>4, <2>1 DEF WaitlistInv, RefersToQueued
    <2>2. ASSUME NEW r \in Requests, NEW d \in Joins, request' = [request EXCEPT ![r] = d],
                 d.at = "found" => d.email \in Signups /\ d.by \in Queued \cup {NoSignup}
          PROVE  request' \in [Requests -> Joins] /\ RefersToQueued'
      BY <1>1, <1>4, <2>2 DEF WaitlistInv, RefersToQueued
    <2>3. ASSUME NEW r \in Requests, GiveUpJoin(r)
          PROVE  request' \in [Requests -> Joins] /\ RefersToQueued'
      <3>1. Quiet \in Joins /\ Quiet.at = "idle"
        BY DEF Quiet, Joins
      <3>2. request' = [request EXCEPT ![r] = Quiet]
        BY <2>3 DEF GiveUpJoin
      <3> QED
        BY <2>2, <3>1, <3>2
    <2>4. ASSUME NEW r \in Requests, NEW client \in Clients, NEW address \in Signups,
                 NEW code \in Signups \cup {NoSignup}, BeginJoin(r, client, address, code)
          PROVE  request' \in [Requests -> Joins] /\ RefersToQueued'
      <3> DEFINE d == [at |-> "found", email |-> address,
                       by |-> IF code \in Queued THEN code ELSE NoSignup]
      <3>1. d \in Joins /\ d.email = address /\ d.by \in Queued \cup {NoSignup}
        BY DEF Joins
      <3>2. request' = [request EXCEPT ![r] = d]
        BY <2>4 DEF BeginJoin
      <3> HIDE DEF d
      <3> QED
        BY <2>2, <3>1, <3>2
    <2> QED
      BY <2>1, <2>3, <2>4 DEF WaitlistNext, waitlistVars, Tick, CheckEligibility, JoinAgain
  <1> QED
    BY <1>1, <1>2, <1>3, <1>5 DEF WaitlistInv, WaitlistTypeOK, Joins, Table

\* Every step keeps the counters and the queue in order.
LEMMA WaitlistStep == WaitlistInv /\ [WaitlistNext]_waitlistVars => WaitlistInv'
  BY CommitJoinOK, QueueStands

\* No window lets more through than its limit (check of both limiters), and an address is
\*   queued once and after the one that referred it, however many joins overlap.
THEOREM WaitlistFair == WaitlistSpec => []WaitlistIsFair
  <1>1. WaitlistInv => WaitlistIsFair
    <2> SUFFICES ASSUME WaitlistInv  PROVE LimitsHold
      BY DEF WaitlistInv, WaitlistIsFair
    <2>1. ASSUME NEW rule \in Rules, NEW k \in Keys
          PROVE  DOMAIN admitted[rule][k] = 1..Len(admitted[rule][k])
      BY DEF WaitlistInv, WaitlistTypeOK
    <2> QED
      BY <2>1 DEF WaitlistInv, CountsInv, Spread, LimitsHold
  <1> QED
    BY <1>1, WaitlistInitially, WaitlistStep, PTL DEF WaitlistSpec

\* The counters of the limiters and the joins of services/waitlist.py stay of their types.
THEOREM WaitlistTypes == WaitlistSpec => []WaitlistTypeOK
  <1>1. WaitlistInv => WaitlistTypeOK
    BY DEF WaitlistInv
  <1> QED
    BY <1>1, WaitlistInitially, WaitlistStep, PTL DEF WaitlistSpec

(***************************************************************************)
(* The services of people, together.                                       *)
(***************************************************************************)

\* One of the five moves, and the others stand.
LEMMA OneMoves ==
  ASSUME [Next]_allVars
  PROVE  /\ [AccountsNext]_accountVars /\ [AccountDeletionNext]_deletionVars
         /\ [WaitlistNext]_waitlistVars /\ [GoogleNext]_googleVars /\ [BankNext]_bankVars
         /\ UNCHANGED focus
  <1>1. CASE UNCHANGED allVars
    BY <1>1 DEF allVars
  <1>2. CASE Next
    BY <1>2 DEF Next
  <1> QED
    BY <1>1, <1>2

\* A behaviour of all is a behaviour of each.
LEMMA ServicesWork ==
  Spec => /\ AccountsSpec /\ AccountDeletionSpec /\ WaitlistSpec /\ GoogleSpec /\ BankSpec
  <1>1. Init => /\ AccountsInit /\ AccountDeletionInit /\ WaitlistInit /\ GoogleInit /\ BankInit
    BY DEF Init
  <1>2. [Next]_allVars => /\ [AccountsNext]_accountVars /\ [AccountDeletionNext]_deletionVars
                          /\ [WaitlistNext]_waitlistVars /\ [GoogleNext]_googleVars
                          /\ [BankNext]_bankVars
    BY OneMoves
  <1> QED
    BY <1>1, <1>2, PTL DEF Spec, AccountsSpec, AccountDeletionSpec, WaitlistSpec, GoogleSpec, BankSpec

\* The rows and the requests of the service that moves keep their shape and their limits.
THEOREM PeopleTypes == Spec => []TypeOK
  <1> DEFINE Foci == focus \in {"accounts", "deletion", "waitlist", "google", "bank"}
  <1>1. Init => Foci
    BY DEF Init
  <1>2. Foci /\ [Next]_allVars => Foci'
    BY OneMoves
  <1>3. ASSUME Foci, AccountsTypeOK, AccountDeletionTypeOK, WaitlistTypeOK, GoogleTypeOK, BankTypeOK
        PROVE  TypeOK
    <2>1. CASE focus = "accounts"
      BY <1>3, <2>1 DEF TypeOK
    <2>2. CASE focus = "deletion"
      BY <1>3, <2>2 DEF TypeOK
    <2>3. CASE focus = "waitlist"
      BY <1>3, <2>3 DEF TypeOK
    <2>4. CASE focus = "google"
      BY <1>3, <2>4 DEF TypeOK
    <2>5. CASE focus = "bank"
      BY <1>3, <2>5 DEF TypeOK
    <2> QED
      BY <1>3, <2>1, <2>2, <2>3, <2>4, <2>5
  <1> HIDE DEF Foci
  <1>4. Spec => []Foci
    BY <1>1, <1>2, PTL DEF Spec
  <1> QED
    BY <1>3, <1>4, ServicesWork, AccountTypes, DeletionTypes, WaitlistTypes, GoogleTypes, BankTypes,
       PTL
==============================================================================
