------------------------------- MODULE Groups -------------------------------
(***************************************************************************)
(* The owner of a group, and of the app built for it (services/groups.py,  *)
(* the group branches of api/routes/linq_webhooks.py and of                *)
(* agents/group_turn.py, authorize_user of services/generated_apps_v2.py). *)
(*                                                                         *)
(* Webhooks of Linq are handled by requests that overlap, each in one      *)
(* transaction of its own (READ COMMITTED).  A request keeps the rows it   *)
(* has loaded: the selects of transfer_group_ownership take row locks but  *)
(* do not refresh what the session holds already (no populate_existing),   *)
(* and a commit writes only the columns whose value differs from the one   *)
(* loaded.  So a request is modelled with the values it saw, and its       *)
(* commit by the columns it writes.                                        *)
(*                                                                         *)
(* Members are the handles of the chat; those in Linked belong to a user   *)
(* of Dot and stand for that user.  One app is built for the group.        *)
(***************************************************************************)
EXTENDS Naturals, FiniteSets

CONSTANTS
  Members,      \* the handles that are, or were, in the chat
  Linked,       \* those of them that belong to a user
  Creator,      \* whose message or whose chat made the conversation row
  Requests,     \* the webhook requests that may be open at once
  NoOne,        \* no member
  MaxMoves,     \* bound: how often somebody leaves, returns or quits
  MaxMessages   \* bound: how many messages arrive

ASSUME GroupAssumption ==
  /\ Linked \subseteq Members
  /\ Creator \in Linked
  /\ NoOne \notin Members
  /\ MaxMoves \in Nat
  /\ MaxMessages \in Nat

VARIABLES
  status,    \* conversation_members.status ("absent": no row)
  role,      \* conversation_members.role
  owner,     \* conversations.user_id
  source,    \* conversations.group_owner_source
  appOwner,  \* generated_apps.user_id, NoOne before the app is made
  appRole,   \* generated_app_memberships.role, by user
  inChat,    \* who is in the chat at Linq
  events,    \* participant events Linq has not had answered
  request,   \* the open requests
  moves, messages

groupVars == <<status, role, owner, source>>
appVars   == <<appOwner, appRole>>
chatVars  == <<inChat, events, moves, messages>>
vars      == <<groupVars, appVars, chatVars, request>>

Unlisted == "unlisted"   \* a status that is not to be written
Unread   == "unread"     \* a role this request holds no row of

EventTypes == {"participant.added", "participant.removed"}
Events     == [type : EventTypes, who : Members]
Kinds      == EventTypes \union {"message", "turn", "leave"}

\* Nobody is listed, nothing is seen.
Nothing == [m \in Members |-> Unlisted]
Unseen  == [m \in Members |-> Unread]

(***************************************************************************)
(* A request: the user_id and group_owner_source it loaded, the roles of   *)
(* the member rows it holds, the statuses it will write, and what it has   *)
(* decided: to claim the group for "who", or to hand it to "heir".         *)
(***************************************************************************)
Closed == [step |-> "closed", kind |-> "message", who |-> NoOne,
           owner |-> NoOne, source |-> "unclaimed", seen |-> Unseen,
           writes |-> Nothing, claims |-> FALSE, heir |-> NoOne]

TypeOK ==
  /\ status \in [Members -> {"absent", "active", "removed", "left"}]
  /\ role \in [Members -> {"owner", "member"}]
  /\ owner \in Linked
  /\ source \in {"unclaimed", "first_invoker", "transferred"}
  /\ appOwner \in Linked \union {NoOne}
  /\ appRole \in [Linked -> {"none", "owner", "member"}]
  /\ inChat \subseteq Members
  /\ events \subseteq Events
  /\ request \in [Requests ->
       [step : {"closed", "loaded", "listed", "found"}, kind : Kinds,
        who : Members \union {NoOne}, owner : Linked \union {NoOne},
        source : {"unclaimed", "first_invoker", "transferred"},
        seen : [Members -> {"owner", "member", Unread}],
        writes : [Members -> {"active", "removed", "left", Unlisted}],
        claims : BOOLEAN, heir : Linked \union {NoOne}]]
  /\ moves \in 0 .. MaxMoves
  /\ messages \in 0 .. MaxMessages

Init ==
  /\ inChat \in {here \in SUBSET Members : Creator \in here}
  /\ status = [m \in Members |-> IF m \in inChat THEN "active" ELSE "absent"]
  /\ role = [m \in Members |-> "member"]
  /\ owner = Creator
  /\ source = "unclaimed"
  /\ appOwner = NoOne
  /\ appRole = [u \in Linked |-> "none"]
  /\ events = {}
  /\ request = [r \in Requests |-> Closed]
  /\ moves = 0
  /\ messages = 0

-----------------------------------------------------------------------------
(* What a request sees and writes *)

\* The role of a row as this request holds it: a row it loaded before is not
\* refreshed by the select that locks it.
RoleSeen(q, m) == IF q.seen[m] = Unread THEN role[m] ELSE q.seen[m]

\* A column is written when its new value differs from the one loaded.
Written(loaded, new, stored) == IF new = loaded THEN stored ELSE new

StatusWritten(q) ==
  [m \in Members |-> IF q.writes[m] = Unlisted THEN status[m] ELSE q.writes[m]]

RolesWritten(q, new) ==
  [m \in Members |-> Written(RoleSeen(q, m), new[m], role[m])]

\* The rows a request that looked for a successor has written and keeps
\* locked: the select that looks for one flushes the status first.
Locked(r) ==
  IF request[r].step = "found"
  THEN {m \in Members : request[r].writes[m] # Unlisted} ELSE {}

\* The rows in S can be locked or written by r now.
Free(r, S) == \A other \in Requests \ {r} : Locked(other) \intersect S = {}

Writes(q) == {m \in Members : q.writes[m] # Unlisted}

\* What Linq answers about the chat: nothing, or those who are in it, and
\* those who are not either as "removed" or not at all.
ChatData ==
  {Nothing} \union
  {[m \in Members |-> IF m \in inChat THEN "active" ELSE gone] :
     gone \in {"removed", Unlisted}}

\* A group that was handed over may be claimed as well.
ClaimableUnlessInvoked(src) == src # "first_invoker"

\* The group is there for the first linked member who invokes Dot.
Claimable(src) == src = "unclaimed"

\* Who can take over from an owner who left: active and linked.
Successors(who) ==
  {m \in Linked : m # who /\ status[m] = "active"}

\* The other memberships are left as they are.
OwnerAddedOnly(heir, departing) == [appRole EXCEPT ![heir] = "owner"]

\* Memberships of the app when ownership moves to "heir".
AccessTransferred(heir, departing) ==
  [u \in Linked |->
     IF u = heir THEN "owner"
     ELSE IF u = departing THEN "none"
     ELSE IF appRole[u] = "owner" THEN "member" ELSE appRole[u]]

\* The memberships are marked instead of deleted.
AccessMarked(departing) ==
  [u \in Linked |->
     IF u = departing \/ appRole[u] = "owner" THEN "revoked" ELSE appRole[u]]

\* Memberships of the app when the owner left and nobody can take over.
AccessRevoked(departing) ==
  [u \in Linked |->
     IF u = departing \/ appRole[u] = "owner" THEN "none" ELSE appRole[u]]

\* The role is given and taken from nobody.
RoleGiven(q, heir) ==
  [m \in Members |-> IF m = heir THEN "owner" ELSE RoleSeen(q, m)]

\* The rows of the members after ownership moved from whoever held it to "heir".
RolesMoved(q, heir) ==
  [m \in Members |-> IF m = heir THEN "owner" ELSE "member"]

\* The apps of the group are left with their user.
TransferOfGroupOnly(q, heir, src, departing) ==
  /\ role' = RolesWritten(q, RolesMoved(q, heir))
  /\ owner' = Written(q.owner, heir, owner)
  /\ source' = Written(q.source, src, source)
  /\ UNCHANGED appVars

\* transfer_group_ownership, for a linked heir this request holds as active.
Transfer(q, heir, src, departing) ==
  /\ role' = RolesWritten(q, RolesMoved(q, heir))
  /\ owner' = Written(q.owner, heir, owner)
  /\ source' = Written(q.source, src, source)
  /\ IF appOwner = NoOne
     THEN UNCHANGED appVars
     ELSE /\ appOwner' = heir
          /\ appRole' = AccessTransferred(heir, departing)

-----------------------------------------------------------------------------
(* The chat at Linq *)

\* Somebody leaves the chat, or is removed from it.
Depart(m) ==
  /\ moves < MaxMoves
  /\ m \in inChat
  /\ inChat' = inChat \ {m}
  /\ events' = events \union {[type |-> "participant.removed", who |-> m]}
  /\ moves' = moves + 1
  /\ UNCHANGED <<groupVars, appVars, request, messages>>

\* Somebody is added to the chat again.
Return(m) ==
  /\ moves < MaxMoves
  /\ m \notin inChat
  /\ inChat' = inChat \union {m}
  /\ events' = events \union {[type |-> "participant.added", who |-> m]}
  /\ moves' = moves + 1
  /\ UNCHANGED <<groupVars, appVars, request, messages>>

-----------------------------------------------------------------------------
(* Requests *)

Opened(kind, who) ==
  [Closed EXCEPT !.step = "loaded", !.kind = kind, !.who = who,
                 !.owner = owner, !.source = source]

\* A message of m: the chat is fetched from Linq before the group is loaded.
\* The row of a linked sender is made active, unless the chat says otherwise.
ReceiveMessage(r, m) ==
  /\ request[r].step = "closed"
  /\ messages < MaxMessages
  /\ m \in inChat
  /\ \E chat \in ChatData :
       LET said == IF m \in Linked /\ chat[m] = Unlisted
                   THEN [chat EXCEPT ![m] = "active"] ELSE chat
       IN request' = [request EXCEPT ![r] =
                        [Opened("message", m) EXCEPT !.writes = said]]
  /\ messages' = messages + 1
  /\ UNCHANGED <<groupVars, appVars, inChat, events, moves>>

\* A group turn that has decided to answer a message of m: it claims the
\* group for m in a transaction of its own.
StartTurn(r, m) ==
  /\ request[r].step = "closed"
  /\ messages \in 1 .. MaxMessages - 1
  /\ status[m] # "absent"
  /\ request' = [request EXCEPT ![r] = Opened("turn", m)]
  /\ messages' = messages + 1
  /\ UNCHANGED <<groupVars, appVars, inChat, events, moves>>

\* The participants are synchronised, the active members are listed, and a
\* message that invokes Dot claims a group nobody has claimed.
ListMembers(r) ==
  LET q      == request[r]
      now    == StatusWritten(q)
      listed == [m \in Members |->
                   IF now[m] = "active" THEN role[m] ELSE Unread]
      writes == [m \in Members |->
                   IF q.writes[m] = status[m] THEN Unlisted ELSE q.writes[m]]
      may    == now[q.who] = "active" /\ Claimable(q.source)
  IN /\ q.step = "loaded"
     /\ q.kind \in {"message", "turn"}
     /\ \E invoked \in BOOLEAN :
          /\ q.kind = "turn" => invoked
          /\ request' = [request EXCEPT ![r] =
               [q EXCEPT !.step = "listed", !.seen = listed,
                         !.writes = writes, !.claims = invoked /\ may]]
     /\ UNCHANGED <<groupVars, appVars, chatVars>>

\* A participant event: the group and the row of the participant are loaded.
ReceiveEvent(r, e) ==
  LET to == IF e.type = "participant.added" THEN "active" ELSE "removed"
  IN /\ request[r].step = "closed"
     /\ e \in events
     /\ events' = events \ {e}
     /\ request' = [request EXCEPT ![r] =
          [Opened(e.type, e.who) EXCEPT
             !.seen[e.who] = role[e.who],
             !.writes[e.who] = IF status[e.who] = to THEN Unlisted ELSE to]]
     /\ UNCHANGED <<groupVars, appVars, inChat, moves, messages>>

\* A member quits through the web; the owner is refused.
ReceiveLeave(r, u) ==
  /\ request[r].step = "closed"
  /\ moves < MaxMoves
  /\ status[u] = "active"
  /\ role[u] # "owner"
  /\ moves' = moves + 1
  /\ request' = [request EXCEPT ![r] =
       [Opened("leave", u) EXCEPT !.seen[u] = role[u], !.writes[u] = "left"]]
  /\ UNCHANGED <<groupVars, appVars, inChat, events, messages>>

\* Does the row this request removes belong to the owner, as far as it saw?
OwnerLeaves(q) == q.kind = "participant.removed" /\ q.seen[q.who] = "owner"

\* The owner was removed: the earliest active linked member is looked up, if
\* there is one (any of them here), after the row of the owner was written.
FindSuccessor(r) ==
  LET q == request[r]
  IN /\ q.step = "loaded"
     /\ OwnerLeaves(q)
     /\ Free(r, Writes(q))
     /\ \E heir \in IF Successors(q.who) = {} THEN {NoOne} ELSE Successors(q.who) :
          request' = [request EXCEPT ![r] =
            [q EXCEPT !.step = "found", !.heir = heir,
                      !.seen = IF heir = NoOne THEN @
                               ELSE [@ EXCEPT ![heir] = role[heir]]]]
     /\ UNCHANGED <<groupVars, appVars, chatVars>>

Close(r) == request' = [request EXCEPT ![r] = Closed]

\* The commit of a request that leaves the owner alone.
CommitMembers(r) ==
  LET q == request[r]
  IN /\ \/ q.step = "listed" /\ ~q.claims
        \/ q.step = "loaded" /\ q.kind \in EventTypes \union {"leave"} /\ ~OwnerLeaves(q)
     /\ Free(r, Writes(q))
     /\ status' = StatusWritten(q)
     /\ Close(r)
     /\ UNCHANGED <<role, owner, source, appVars, chatVars>>

\* The commit of a claim by a linked member: ownership moves to him.
CommitClaim(r) ==
  LET q == request[r]
  IN /\ q.step = "listed" /\ q.claims /\ q.who \in Linked
     /\ Free(r, Members)
     /\ status' = StatusWritten(q)
     /\ Transfer(q, q.who, "first_invoker", NoOne)
     /\ Close(r)
     /\ UNCHANGED chatVars

\* The commit of a claim by a handle without a user: the rows of the current
\* owners are loaded by their role, and the conversation and its apps stay
\* with their user.
CommitUnlinkedClaim(r) ==
  LET q   == request[r]
      new == [m \in Members |->
                IF m = q.who THEN "owner"
                ELSE IF role[m] = "owner" THEN "member" ELSE RoleSeen(q, m)]
  IN /\ q.step = "listed" /\ q.claims /\ q.who \notin Linked
     /\ Free(r, Writes(q) \union {q.who} \union {m \in Members : role[m] = "owner"})
     /\ status' = StatusWritten(q)
     /\ role' = RolesWritten(q, new)
     /\ source' = Written(q.source, "first_invoker", source)
     /\ Close(r)
     /\ UNCHANGED <<owner, appVars, chatVars>>

\* The user who leaves: of the removed row, or of the conversation as loaded.
Departing(q) == IF q.who \in Linked THEN q.who ELSE q.owner

\* The commit of a removal of the owner, with a successor.
CommitSuccession(r) ==
  LET q == request[r]
  IN /\ q.step = "found" /\ q.heir # NoOne
     /\ Free(r, Members)
     /\ status' = StatusWritten(q)
     /\ Transfer(q, q.heir, "transferred", Departing(q))
     /\ Close(r)
     /\ UNCHANGED chatVars

\* The commit of a removal of the owner when nobody can take over.
CommitUnclaimed(r) ==
  LET q == request[r]
  IN /\ q.step = "found" /\ q.heir = NoOne
     /\ Free(r, Writes(q) \union {q.who})
     /\ status' = StatusWritten(q)
     /\ role' = RolesWritten(q, [m \in Members |->
                  IF m = q.who THEN "member" ELSE RoleSeen(q, m)])
     /\ source' = Written(q.source, "unclaimed", source)
     /\ appRole' = IF appOwner = NoOne THEN appRole ELSE AccessRevoked(Departing(q))
     /\ Close(r)
     /\ UNCHANGED <<owner, appOwner, chatVars>>

\* The database refuses a statement or the process dies: nothing was written,
\* and Linq delivers a participant event again.
Fail(r) ==
  LET q == request[r]
  IN /\ q.step # "closed"
     /\ events' = IF q.kind \in EventTypes
                  THEN events \union {[type |-> q.kind, who |-> q.who]} ELSE events
     /\ Close(r)
     /\ UNCHANGED <<groupVars, appVars, inChat, moves, messages>>

-----------------------------------------------------------------------------
(* The app *)

\* create_code_app_build locks and refreshes the group and its member rows.
MayOwnApp(u) ==
  /\ u = owner
  /\ source # "unclaimed"
  /\ status[u] = "active"
  /\ role[u] = "owner"

\* An app is made for the group, whoever of its members asked for it.
CreateApp ==
  /\ appOwner = NoOne
  /\ MayOwnApp(owner)
  /\ \A r \in Requests : owner \notin Locked(r)
  /\ appOwner' = owner
  /\ appRole' = [appRole EXCEPT ![owner] = "owner"]
  /\ UNCHANGED <<groupVars, chatVars, request>>

\* The owner is found before the group is asked.
AuthorityOfRow(u) == IF appOwner = u THEN "owner" ELSE appRole[u]

\* The role authorize_user finds for a user, under the lock of the app.
Authority(u) ==
  LET unclaimed == source = "unclaimed"
  IN IF appOwner = u /\ ~unclaimed THEN "owner"
     ELSE IF unclaimed /\ appRole[u] = "owner" THEN "none"
     ELSE appRole[u]

-----------------------------------------------------------------------------
Open(r) ==
  \/ \E m \in Members : ReceiveMessage(r, m) \/ StartTurn(r, m)
  \/ \E e \in events : ReceiveEvent(r, e)
  \/ \E u \in Linked : ReceiveLeave(r, u)

Commit(r) ==
  \/ CommitMembers(r)
  \/ CommitClaim(r)
  \/ CommitUnlinkedClaim(r)
  \/ CommitSuccession(r)
  \/ CommitUnclaimed(r)

Next ==
  \/ \E m \in Members : Depart(m) \/ Return(m)
  \/ \E r \in Requests :
       \/ Open(r) \/ ListMembers(r) \/ FindSuccessor(r)
       \/ Commit(r) \/ Fail(r)
  \/ CreateApp

Spec == Init /\ [][Next]_vars

-----------------------------------------------------------------------------
(* Properties *)

Owners == {m \in Members : role[m] = "owner"}

(***************************************************************************)
(* A group has one owner at most (transfer_group_ownership takes the role  *)
(* from every other member, claim_group_owner likewise).                   *)
(***************************************************************************)
OneOwner == Cardinality(Owners) <= 1

(***************************************************************************)
(* A group and its app move together: transfer_group_ownership writes both *)
(* in one transaction.                                                     *)
(***************************************************************************)
GroupAndAppAgree == appOwner \in {NoOne, owner}

(***************************************************************************)
(* Nobody but the user of the app's row is its owner by membership, however*)
(* claims, departures and creations overlap (_transfer_generated_app_access*)
(* and _revoke_unclaimed_group_app_owner).                                 *)
(***************************************************************************)
AppHasOneOwner == \A u \in Linked : appRole[u] = "owner" => u = appOwner

(***************************************************************************)
(* While the owner of the group is a user, authorize_user finds the owner  *)
(* of the app in him and in nobody else.                                   *)
(***************************************************************************)
AuthorityFollowsTheGroup ==
  /\ Owners \subseteq Linked
  /\ appOwner # NoOne
  => \A u \in Linked : Authority(u) = "owner" <=> u \in Owners

(***************************************************************************)
(* "Remove owner authority while a group has no linked successor"          *)
(* (_revoke_unclaimed_group_app_owner): authorize_user makes nobody the    *)
(* owner of the app who is not the owner of the group.                     *)
(***************************************************************************)
DepartedHasNoApp == \A u \in Linked : Authority(u) = "owner" => u \in Owners

(***************************************************************************)
(* Whoever owns a group stays its owner until he leaves: a second member   *)
(* who invokes Dot does not take the group over (claim_group_owner).       *)
(***************************************************************************)
OwnershipIsNotTaken ==
  [][\A m \in Owners : role'[m] # "owner" => status'[m] = "removed"]_vars
=============================================================================
