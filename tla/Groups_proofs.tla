---------------------------- MODULE Groups_proofs ----------------------------
(***************************************************************************)
(* What holds of a conversation for every set of members, messages and     *)
(* guests, of overlapping requests, and however often they come: of its    *)
(* owner (Groups), of its invites (Invites), of its messages and their     *)
(* answers (Conversations), and of all of them (RoomsMC).                  *)
(***************************************************************************)
EXTENDS RoomsMC, FiniteSetTheorems, WellFoundedInduction, TLAPS

\* Values the request records range over.
Sources == {"unclaimed", "first_invoker", "transferred"}
Seen    == [Members -> {"owner", "member", Unread}]
Pending == [Members -> {"active", "removed", "left", Unlisted}]
RequestType ==
  [step : {"closed", "loaded", "listed", "found"}, kind : Kinds,
   who : Members \union {NoOne}, owner : Linked \union {NoOne},
   source : Sources, seen : Seen, writes : Pending,
   claims : BOOLEAN, heir : Linked \union {NoOne}]

\* Whoever opened a request is a member: what a failed one gives back to
\* Linq is an event again.
OpenHasMember ==
  \A r \in Requests : request[r].step # "closed" => request[r].who \in Members

TypeInv == TypeOK /\ OpenHasMember

\* The types of TypeOK with the record type named.
LEMMA TypeOKRequests == TypeOK => request \in [Requests -> RequestType]
  BY DEF TypeOK, RequestType, Sources, Seen, Pending

\* A closed request and a newly opened one are requests.
LEMMA ClosedType == Closed \in RequestType
  BY DEF Closed, RequestType, Kinds, EventTypes, Sources, Seen, Pending, Unseen, Nothing

\* What a newly opened request is.
LEMMA OpenedType ==
  ASSUME TypeOK, NEW of \in Kinds, NEW who \in Members
  PROVE  /\ Opened(of, who) \in RequestType
         /\ Opened(of, who).step = "loaded"
         /\ Opened(of, who).who = who
         /\ Opened(of, who).kind = of
  BY ClosedType DEF Opened, Closed, RequestType, TypeOK, Sources

\* The columns a commit writes stay within their types.
LEMMA WritesType ==
  ASSUME TypeOK, NEW q \in RequestType
  PROVE  /\ StatusWritten(q) \in [Members -> {"absent", "active", "removed", "left"}]
         /\ \A m \in Members : RoleSeen(q, m) \in {"owner", "member"}
         /\ \A new \in [Members -> {"owner", "member"}] :
              RolesWritten(q, new) \in [Members -> {"owner", "member"}]
  <1>1. q.writes \in Pending /\ q.seen \in Seen
    BY DEF RequestType
  <1>2. StatusWritten(q) \in [Members -> {"absent", "active", "removed", "left"}]
    BY <1>1 DEF StatusWritten, Pending, TypeOK, Unlisted
  <1>3. \A m \in Members : RoleSeen(q, m) \in {"owner", "member"}
    BY <1>1 DEF RoleSeen, Seen, TypeOK, Unread
  <1>4. \A new \in [Members -> {"owner", "member"}] :
          RolesWritten(q, new) \in [Members -> {"owner", "member"}]
    BY DEF RolesWritten, Written, TypeOK
  <1> QED
    BY <1>2, <1>3, <1>4

\* A transfer of ownership to a user keeps the types it touches.
LEMMA TransferType ==
  ASSUME TypeOK, NEW q \in RequestType, NEW heir \in Linked,
         NEW src \in Sources, NEW departing, Transfer(q, heir, src, departing)
  PROVE  /\ role' \in [Members -> {"owner", "member"}]
         /\ owner' \in Linked
         /\ source' \in Sources
         /\ appOwner' \in Linked \union {NoOne}
         /\ appRole' \in [Linked -> {"none", "owner", "member"}]
  <1>1. RolesMoved(q, heir) \in [Members -> {"owner", "member"}]
    BY DEF RolesMoved
  <1>2. role' \in [Members -> {"owner", "member"}]
    BY <1>1, WritesType DEF Transfer
  <1>3. owner' \in Linked /\ source' \in Sources
    BY DEF Transfer, Written, TypeOK, Sources
  <1>4. AccessTransferred(heir, departing) \in [Linked -> {"none", "owner", "member"}]
    BY DEF AccessTransferred, TypeOK
  <1>5. /\ appOwner' \in Linked \union {NoOne}
        /\ appRole' \in [Linked -> {"none", "owner", "member"}]
    BY <1>4 DEF Transfer, TypeOK, appVars
  <1> QED
    BY <1>2, <1>3, <1>5

\* Closing a request keeps the types of all of them.
LEMMA CloseType ==
  ASSUME TypeInv, NEW r \in Requests, Close(r)
  PROVE  /\ request' \in [Requests -> RequestType]
         /\ OpenHasMember'
  <1>1. request \in [Requests -> RequestType]
    BY TypeOKRequests DEF TypeInv
  <1>2. request' \in [Requests -> RequestType]
    BY <1>1, ClosedType DEF Close
  <1>3. OpenHasMember'
    BY <1>1 DEF Close, OpenHasMember, TypeInv, Closed
  <1> QED
    BY <1>2, <1>3

\* So does setting one to another request of a member.
LEMMA SetType ==
  ASSUME TypeInv, NEW r \in Requests, NEW q \in RequestType, q.who \in Members,
         request' = [request EXCEPT ![r] = q]
  PROVE  /\ request' \in [Requests -> RequestType]
         /\ OpenHasMember'
  <1>1. request \in [Requests -> RequestType]
    BY TypeOKRequests DEF TypeInv
  <1> QED
    BY <1>1 DEF OpenHasMember, TypeInv

\* The group has just been created.
LEMMA InitType == Init => TypeInv
  <1> SUFFICES ASSUME Init PROVE TypeInv
    OBVIOUS
  <1>1. Creator \in Linked /\ MaxMoves \in Nat /\ MaxMessages \in Nat
    BY GroupAssumption
  <1>2. request \in [Requests -> RequestType]
    BY ClosedType DEF Init
  <1>3. TypeOK
    BY <1>1, <1>2 DEF Init, TypeOK, RequestType, Sources, Seen, Pending
  <1>4. OpenHasMember
    BY DEF Init, OpenHasMember, Closed
  <1> QED
    BY <1>3, <1>4 DEF TypeInv

\* Every kind of step keeps the types, one step of the proof for each.
LEMMA NextType == TypeInv /\ [Next]_vars => TypeInv'
  <1> SUFFICES ASSUME TypeInv, [Next]_vars PROVE TypeInv'
    OBVIOUS
  <1>0. TypeOK /\ OpenHasMember /\ request \in [Requests -> RequestType]
    BY TypeOKRequests DEF TypeInv
  <1> USE <1>0
  <1> DEFINE GroupType == /\ status' \in [Members -> {"absent", "active", "removed", "left"}]
                          /\ role' \in [Members -> {"owner", "member"}]
                          /\ owner' \in Linked
                          /\ source' \in Sources
             AppType   == /\ appOwner' \in Linked \union {NoOne}
                          /\ appRole' \in [Linked -> {"none", "owner", "member"}]
             ChatType  == /\ inChat' \subseteq Members
                          /\ events' \subseteq Events
                          /\ moves' \in 0 .. MaxMoves
                          /\ messages' \in 0 .. MaxMessages
             ReqType   == request' \in [Requests -> RequestType] /\ OpenHasMember'
  <1>a. SUFFICES GroupType /\ AppType /\ ChatType /\ ReqType
    BY DEF TypeInv, TypeOK, RequestType, Sources, Seen, Pending
  <1>b. UNCHANGED groupVars => GroupType
    BY DEF groupVars, TypeOK, Sources
  <1>c. UNCHANGED appVars => AppType
    BY DEF appVars, TypeOK
  <1>d. UNCHANGED chatVars => ChatType
    BY DEF chatVars, TypeOK
  <1>e. UNCHANGED request => ReqType
    BY DEF OpenHasMember
  <1>1. ASSUME NEW m \in Members, Depart(m) \/ Return(m)
        PROVE  GroupType /\ AppType /\ ChatType /\ ReqType
    <2>1. ChatType
      <3>1. moves' \in 0 .. MaxMoves
        BY <1>1, GroupAssumption DEF Depart, Return, TypeOK
      <3>2. inChat' \subseteq Members /\ messages' \in 0 .. MaxMessages
        BY <1>1 DEF Depart, Return, TypeOK
      <3>3. events' \subseteq Events
        BY <1>1 DEF Depart, Return, TypeOK, Events, EventTypes
      <3> QED
        BY <3>1, <3>2, <3>3
    <2> QED
      BY <1>1, <1>b, <1>c, <1>e, <2>1 DEF Depart, Return
  <1>2. ASSUME NEW r \in Requests, NEW m \in Members, ReceiveMessage(r, m)
        PROVE  GroupType /\ AppType /\ ChatType /\ ReqType
    <2>1. ChatType
      <3>1. messages' \in 0 .. MaxMessages
        BY <1>2, GroupAssumption DEF ReceiveMessage, TypeOK
      <3> QED
        BY <1>2, <3>1 DEF ReceiveMessage, TypeOK
    <2>2. PICK chat \in ChatData :
            request' = [request EXCEPT ![r] = [Opened("message", m) EXCEPT !.writes =
                          IF m \in Linked /\ chat[m] = Unlisted
                          THEN [chat EXCEPT ![m] = "active"] ELSE chat]]
      BY <1>2 DEF ReceiveMessage
    <2>3. chat \in Pending
      BY DEF ChatData, Pending, Nothing, Unlisted
    <2>4. ReqType
      <3> DEFINE said == IF m \in Linked /\ chat[m] = Unlisted
                         THEN [chat EXCEPT ![m] = "active"] ELSE chat
                 q    == [Opened("message", m) EXCEPT !.writes = said]
      <3>1. said \in Pending
        BY <2>3 DEF Pending
      <3>2. q \in RequestType /\ q.who \in Members
        <4>1. Opened("message", m) \in RequestType /\ Opened("message", m).who = m
          BY OpenedType DEF Kinds
        <4> QED
          BY <3>1, <4>1 DEF RequestType
      <3>3. request' = [request EXCEPT ![r] = q]
        BY <2>2
      <3> QED
        BY <3>2, <3>3, SetType
    <2> QED
      BY <1>2, <1>b, <1>c, <2>1, <2>4 DEF ReceiveMessage
  <1>3. ASSUME NEW r \in Requests, NEW m \in Members, StartTurn(r, m)
        PROVE  GroupType /\ AppType /\ ChatType /\ ReqType
    <2>1. ChatType
      <3>1. messages' \in 0 .. MaxMessages
        BY <1>3, GroupAssumption DEF StartTurn, TypeOK
      <3> QED
        BY <1>3, <3>1 DEF StartTurn, TypeOK
    <2>2. Opened("turn", m) \in RequestType /\ Opened("turn", m).who = m
      BY OpenedType DEF Kinds
    <2> QED
      BY <1>3, <1>b, <1>c, <2>1, <2>2, SetType DEF StartTurn
  <1>4. ASSUME NEW r \in Requests, NEW e \in events, ReceiveEvent(r, e)
        PROVE  GroupType /\ AppType /\ ChatType /\ ReqType
    <2>1. e.type \in EventTypes /\ e.who \in Members
      BY DEF TypeOK, Events
    <2>2. ChatType
      BY <1>4 DEF ReceiveEvent, TypeOK
    <2> DEFINE to == IF e.type = "participant.added" THEN "active" ELSE "removed"
               q  == [Opened(e.type, e.who) EXCEPT
                        !.seen[e.who] = role[e.who],
                        !.writes[e.who] = IF status[e.who] = to THEN Unlisted ELSE to]
    <2>3. /\ Opened(e.type, e.who) \in RequestType
          /\ Opened(e.type, e.who).who = e.who
      BY <2>1, OpenedType DEF Kinds
    <2>4. q \in RequestType /\ q.who \in Members
      BY <2>1, <2>3 DEF RequestType, Seen, Pending, TypeOK
    <2>5. request' = [request EXCEPT ![r] = q]
      BY <1>4 DEF ReceiveEvent
    <2>6. ReqType
      BY <2>4, <2>5, SetType
    <2> QED
      BY <1>4, <1>b, <1>c, <2>2, <2>6 DEF ReceiveEvent
  <1>5. ASSUME NEW r \in Requests, NEW u \in Linked, ReceiveLeave(r, u)
        PROVE  GroupType /\ AppType /\ ChatType /\ ReqType
    <2>1. u \in Members
      BY GroupAssumption
    <2>2. ChatType
      <3>1. moves' \in 0 .. MaxMoves
        BY <1>5, GroupAssumption DEF ReceiveLeave, TypeOK
      <3> QED
        BY <1>5, <3>1 DEF ReceiveLeave, TypeOK
    <2> DEFINE q == [Opened("leave", u) EXCEPT !.seen[u] = role[u], !.writes[u] = "left"]
    <2>3. Opened("leave", u) \in RequestType /\ Opened("leave", u).who = u
      BY <2>1, OpenedType DEF Kinds
    <2>4. q \in RequestType /\ q.who \in Members
      BY <2>1, <2>3 DEF RequestType, Seen, Pending, TypeOK
    <2>5. request' = [request EXCEPT ![r] = q]
      BY <1>5 DEF ReceiveLeave
    <2>6. ReqType
      BY <2>4, <2>5, SetType
    <2> QED
      BY <1>5, <1>b, <1>c, <2>2, <2>6 DEF ReceiveLeave
  <1>6. ASSUME NEW r \in Requests, ListMembers(r)
        PROVE  GroupType /\ AppType /\ ChatType /\ ReqType
    <2> DEFINE q      == request[r]
               now    == StatusWritten(q)
               listed == [m \in Members |->
                            IF now[m] = "active" THEN role[m] ELSE Unread]
               writes == [m \in Members |->
                            IF q.writes[m] = status[m] THEN Unlisted ELSE q.writes[m]]
               may    == now[q.who] = "active" /\ Claimable(q.source)
    <2>1. q \in RequestType /\ q.who \in Members
      BY <1>6 DEF ListMembers, OpenHasMember
    <2>2. listed \in Seen /\ writes \in Pending
      BY <2>1 DEF Seen, Pending, RequestType, TypeOK
    <2>3. PICK invoked \in BOOLEAN :
            request' = [request EXCEPT ![r] =
               [q EXCEPT !.step = "listed", !.seen = listed,
                         !.writes = writes, !.claims = invoked /\ may]]
      BY <1>6 DEF ListMembers
    <2> DEFINE next == [q EXCEPT !.step = "listed", !.seen = listed,
                                 !.writes = writes, !.claims = invoked /\ may]
    <2>4. next \in RequestType /\ next.who \in Members
      <3> HIDE DEF listed, writes
      <3>1. (invoked /\ may) \in BOOLEAN
        OBVIOUS
      <3> HIDE DEF may
      <3> QED
        BY <2>1, <2>2, <3>1 DEF RequestType
    <2>5. ReqType
      BY <2>3, <2>4, SetType
    <2> QED
      BY <1>6, <1>b, <1>c, <1>d, <2>5 DEF ListMembers
  <1>7. ASSUME NEW r \in Requests, FindSuccessor(r)
        PROVE  GroupType /\ AppType /\ ChatType /\ ReqType
    <2> DEFINE q == request[r]
    <2>1. q \in RequestType /\ q.who \in Members
      BY <1>7 DEF FindSuccessor, OpenHasMember
    <2>2. PICK heir \in Linked \union {NoOne} :
            request' = [request EXCEPT ![r] =
              [q EXCEPT !.step = "found", !.heir = heir,
                        !.seen = IF heir = NoOne THEN @
                                 ELSE [@ EXCEPT ![heir] = role[heir]]]]
      BY <1>7 DEF FindSuccessor, Successors
    <2> DEFINE next == [q EXCEPT !.step = "found", !.heir = heir,
                          !.seen = IF heir = NoOne THEN @
                                   ELSE [@ EXCEPT ![heir] = role[heir]]]
    <2>3. next \in RequestType /\ next.who \in Members
      <3>1. heir = NoOne \/ heir \in Members
        BY GroupAssumption
      <3> QED
        BY <2>1, <3>1 DEF RequestType, Seen, TypeOK
    <2>4. ReqType
      BY <2>2, <2>3, SetType
    <2> QED
      BY <1>7, <1>b, <1>c, <1>d, <2>4 DEF FindSuccessor
  <1>8. ASSUME NEW r \in Requests, CommitMembers(r)
        PROVE  GroupType /\ AppType /\ ChatType /\ ReqType
    <2>1. status' \in [Members -> {"absent", "active", "removed", "left"}]
      BY <1>8, WritesType DEF CommitMembers
    <2>2. ReqType
      BY <1>8, CloseType DEF CommitMembers
    <2> QED
      BY <1>8, <1>c, <1>d, <2>1, <2>2 DEF CommitMembers, TypeOK, Sources
  <1>9. ASSUME NEW r \in Requests, CommitClaim(r)
        PROVE  GroupType /\ AppType /\ ChatType /\ ReqType
    <2>1. status' \in [Members -> {"absent", "active", "removed", "left"}]
      BY <1>9, WritesType DEF CommitClaim
    <2>2. ReqType
      BY <1>9, CloseType DEF CommitClaim
    <2>3. Transfer(request[r], request[r].who, "first_invoker", NoOne)
      BY <1>9 DEF CommitClaim
    <2>4. request[r].who \in Linked /\ "first_invoker" \in Sources
      BY <1>9 DEF CommitClaim, Sources
    <2> QED
      BY <1>9, <1>d, <2>1, <2>2, <2>3, <2>4, TransferType DEF CommitClaim
  <1>10. ASSUME NEW r \in Requests, CommitUnlinkedClaim(r)
         PROVE  GroupType /\ AppType /\ ChatType /\ ReqType
    <2> DEFINE q   == request[r]
               new == [m \in Members |->
                         IF m = q.who THEN "owner"
                         ELSE IF role[m] = "owner" THEN "member" ELSE RoleSeen(q, m)]
    <2>1. status' \in [Members -> {"absent", "active", "removed", "left"}]
      BY <1>10, WritesType DEF CommitUnlinkedClaim
    <2>2. new \in [Members -> {"owner", "member"}]
      BY WritesType
    <2>3. role' \in [Members -> {"owner", "member"}]
      <3>1. role' = RolesWritten(q, new)
        BY <1>10 DEF CommitUnlinkedClaim
      <3> HIDE DEF new
      <3> QED
        BY <2>2, <3>1, WritesType
    <2>4. source' \in Sources
      BY <1>10 DEF CommitUnlinkedClaim, Written, Sources, TypeOK
    <2>5. ReqType
      BY <1>10, CloseType DEF CommitUnlinkedClaim
    <2> QED
      BY <1>10, <1>c, <1>d, <2>1, <2>3, <2>4, <2>5 DEF CommitUnlinkedClaim, TypeOK
  <1>11. ASSUME NEW r \in Requests, CommitSuccession(r)
         PROVE  GroupType /\ AppType /\ ChatType /\ ReqType
    <2>1. status' \in [Members -> {"absent", "active", "removed", "left"}]
      BY <1>11, WritesType DEF CommitSuccession
    <2>2. ReqType
      BY <1>11, CloseType DEF CommitSuccession
    <2>3. Transfer(request[r], request[r].heir, "transferred", Departing(request[r]))
      BY <1>11 DEF CommitSuccession
    <2>4. request[r].heir \in Linked /\ "transferred" \in Sources
      BY <1>11 DEF CommitSuccession, Sources, RequestType
    <2> QED
      BY <1>11, <1>d, <2>1, <2>2, <2>3, <2>4, TransferType DEF CommitSuccession
  <1>12. ASSUME NEW r \in Requests, CommitUnclaimed(r)
         PROVE  GroupType /\ AppType /\ ChatType /\ ReqType
    <2> DEFINE q   == request[r]
               new == [m \in Members |->
                         IF m = q.who THEN "member" ELSE RoleSeen(q, m)]
    <2>1. status' \in [Members -> {"absent", "active", "removed", "left"}]
      BY <1>12, WritesType DEF CommitUnclaimed
    <2>2. new \in [Members -> {"owner", "member"}]
      BY WritesType
    <2>3. role' \in [Members -> {"owner", "member"}]
      <3>1. role' = RolesWritten(q, new)
        BY <1>12 DEF CommitUnclaimed
      <3> HIDE DEF new
      <3> QED
        BY <2>2, <3>1, WritesType
    <2>4. source' \in Sources
      BY <1>12 DEF CommitUnclaimed, Written, Sources, TypeOK
    <2>5. appRole' \in [Linked -> {"none", "owner", "member"}]
      BY <1>12 DEF CommitUnclaimed, AccessRevoked, TypeOK
    <2>6. ReqType
      BY <1>12, CloseType DEF CommitUnclaimed
    <2> QED
      BY <1>12, <1>d, <2>1, <2>3, <2>4, <2>5, <2>6 DEF CommitUnclaimed, TypeOK
  <1>13. ASSUME NEW r \in Requests, Fail(r)
         PROVE  GroupType /\ AppType /\ ChatType /\ ReqType
    <2>1. request[r].who \in Members
      BY <1>13 DEF Fail, OpenHasMember
    <2>2. ChatType
      BY <1>13, <2>1 DEF Fail, TypeOK, Events
    <2>3. ReqType
      BY <1>13, CloseType DEF Fail
    <2> QED
      BY <1>13, <1>b, <1>c, <2>2, <2>3 DEF Fail
  <1>14. CASE CreateApp
    <2>1. AppType
      BY <1>14 DEF CreateApp, TypeOK
    <2> QED
      BY <1>14, <1>b, <1>d, <1>e, <2>1 DEF CreateApp
  <1>15. CASE UNCHANGED vars
    BY <1>15, <1>b, <1>c, <1>d, <1>e DEF vars
  <1> QED
    BY <1>1, <1>2, <1>3, <1>4, <1>5, <1>6, <1>7, <1>8, <1>9, <1>10, <1>11,
       <1>12, <1>13, <1>14, <1>15 DEF Next, Open, Commit

\* TypeOK: rows, requests and counters keep their types for every set of
\* members and of overlapping requests.
THEOREM TypeCorrect == Spec => []TypeOK
  <1>1. TypeInv => TypeOK
    BY DEF TypeInv
  <1> QED
    BY InitType, NextType, <1>1, PTL DEF Spec

\* No step gives the app a second owner by membership.
LEMMA OneOwnerStays == TypeInv /\ AppHasOneOwner /\ [Next]_vars => AppHasOneOwner'
  <1> SUFFICES ASSUME TypeInv, AppHasOneOwner, [Next]_vars PROVE AppHasOneOwner'
    OBVIOUS
  <1>0. UNCHANGED appVars => AppHasOneOwner'
    BY DEF appVars, AppHasOneOwner
  <1>1. ASSUME NEW q, NEW heir, NEW src, NEW departing, Transfer(q, heir, src, departing)
        PROVE  AppHasOneOwner'
    BY <1>0, <1>1 DEF Transfer, AccessTransferred, AppHasOneOwner
  <1>2. ASSUME NEW r \in Requests, CommitClaim(r)
        PROVE  AppHasOneOwner'
    BY <1>1, <1>2 DEF CommitClaim
  <1>3. ASSUME NEW r \in Requests, CommitSuccession(r)
        PROVE  AppHasOneOwner'
    BY <1>1, <1>3 DEF CommitSuccession
  <1>4. ASSUME NEW r \in Requests, CommitUnclaimed(r)
        PROVE  AppHasOneOwner'
    BY <1>4 DEF CommitUnclaimed, AccessRevoked, AppHasOneOwner
  <1>5. CASE CreateApp
    <2>1. \A u \in Linked : appRole[u] # "owner"
      BY <1>5, GroupAssumption DEF CreateApp, AppHasOneOwner
    <2> QED
      BY <1>5, <2>1 DEF CreateApp, AppHasOneOwner, TypeInv, TypeOK
  <1>6. CASE UNCHANGED appVars
    BY <1>0, <1>6
  <1>7. ASSUME NEW m \in Members, Depart(m) \/ Return(m)
        PROVE  UNCHANGED appVars
    BY <1>7 DEF Depart, Return
  <1>8. ASSUME NEW r \in Requests,
               \/ Open(r) \/ ListMembers(r) \/ FindSuccessor(r)
               \/ CommitMembers(r) \/ CommitUnlinkedClaim(r) \/ Fail(r)
        PROVE  UNCHANGED appVars
    BY <1>8 DEF Open, ReceiveMessage, StartTurn, ReceiveEvent, ReceiveLeave,
                ListMembers, FindSuccessor, CommitMembers, CommitUnlinkedClaim, Fail
  <1>9. UNCHANGED vars => UNCHANGED appVars
    BY DEF vars
  <1> QED
    BY <1>2, <1>3, <1>4, <1>5, <1>6, <1>7, <1>8, <1>9 DEF Next, Commit

\* Whatever becomes of the rows of the group, nobody but the user of the
\* app's row holds an owner membership of the app: authority over it is never
\* shared, however many claims, departures and creations overlap.
THEOREM OneOwnerOfTheApp == Spec => []AppHasOneOwner
  <1>1. Init => AppHasOneOwner
    BY DEF Init, AppHasOneOwner
  <1> QED
    BY InitType, NextType, OneOwnerStays, <1>1, PTL DEF Spec

-----------------------------------------------------------------------------
(***************************************************************************)
(* One request at a time.  What overlapping requests can break is kept     *)
(* when no two of them are open at once: what a request has loaded is then *)
(* what it commits against.                                                *)
(***************************************************************************)
OneAtATime == \A r, s \in Requests : r = s

\* What a request holds is what is stored; a removal it commits is of the one it was about.
Fresh(q) ==
  /\ q.owner = owner /\ q.source = source
  /\ \A m \in Members : q.seen[m] \in {Unread, role[m]}
  /\ q.claims => source = "unclaimed"
  /\ q.step = "found" => OwnerLeaves(q)
  /\ q.kind = "participant.removed" => StatusWritten(q)[q.who] = "removed"

GroupKept ==
  /\ source = "unclaimed" <=> Owners = {}
  /\ \A m, n \in Owners : m = n
  /\ \A m \in Owners : m \in Linked => m = owner
  /\ appOwner \in {NoOne, owner}

AllFresh == \A r \in Requests : request[r].step # "closed" => Fresh(request[r])

SingleInv == TypeInv /\ AppHasOneOwner /\ GroupKept /\ AllFresh

\* What a fresh request writes is what it means to.
LEMMA FreshWrites ==
  ASSUME TypeOK, NEW q \in RequestType, Fresh(q)
  PROVE  /\ \A m \in Members : RoleSeen(q, m) = role[m]
         /\ \A new \in [Members -> {"owner", "member"}] : RolesWritten(q, new) = new
         /\ \A src \in Sources : Written(q.source, src, source) = src
         /\ \A heir \in Linked : Written(q.owner, heir, owner) = heir
  <1>1. \A m \in Members : RoleSeen(q, m) = role[m]
    BY DEF Fresh, RoleSeen
  <1>2. ASSUME NEW new \in [Members -> {"owner", "member"}]
        PROVE  RolesWritten(q, new) = new
    <2>1. \A m \in Members : RolesWritten(q, new)[m] = new[m]
      BY <1>1 DEF RolesWritten, Written
    <2> QED
      BY <2>1 DEF RolesWritten
  <1> QED
    BY <1>1, <1>2 DEF Fresh, Written

\* A transfer makes the heir the one owner of the group and of its app.
LEMMA TransferMoves ==
  ASSUME TypeOK, GroupKept, NEW q \in RequestType, Fresh(q), NEW heir \in Linked,
         NEW src \in {"first_invoker", "transferred"}, NEW departing,
         Transfer(q, heir, src, departing)
  PROVE  /\ GroupKept'
         /\ role' = [m \in Members |-> IF m = heir THEN "owner" ELSE "member"]
  <1>1. role' = [m \in Members |-> IF m = heir THEN "owner" ELSE "member"]
    <2>1. role' = RolesWritten(q, RolesMoved(q, heir))
      BY DEF Transfer
    <2>2. RolesMoved(q, heir) \in [Members -> {"owner", "member"}]
      BY DEF RolesMoved
    <2>3. role' = RolesMoved(q, heir)
      BY <2>1, <2>2, FreshWrites
    <2> QED
      BY <2>3 DEF RolesMoved
  <1>2. owner' = heir /\ source' = src
    BY FreshWrites DEF Transfer, Sources
  <1>3. appOwner' \in {NoOne, heir}
    BY DEF Transfer, appVars
  <1>4. heir \in Members
    BY GroupAssumption
  <1>5. \A m \in Members : m \in Owners' <=> m = heir
    BY <1>1 DEF Owners
  <1>6. Owners' \subseteq Members
    BY DEF Owners
  <1> QED
    BY <1>1, <1>2, <1>3, <1>4, <1>5, <1>6 DEF GroupKept

\* A request that goes on, with the group as it is.
LEMMA RequestMoves ==
  ASSUME SingleInv, TypeInv', AppHasOneOwner', NEW r \in Requests, NEW n,
         request' = [request EXCEPT ![r] = n], Fresh(n), UNCHANGED groupVars,
         appOwner' = appOwner
  PROVE  SingleInv'
  <1>0. request \in [Requests -> RequestType]
    BY TypeOKRequests DEF SingleInv, TypeInv
  <1>1. GroupKept'
    BY DEF SingleInv, GroupKept, Owners, groupVars
  <1>2. ASSUME NEW x \in Requests, request'[x].step # "closed"
        PROVE  Fresh(request[x])'
    <2>1. PICK y : y = request'[x]
      OBVIOUS
    <2>2. Fresh(y)
      BY <1>0, <1>2, <2>1 DEF SingleInv, AllFresh
    <2>3. Fresh(y)'
      BY <2>2 DEF Fresh, OwnerLeaves, StatusWritten, groupVars
    <2> QED
      BY <2>1, <2>3 DEF Fresh, OwnerLeaves, StatusWritten
  <1> QED
    BY <1>1, <1>2 DEF SingleInv, AllFresh

\* Requests that are opened.
LEMMA OpenKeeps ==
  ASSUME SingleInv, TypeInv', AppHasOneOwner', NEW r \in Requests, Open(r)
  PROVE  SingleInv'
  <1>0. UNCHANGED groupVars /\ appOwner' = appOwner
    BY DEF Open, ReceiveMessage, StartTurn, ReceiveEvent, ReceiveLeave, appVars
  <1>1. ASSUME NEW m \in Members, ReceiveMessage(r, m)
        PROVE  SingleInv'
    <2>1. PICK said : request' = [request EXCEPT ![r] = [Opened("message", m) EXCEPT !.writes = said]]
      BY <1>1 DEF ReceiveMessage
    <2> DEFINE n == [Opened("message", m) EXCEPT !.writes = said]
    <2>2. /\ n.step = "loaded" /\ n.kind = "message" /\ n.claims = FALSE /\ n.owner = owner
          /\ n.source = source /\ n.seen = Unseen
      BY DEF Opened, Closed
    <2> HIDE DEF n
    <2>3. Fresh(n)
      BY <2>2 DEF Fresh, Unseen
    <2> QED
      BY <1>0, <2>1, <2>3, RequestMoves DEF n
  <1>2. ASSUME NEW m \in Members, StartTurn(r, m)
        PROVE  SingleInv'
    <2>1. request' = [request EXCEPT ![r] = Opened("turn", m)]
      BY <1>2 DEF StartTurn
    <2> DEFINE n == Opened("turn", m)
    <2>2. /\ n.step = "loaded" /\ n.kind = "turn" /\ n.claims = FALSE /\ n.owner = owner
          /\ n.source = source /\ n.seen = Unseen
      BY DEF Opened, Closed
    <2> HIDE DEF n
    <2>3. Fresh(n)
      BY <2>2 DEF Fresh, Unseen
    <2> QED
      BY <1>0, <2>1, <2>3, RequestMoves DEF n
  <1>3. ASSUME NEW e \in events, ReceiveEvent(r, e)
        PROVE  SingleInv'
    <2> DEFINE m == e.who
               to == IF e.type = "participant.added" THEN "active" ELSE "removed"
               w == IF status[m] = to THEN Unlisted ELSE to
               seen == [Unseen EXCEPT ![m] = role[m]]
               writes == [Nothing EXCEPT ![m] = w]
               n == [Opened(e.type, m) EXCEPT !.seen = seen, !.writes = writes]
    <2>0. m \in Members /\ e.type \in EventTypes /\ status[m] # Unlisted
      BY DEF SingleInv, TypeInv, TypeOK, Events, Unlisted
    <2>1. request' = [request EXCEPT ![r] = n]
      BY <1>3 DEF ReceiveEvent, Opened, Closed
    <2>2. /\ n.step = "loaded" /\ n.kind = e.type /\ n.claims = FALSE /\ n.owner = owner
          /\ n.source = source /\ n.seen = seen /\ n.writes = writes /\ n.who = m
      BY DEF Opened, Closed
    <2>3. \A x \in Members : seen[x] \in {Unread, role[x]}
      BY <2>0 DEF Unseen
    <2>4. e.type = "participant.removed" => StatusWritten(n)[m] = "removed"
      <3>1. writes[m] = w
        BY <2>0 DEF Nothing
      <3>2. StatusWritten(n)[m] = IF w = Unlisted THEN status[m] ELSE w
        <4> HIDE DEF w, writes, n
        <4> QED
          BY <2>0, <2>2, <3>1 DEF StatusWritten
      <3> HIDE DEF writes, n
      <3> QED
        BY <2>0, <3>2 DEF Unlisted
    <2> HIDE DEF n, seen, writes
    <2>5. Fresh(n)
      BY <2>2, <2>3, <2>4 DEF Fresh
    <2> QED
      BY <1>0, <2>1, <2>5, RequestMoves
  <1>4. ASSUME NEW u \in Linked, ReceiveLeave(r, u)
        PROVE  SingleInv'
    <2> DEFINE seen == [Unseen EXCEPT ![u] = role[u]]
               writes == [Nothing EXCEPT ![u] = "left"]
               n == [Opened("leave", u) EXCEPT !.seen = seen, !.writes = writes]
    <2>1. request' = [request EXCEPT ![r] = n]
      BY <1>4 DEF ReceiveLeave, Opened, Closed
    <2>2. /\ n.step = "loaded" /\ n.kind = "leave" /\ n.claims = FALSE /\ n.owner = owner
          /\ n.source = source /\ n.seen = seen
      BY DEF Opened, Closed
    <2>3. \A x \in Members : seen[x] \in {Unread, role[x]}
      BY GroupAssumption DEF Unseen
    <2> HIDE DEF n, seen, writes
    <2>4. Fresh(n)
      BY <2>2, <2>3 DEF Fresh
    <2> QED
      BY <1>0, <2>1, <2>4, RequestMoves
  <1> QED
    BY <1>1, <1>2, <1>3, <1>4 DEF Open

\* Requests that go on.
LEMMA ReadingKeeps ==
  ASSUME SingleInv, TypeInv', AppHasOneOwner', NEW r \in Requests,
         ListMembers(r) \/ FindSuccessor(r)
  PROVE  SingleInv'
  <1>0. /\ UNCHANGED groupVars /\ appOwner' = appOwner /\ request[r] \in RequestType
        /\ Fresh(request[r]) /\ request[r].who \in Members
    <2>1. request[r] \in RequestType /\ request[r].step # "closed"
      BY TypeOKRequests DEF SingleInv, TypeInv, ListMembers, FindSuccessor
    <2> QED
      BY <2>1 DEF SingleInv, AllFresh, TypeInv, OpenHasMember, ListMembers, FindSuccessor, appVars
  <1>1. CASE ListMembers(r)
    <2> DEFINE q == request[r]
               listed == [m \in Members |-> IF StatusWritten(q)[m] = "active" THEN role[m] ELSE Unread]
               writes == [m \in Members |-> IF q.writes[m] = status[m] THEN Unlisted ELSE q.writes[m]]
               may == StatusWritten(q)[q.who] = "active" /\ Claimable(q.source)
    <2>1. /\ q.kind \in {"message", "turn"}
          /\ \E invoked \in BOOLEAN :
               request' = [request EXCEPT ![r] =
                 [q EXCEPT !.step = "listed", !.seen = listed, !.writes = writes,
                           !.claims = invoked /\ may]]
      BY <1>1 DEF ListMembers
    <2>2. PICK invoked \in BOOLEAN :
            request' = [request EXCEPT ![r] =
              [q EXCEPT !.step = "listed", !.seen = listed, !.writes = writes,
                        !.claims = invoked /\ may]]
      BY <2>1
    <2> DEFINE n == [q EXCEPT !.step = "listed", !.seen = listed, !.writes = writes,
                              !.claims = invoked /\ may]
    <2> HIDE DEF listed, writes, may
    <2>3. /\ n.step = "listed" /\ n.kind = q.kind /\ n.owner = q.owner /\ n.source = q.source
          /\ n.seen = listed /\ (n.claims <=> invoked /\ may)
      BY <1>0 DEF RequestType
    <2>4. \A m \in Members : listed[m] \in {Unread, role[m]}
      BY DEF listed
    <2>5. may => source = "unclaimed"
      BY <1>0 DEF may, Claimable, Fresh
    <2>6. q.owner = owner /\ q.source = source
      BY <1>0 DEF Fresh
    <2>7. Fresh(n)
      <3> HIDE DEF n
      <3> QED
        BY <2>1, <2>3, <2>4, <2>5, <2>6 DEF Fresh
    <2> QED
      BY <1>0, <2>2, <2>7, RequestMoves
  <1>2. CASE FindSuccessor(r)
    <2> DEFINE q == request[r]
    <2>1. PICK heir \in Linked \cup {NoOne} :
            /\ heir # NoOne => heir # q.who
            /\ request' = [request EXCEPT ![r] =
                 [q EXCEPT !.step = "found", !.heir = heir,
                           !.seen = IF heir = NoOne THEN @ ELSE [@ EXCEPT ![heir] = role[heir]]]]
      BY <1>2 DEF FindSuccessor, Successors
    <2>2. OwnerLeaves(q)
      BY <1>2 DEF FindSuccessor
    <2> DEFINE seen == IF heir = NoOne THEN q.seen ELSE [q.seen EXCEPT ![heir] = role[heir]]
               n == [q EXCEPT !.step = "found", !.heir = heir, !.seen = seen]
    <2>3. request' = [request EXCEPT ![r] = n]
      BY <2>1
    <2>4. /\ n.step = "found" /\ n.kind = q.kind /\ n.owner = q.owner /\ n.source = q.source
          /\ n.seen = seen /\ n.who = q.who /\ n.writes = q.writes /\ n.claims = q.claims
      BY <1>0 DEF RequestType
    <2>5. q.seen \in [Members -> {"owner", "member", Unread}]
      BY <1>0 DEF RequestType, Seen
    <2>6. \A m \in Members : q.seen[m] \in {Unread, role[m]}
      BY <1>0 DEF Fresh
    <2>7. (\A m \in Members : seen[m] \in {Unread, role[m]}) /\ seen[q.who] = q.seen[q.who]
      <3>1. CASE heir = NoOne
        BY <2>6, <3>1
      <3>2. CASE heir # NoOne
        BY <1>0, <2>1, <2>5, <2>6, <3>2
      <3> QED
        BY <3>1, <3>2
    <2> HIDE DEF n, seen
    <2>8. OwnerLeaves(n)
      BY <2>2, <2>4, <2>7 DEF OwnerLeaves
    <2>9. StatusWritten(n) = StatusWritten(q)
      BY <2>4 DEF StatusWritten
    <2>10. Fresh(n)
      BY <1>0, <2>4, <2>7, <2>8, <2>9 DEF Fresh
    <2> QED
      BY <1>0, <2>3, <2>10, RequestMoves
  <1> QED
    BY <1>1, <1>2

\* Requests that commit or fail: no other is open.
LEMMA CommitKeepsGroup ==
  ASSUME OneAtATime, SingleInv, TypeInv', AppHasOneOwner', NEW r \in Requests,
         Commit(r) \/ Fail(r)
  PROVE  /\ SingleInv'
         /\ \A m \in Owners : role'[m] # "owner" => status'[m] = "removed"
  <1> DEFINE q == request[r]
  <1>0. /\ TypeOK /\ GroupKept /\ q \in RequestType /\ q.step # "closed" /\ Fresh(q)
        /\ q.who \in Members /\ Close(r) /\ request \in [Requests -> RequestType]
    <2>1. TypeOK /\ GroupKept /\ q.step # "closed" /\ Close(r) /\ request \in [Requests -> RequestType]
      BY TypeOKRequests DEF SingleInv, TypeInv, Commit, CommitMembers, CommitClaim,
         CommitUnlinkedClaim, CommitSuccession, CommitUnclaimed, Fail
    <2> QED
      BY <2>1 DEF SingleInv, AllFresh, TypeInv, OpenHasMember
  <1>1. AllFresh'
    <2>1. \A x \in Requests : x = r
      BY DEF OneAtATime
    <2>2. request'[r].step = "closed"
      BY <1>0 DEF Close, Closed
    <2> QED
      BY <2>1, <2>2 DEF AllFresh
  <1>2. SUFFICES /\ GroupKept'
                 /\ \A m \in Owners : role'[m] # "owner" => status'[m] = "removed"
    BY <1>1 DEF SingleInv
  <1>o. \A m \in Owners : m \in Members /\ role[m] = "owner"
    BY DEF Owners
  <1>r. role \in [Members -> {"owner", "member"}]
    BY <1>0 DEF TypeOK
  <1>3. CASE CommitMembers(r) \/ Fail(r)
    <2>1. UNCHANGED <<role, owner, source, appVars>>
      BY <1>3 DEF CommitMembers, Fail, groupVars
    <2> QED
      BY <1>0, <1>o, <2>1 DEF GroupKept, Owners, appVars
  <1>4. CASE CommitClaim(r)
    <2>1. q.claims /\ q.who \in Linked /\ Transfer(q, q.who, "first_invoker", NoOne)
      BY <1>4 DEF CommitClaim
    <2>2. Owners = {}
      BY <1>0, <2>1 DEF Fresh, GroupKept
    <2> QED
      BY <1>0, <2>1, <2>2, TransferMoves
  <1>5. CASE CommitUnlinkedClaim(r)
    <2> DEFINE new == [m \in Members |->
                         IF m = q.who THEN "owner"
                         ELSE IF role[m] = "owner" THEN "member" ELSE RoleSeen(q, m)]
    <2>1. /\ q.claims /\ q.who \notin Linked /\ role' = RolesWritten(q, new)
          /\ source' = Written(q.source, "first_invoker", source)
          /\ UNCHANGED <<owner, appVars>>
      BY <1>5 DEF CommitUnlinkedClaim
    <2>2. Owners = {} /\ \A m \in Members : RoleSeen(q, m) = role[m]
      BY <1>0, <2>1, FreshWrites DEF Fresh, GroupKept
    <2>3. new \in [Members -> {"owner", "member"}]
      BY <1>r, <2>2
    <2>4. role' = new /\ source' = "first_invoker"
      <3> HIDE DEF new
      <3> QED
        BY <1>0, <2>1, <2>3, FreshWrites DEF Sources
    <2>5. \A m \in Members : role'[m] = "owner" <=> m = q.who
      BY <1>r, <2>2, <2>4
    <2>6. Owners' = {q.who}
      BY <1>0, <2>5 DEF Owners
    <2> QED
      BY <1>0, <2>1, <2>2, <2>4, <2>6 DEF GroupKept, appVars
  <1>6. CASE CommitSuccession(r)
    <2>1. /\ q.step = "found" /\ q.heir \in Linked /\ status' = StatusWritten(q)
          /\ Transfer(q, q.heir, "transferred", Departing(q))
      BY <1>0, <1>6 DEF CommitSuccession, RequestType
    <2>2. \A m \in Owners : m = q.who /\ status'[m] = "removed"
      <3>1. OwnerLeaves(q)
        BY <1>0, <2>1 DEF Fresh
      <3>2. role[q.who] = "owner" /\ StatusWritten(q)[q.who] = "removed"
        BY <1>0, <3>1 DEF Fresh, OwnerLeaves, Unread
      <3>3. q.who \in Owners
        BY <1>0, <3>2 DEF Owners
      <3> QED
        BY <1>0, <2>1, <3>2, <3>3 DEF GroupKept
    <2> QED
      BY <1>0, <2>1, <2>2, TransferMoves
  <1>7. CASE CommitUnclaimed(r)
    <2> DEFINE new == [m \in Members |-> IF m = q.who THEN "member" ELSE RoleSeen(q, m)]
    <2>1. /\ q.step = "found" /\ status' = StatusWritten(q) /\ role' = RolesWritten(q, new)
          /\ source' = Written(q.source, "unclaimed", source) /\ UNCHANGED <<owner, appOwner>>
      BY <1>7 DEF CommitUnclaimed
    <2>2. \A m \in Owners : m = q.who /\ status'[m] = "removed"
      <3>1. OwnerLeaves(q)
        BY <1>0, <2>1 DEF Fresh
      <3>2. role[q.who] = "owner" /\ StatusWritten(q)[q.who] = "removed"
        BY <1>0, <3>1 DEF Fresh, OwnerLeaves, Unread
      <3>3. q.who \in Owners
        BY <1>0, <3>2 DEF Owners
      <3> QED
        BY <1>0, <2>1, <3>2, <3>3 DEF GroupKept
    <2>3. \A m \in Members : RoleSeen(q, m) = role[m]
      BY <1>0, FreshWrites
    <2>4. new \in [Members -> {"owner", "member"}]
      BY <1>r, <2>3
    <2>5. role' = new /\ source' = "unclaimed"
      <3> HIDE DEF new
      <3> QED
        BY <1>0, <2>1, <2>4, FreshWrites DEF Sources
    <2>6. \A m \in Members : role'[m] # "owner"
      BY <2>2, <2>3, <2>5 DEF Owners
    <2>7. Owners' = {}
      BY <2>6 DEF Owners
    <2> QED
      BY <1>0, <2>1, <2>2, <2>5, <2>7 DEF GroupKept
  <1> QED
    BY <1>3, <1>4, <1>5, <1>6, <1>7 DEF Commit

\* The chat at Linq, and the making of the app.
LEMMA OthersKeepGroup ==
  ASSUME SingleInv, TypeInv', AppHasOneOwner',
         (\E m \in Members : Depart(m) \/ Return(m)) \/ CreateApp \/ UNCHANGED vars
  PROVE  SingleInv'
  <1>1. UNCHANGED <<status, role, owner, source, request>> /\ appOwner' \in {appOwner, owner}
    BY DEF Depart, Return, CreateApp, vars, groupVars, appVars, chatVars
  <1>2. GroupKept'
    BY <1>1 DEF SingleInv, GroupKept, Owners
  <1>3. AllFresh'
    BY <1>1 DEF SingleInv, AllFresh, Fresh, OwnerLeaves, StatusWritten
  <1> QED
    BY <1>2, <1>3 DEF SingleInv

\* SingleInv holds at first.
LEMMA SingleInitially == Init => SingleInv
  <1> SUFFICES ASSUME Init
               PROVE  SingleInv
    OBVIOUS
  <1>1. TypeInv
    BY InitType
  <1>2. Owners = {}
    BY DEF Init, Owners
  <1> QED
    BY <1>1, <1>2 DEF SingleInv, GroupKept, AllFresh, AppHasOneOwner, Init, Closed

\* Every step keeps SingleInv, and only who was removed stops being the owner.
LEMMA SingleKeeps ==
  ASSUME OneAtATime, SingleInv, [Next]_vars
  PROVE  /\ SingleInv'
         /\ \A m \in Owners : role'[m] # "owner" => status'[m] = "removed"
  <1>0. TypeInv' /\ AppHasOneOwner'
    BY NextType, OneOwnerStays DEF SingleInv
  <1>g. UNCHANGED role => \A m \in Owners : role'[m] # "owner" => status'[m] = "removed"
    BY DEF Owners
  <1>1. CASE (\E m \in Members : Depart(m) \/ Return(m)) \/ CreateApp \/ UNCHANGED vars
    <2>1. UNCHANGED role
      BY <1>1 DEF Depart, Return, CreateApp, vars, groupVars
    <2> QED
      BY <1>0, <1>1, <1>g, <2>1, OthersKeepGroup
  <1>2. ASSUME NEW r \in Requests, Open(r) \/ ListMembers(r) \/ FindSuccessor(r)
        PROVE  /\ SingleInv'
               /\ \A m \in Owners : role'[m] # "owner" => status'[m] = "removed"
    <2>1. UNCHANGED role
      BY <1>2 DEF Open, ReceiveMessage, StartTurn, ReceiveEvent, ReceiveLeave, ListMembers,
         FindSuccessor, groupVars
    <2> QED
      BY <1>0, <1>2, <1>g, <2>1, OpenKeeps, ReadingKeeps
  <1>3. ASSUME NEW r \in Requests, Commit(r) \/ Fail(r)
        PROVE  /\ SingleInv'
               /\ \A m \in Owners : role'[m] # "owner" => status'[m] = "removed"
    BY <1>0, <1>3, CommitKeepsGroup
  <1> QED
    BY <1>1, <1>2, <1>3 DEF Next

\* Who authorize_user takes for the owner of the app is the owner of the group and nobody else,
\* when no two requests on the group are open at once.
THEOREM AuthorityFollows ==
  ASSUME OneAtATime
  PROVE  Spec => []AuthorityFollowsTheGroup
  <1>1. ASSUME SingleInv
        PROVE  AuthorityFollowsTheGroup
    <2> SUFFICES ASSUME Owners \subseteq Linked, appOwner # NoOne, NEW u \in Linked
                 PROVE  Authority(u) = "owner" <=> u \in Owners
      BY DEF AuthorityFollowsTheGroup
    <2>1. appOwner = owner /\ (\A x \in Owners : x = owner) /\ (source = "unclaimed" <=> Owners = {})
      BY <1>1 DEF SingleInv, GroupKept
    <2>2. appRole[u] = "owner" => u = appOwner
      BY <1>1 DEF SingleInv, AppHasOneOwner
    <2> QED
      BY <2>1, <2>2 DEF Authority
  <1>2. SingleInv /\ [Next]_vars => SingleInv'
    BY SingleKeeps
  <1> QED
    BY <1>1, <1>2, SingleInitially, PTL DEF Spec

\* And then nobody takes a group over: its owner stops being its owner when he was removed from
\* it, claims and successions being made against the rows as they are.
THEOREM OwnershipStays ==
  ASSUME OneAtATime
  PROVE  Spec => OwnershipIsNotTaken
  <1>1. SingleInv /\ [Next]_vars =>
          /\ SingleInv'
          /\ [\A m \in Owners : role'[m] # "owner" => status'[m] = "removed"]_vars
    BY SingleKeeps
  <1> QED
    BY <1>1, SingleInitially, PTL DEF Spec, OwnershipIsNotTaken

-----------------------------------------------------------------------------
(***************************************************************************)
(* The invites of a group of the web.                                      *)
(***************************************************************************)
InvitesSpec == InvitesInit /\ [][InvitesNext]_inviteVars

LetInWith(g) == {i \in InviteLinks : <<g, i>> \in letIn}

\* A count that was read is one the invite had, when no more people had been let in than now; it
\* is the one the invite has, unless joins with it have overlapped.
JoinKept(j) ==
  /\ joining[j].at = "idle" <=> joining[j] = Unjoined
  /\ joining[j].at # "idle" =>
       /\ joining[j].who \in Guests /\ joining[j].by \in InviteLinks
       /\ joining[j].count < MaxUses
       /\ joining[j].count <= Cardinality(LetInBy(joining[j].by))
       /\ joining[j].by \notin shared => joining[j].count = link[joining[j].by].uses
  /\ joining[j].at = "looked" /\ joining[j].row # "absent" => guest[joining[j].who] # "absent"

\* Joins with an invite are alone with it, unless they overlap.
AloneWith(i) ==
  i \notin shared => \A j, k \in Joins : joining[j].by = i /\ joining[k].by = i => j = k

\* As many are let in by an invite as it counts, each once.
LinkKept(i) ==
  /\ IsFiniteSet(LetInBy(i))
  /\ link[i].uses <= Cardinality(LetInBy(i))
  /\ i \notin shared => link[i].uses = Cardinality(LetInBy(i))

GuestKept(g) ==
  IF guest[g] = "absent" THEN LetInWith(g) = {}
                         ELSE \E i \in InviteLinks : LetInWith(g) = {i}

InvitesInv ==
  /\ InvitesTypeOK
  /\ \A j \in Joins : JoinKept(j)
  /\ \A i \in InviteLinks : AloneWith(i) /\ LinkKept(i)
  /\ \A g \in Guests : GuestKept(g)

\* At first nobody is let in.
LEMMA InvitesInitially == InvitesInit => InvitesInv
  <1> SUFFICES ASSUME InvitesInit
               PROVE  InvitesInv
    OBVIOUS
  <1>1. InvitesTypeOK
    BY InvitesAssumption DEF InvitesInit, InvitesTypeOK, Unjoined
  <1>2. \A j \in Joins : JoinKept(j)
    BY DEF InvitesInit, JoinKept, Unjoined
  <1>3. \A i \in InviteLinks : AloneWith(i)
    BY InvitesAssumption DEF InvitesInit, AloneWith, Unjoined
  <1>4. \A i \in InviteLinks : LetInBy(i) = {}
    BY DEF InvitesInit, LetInBy
  <1>5. \A i \in InviteLinks : LinkKept(i)
    BY <1>4, FS_EmptySet DEF InvitesInit, LinkKept
  <1>6. \A g \in Guests : GuestKept(g)
    BY DEF InvitesInit, GuestKept, LetInWith
  <1> QED
    BY <1>1, <1>2, <1>3, <1>5, <1>6 DEF InvitesInv

\* An invite is made, or expires.
LEMMA LinkMoves ==
  ASSUME InvitesInv, NEW i \in InviteLinks, Invite(i) \/ LinkExpires(i)
  PROVE  InvitesInv'
  <1>1. PICK st \in {"open", "expired"} : link' = [link EXCEPT ![i].status = st]
    BY DEF Invite, LinkExpires
  <1>2. UNCHANGED <<guest, joining, letIn, shared>>
    BY DEF Invite, LinkExpires
  <1>3. /\ \A x \in InviteLinks : link'[x].uses = link[x].uses
        /\ link' \in [InviteLinks -> [status : {"unmade", "open", "expired"}, uses : 0..MaxUses]]
    BY <1>1 DEF InvitesInv, InvitesTypeOK
  <1>4. InvitesTypeOK'
    BY <1>2, <1>3 DEF InvitesInv, InvitesTypeOK
  <1>5. \A x : LetInBy(x)' = LetInBy(x)
    BY <1>2 DEF LetInBy
  <1>6. \A j \in Joins : JoinKept(j)'
    BY <1>2, <1>3, <1>5 DEF InvitesInv, JoinKept
  <1>7. \A x \in InviteLinks : AloneWith(x)' /\ LinkKept(x)'
    BY <1>2, <1>3, <1>5 DEF InvitesInv, AloneWith, LinkKept
  <1>8. \A g \in Guests : GuestKept(g)'
    BY <1>2 DEF InvitesInv, GuestKept, LetInWith
  <1> QED
    BY <1>4, <1>6, <1>7, <1>8 DEF InvitesInv

\* A join finds an invite good.
LEMMA CheckOK ==
  ASSUME InvitesInv, NEW j \in Joins, NEW g \in Guests, NEW i \in InviteLinks, CheckInvite(j, g, i)
  PROVE  InvitesInv'
  <1> DEFINE n == [Unjoined EXCEPT !.at = "checked", !.who = g, !.by = i, !.count = link[i].uses]
  <1>1. /\ joining' = [joining EXCEPT ![j] = n] /\ joining[j].at = "idle" /\ link[i].uses < MaxUses
        /\ shared' = IF \E other \in Joins : joining[other].by = i THEN shared \cup {i} ELSE shared
        /\ UNCHANGED <<link, guest, letIn>>
    BY DEF CheckInvite, Good
  <1>2. n.at = "checked" /\ n.who = g /\ n.by = i /\ n.count = link[i].uses /\ n.row = "absent"
    BY DEF Unjoined
  <1>3. n \in [at : {"idle", "checked", "looked"}, who : Guests \cup {NoGuest},
               by : InviteLinks \cup {NoLink}, count : 0..MaxUses, row : {"absent", "active", "left"}]
    BY DEF Unjoined, InvitesInv, InvitesTypeOK
  <1>4. n # Unjoined
    BY DEF Unjoined
  <1> HIDE DEF n
  <1>5. shared \subseteq shared' /\ shared' \subseteq InviteLinks
    BY <1>1 DEF InvitesInv, InvitesTypeOK
  <1>6. InvitesTypeOK'
    BY <1>1, <1>3, <1>5 DEF InvitesInv, InvitesTypeOK
  <1>7. joining'[j] = n /\ \A k \in Joins \ {j} : joining'[k] = joining[k]
    BY <1>1 DEF InvitesInv, InvitesTypeOK
  <1>8. \A x : LetInBy(x)' = LetInBy(x)
    BY <1>1 DEF LetInBy
  <1>9. \A k \in Joins : JoinKept(k)'
    <2>1. JoinKept(j)'
      BY <1>1, <1>2, <1>4, <1>5, <1>7, <1>8 DEF InvitesInv, JoinKept, LinkKept
    <2>2. ASSUME NEW k \in Joins \ {j}
          PROVE  JoinKept(k)'
      BY <1>1, <1>5, <1>7, <1>8 DEF InvitesInv, JoinKept
    <2> QED
      BY <2>1, <2>2
  <1>10. \A x \in InviteLinks : AloneWith(x)'
    <2> TAKE x \in InviteLinks
    <2>1. CASE x = i /\ \A other \in Joins : joining[other].by # i
      BY <1>7, <2>1 DEF AloneWith
    <2>2. CASE x = i /\ \E other \in Joins : joining[other].by = i
      BY <1>1, <2>2 DEF AloneWith
    <2>3. CASE x # i
      BY <1>2, <1>5, <1>7, <2>3 DEF InvitesInv, AloneWith
    <2> QED
      BY <2>1, <2>2, <2>3
  <1>11. \A x \in InviteLinks : LinkKept(x)'
    BY <1>1, <1>5, <1>8 DEF InvitesInv, LinkKept
  <1>12. \A h \in Guests : GuestKept(h)'
    BY <1>1 DEF InvitesInv, GuestKept, LetInWith
  <1> QED
    BY <1>6, <1>9, <1>10, <1>11, <1>12 DEF InvitesInv

\* It looks for the user among the members.
LEMMA LookOK ==
  ASSUME InvitesInv, NEW j \in Joins, LookForMember(j)
  PROVE  InvitesInv'
  <1> DEFINE r == guest[joining[j].who]
             n == [joining[j] EXCEPT !.at = "looked", !.row = r]
  <1>1. /\ joining[j].at = "checked" /\ joining' = [joining EXCEPT ![j] = n]
        /\ UNCHANGED <<link, guest, letIn, shared>>
    BY DEF LookForMember, InvitesInv, InvitesTypeOK
  <1>2. /\ joining[j] \in [at : {"idle", "checked", "looked"}, who : Guests \cup {NoGuest},
                           by : InviteLinks \cup {NoLink}, count : 0..MaxUses,
                           row : {"absent", "active", "left"}]
        /\ r \in {"absent", "active", "left"}
    BY <1>1 DEF InvitesInv, InvitesTypeOK, JoinKept
  <1>3. /\ n \in [at : {"idle", "checked", "looked"}, who : Guests \cup {NoGuest},
                  by : InviteLinks \cup {NoLink}, count : 0..MaxUses,
                  row : {"absent", "active", "left"}]
        /\ n.at = "looked" /\ n.who = joining[j].who /\ n.by = joining[j].by
        /\ n.count = joining[j].count /\ n.row = r
    BY <1>2
  <1>4. n # Unjoined
    BY <1>3 DEF Unjoined
  <1> HIDE DEF n
  <1>5. joining'[j] = n /\ \A k \in Joins \ {j} : joining'[k] = joining[k]
    BY <1>1 DEF InvitesInv, InvitesTypeOK
  <1>6. InvitesTypeOK'
    BY <1>1, <1>3 DEF InvitesInv, InvitesTypeOK
  <1>7. \A x : LetInBy(x)' = LetInBy(x)
    BY <1>1 DEF LetInBy
  <1>8. \A k \in Joins : JoinKept(k)'
    <2>1. JoinKept(j)'
      BY <1>1, <1>3, <1>4, <1>5, <1>7 DEF InvitesInv, JoinKept
    <2>2. ASSUME NEW k \in Joins \ {j}
          PROVE  JoinKept(k)'
      BY <1>1, <1>5, <1>7 DEF InvitesInv, JoinKept
    <2> QED
      BY <2>1, <2>2
  <1>9. \A x \in InviteLinks : AloneWith(x)'
    <2>1. \A k \in Joins : joining'[k].by = joining[k].by
      BY <1>3, <1>5
    <2> QED
      BY <1>1, <2>1 DEF InvitesInv, AloneWith
  <1>10. \A x \in InviteLinks : LinkKept(x)'
    BY <1>1, <1>7 DEF InvitesInv, LinkKept
  <1>11. \A h \in Guests : GuestKept(h)'
    BY <1>1 DEF InvitesInv, GuestKept, LetInWith
  <1> QED
    BY <1>6, <1>8, <1>9, <1>10, <1>11 DEF InvitesInv

\* It commits: whoever had no row is let in, and counted with the count that was read.
LEMMA CommitJoinOK ==
  ASSUME InvitesInv, NEW j \in Joins, CommitJoin(j)
  PROVE  InvitesInv'
  <1>0. PICK g \in Guests, i \in InviteLinks, c \in Nat :
          g = joining[j].who /\ i = joining[j].by /\ c = joining[j].count
    BY DEF CommitJoin, InvitesInv, InvitesTypeOK, JoinKept
  <1> DEFINE made == guest[g] = "absent"
  <1>1. /\ joining[j].at = "looked" /\ (joining[j].row = "absent" => guest[g] = "absent")
        /\ guest' = (IF joining[j].row = "active" THEN guest ELSE [guest EXCEPT ![g] = "active"])
        /\ link' = (IF TakesAPlace(j) THEN [link EXCEPT ![i].uses = c + 1] ELSE link)
        /\ letIn' = (IF made THEN letIn \cup {<<g, i>>} ELSE letIn)
        /\ joining' = [joining EXCEPT ![j] = Unjoined]
        /\ UNCHANGED shared
    BY <1>0 DEF CommitJoin
  <1>2. /\ g \in Guests /\ i \in InviteLinks /\ c \in Nat /\ c < MaxUses
        /\ c <= Cardinality(LetInBy(i)) /\ (i \notin shared => c = link[i].uses)
        /\ joining[j].row # "absent" => ~made
        /\ g = joining[j].who /\ i = joining[j].by
    BY <1>0, <1>1 DEF InvitesInv, InvitesTypeOK, JoinKept
  <1>3. TakesAPlace(j) <=> made
    BY <1>1, <1>2 DEF TakesAPlace
  <1>4. joining'[j] = Unjoined /\ \A k \in Joins \ {j} : joining'[k] = joining[k]
    BY <1>1 DEF InvitesInv, InvitesTypeOK
  <1>5. /\ guest' \in [Guests -> {"absent", "active", "left"}]
        /\ guest'[g] # "absent"
        /\ \A h \in Guests \ {g} : guest'[h] = guest[h]
    <2>1. joining[j].row = "active" => guest' = guest /\ guest[g] # "absent"
      BY <1>1, <1>2
    <2> QED
      BY <1>1, <1>2, <2>1 DEF InvitesInv, InvitesTypeOK
  <1>6. /\ link' \in [InviteLinks -> [status : {"unmade", "open", "expired"}, uses : 0..MaxUses]]
        /\ link'[i].uses = IF made THEN c + 1 ELSE link[i].uses
        /\ \A x \in InviteLinks \ {i} : link'[x] = link[x]
    <2>1. CASE made
      <3>1. link' = [link EXCEPT ![i].uses = c + 1]
        BY <1>1, <1>3, <2>1
      <3>2. c + 1 \in 0..MaxUses
        BY <1>2, InvitesAssumption
      <3> QED
        BY <1>2, <2>1, <3>1, <3>2 DEF InvitesInv, InvitesTypeOK
    <2>2. CASE ~made
      <3>1. link' = link
        BY <1>1, <1>3, <2>2
      <3> QED
        BY <1>2, <2>2, <3>1 DEF InvitesInv, InvitesTypeOK
    <2> QED
      BY <2>1, <2>2
  <1>7. InvitesTypeOK'
    <2>1. letIn' \subseteq Guests \X InviteLinks
      BY <1>1, <1>2 DEF InvitesInv, InvitesTypeOK
    <2>2. Unjoined \in [at : {"idle", "checked", "looked"}, who : Guests \cup {NoGuest},
                        by : InviteLinks \cup {NoLink}, count : 0..MaxUses,
                        row : {"absent", "active", "left"}]
      BY InvitesAssumption DEF Unjoined
    <2>3. joining' \in [Joins -> [at : {"idle", "checked", "looked"}, who : Guests \cup {NoGuest},
                                  by : InviteLinks \cup {NoLink}, count : 0..MaxUses,
                                  row : {"absent", "active", "left"}]]
      BY <1>1, <2>2 DEF InvitesInv, InvitesTypeOK
    <2> QED
      BY <1>1, <1>5, <1>6, <2>1, <2>3 DEF InvitesInv, InvitesTypeOK
  <1>8. /\ \A x \in InviteLinks \ {i} : LetInBy(x)' = LetInBy(x)
        /\ LetInBy(i)' = IF made THEN LetInBy(i) \cup {g} ELSE LetInBy(i)
    BY <1>1, <1>2 DEF LetInBy
  <1>9. made => g \notin LetInBy(i)
    BY <1>2 DEF InvitesInv, GuestKept, LetInWith, LetInBy
  <1>10. /\ IsFiniteSet(LetInBy(i)) /\ Cardinality(LetInBy(i)) \in Nat
    BY <1>2, FS_CardinalityType DEF InvitesInv, LinkKept
  <1>11. /\ IsFiniteSet(LetInBy(i))'
         /\ Cardinality(LetInBy(i))' = Cardinality(LetInBy(i)) + (IF made THEN 1 ELSE 0)
    <2> DEFINE S == LetInBy(i)
               T == IF made THEN S \cup {g} ELSE S
    <2>1. IsFiniteSet(T) /\ Cardinality(T) = Cardinality(S) + (IF made THEN 1 ELSE 0)
      <3>1. CASE made
        BY <1>9, <1>10, <3>1, FS_AddElement
      <3>2. CASE ~made
        BY <1>10, <3>2
      <3> QED
        BY <3>1, <3>2
    <2>2. LetInBy(i)' = T
      BY <1>8
    <2> QED
      BY <2>1, <2>2
  <1>12. \A x \in InviteLinks : LinkKept(x)'
    <2>1. ASSUME NEW x \in InviteLinks, x # i
          PROVE  LinkKept(x)'
      BY <1>1, <1>6, <1>8, <2>1 DEF InvitesInv, LinkKept
    <2>2. LinkKept(i) /\ link[i].uses \in Nat
      BY <1>2, InvitesAssumption DEF InvitesInv, InvitesTypeOK
    <2>3. LinkKept(i)'
      <3>1. CASE made
        BY <1>1, <1>2, <1>6, <1>10, <1>11, <2>2, <3>1 DEF LinkKept
      <3>2. CASE ~made
        BY <1>1, <1>6, <1>10, <1>11, <2>2, <3>2 DEF LinkKept
      <3> QED
        BY <3>1, <3>2
    <2> QED
      BY <2>1, <2>3
  <1>13. \A k \in Joins : JoinKept(k)'
    <2>1. JoinKept(j)'
      BY <1>4 DEF JoinKept, Unjoined
    <2>2. ASSUME NEW k \in Joins, k # j
          PROVE  JoinKept(k)'
      <3>0. PICK y : y = joining[k].by
        OBVIOUS
      <3>1. joining'[k] = joining[k] /\ JoinKept(k)
        BY <1>4, <2>2 DEF InvitesInv
      <3>2. joining[k].at # "idle" => y \in InviteLinks /\ joining[k].count \in Nat
        BY <3>0, <3>1 DEF JoinKept, InvitesInv, InvitesTypeOK
      <3>3. joining[k].at # "idle" => joining[k].count <= Cardinality(LetInBy(y))'
        <4>1. CASE y = i
          <5>1. Cardinality(LetInBy(i)) <= Cardinality(LetInBy(i))'
            BY <1>10, <1>11
          <5>2. Cardinality(LetInBy(i))' \in Nat
            BY <1>10, <1>11
          <5>3. LetInBy(y)' = LetInBy(i)'
            BY <4>1
          <5>4. joining[k].at # "idle" => joining[k].count <= Cardinality(LetInBy(i))
            BY <3>0, <3>1, <4>1 DEF JoinKept
          <5> QED
            BY <1>10, <3>2, <5>1, <5>2, <5>3, <5>4
        <4>2. CASE y # i
          BY <1>8, <3>0, <3>1, <3>2, <4>2 DEF JoinKept
        <4> QED
          BY <4>1, <4>2
      <3>4. joining[k].at # "idle" /\ y \notin shared => y # i
        BY <1>2, <2>2, <3>0, <3>2 DEF InvitesInv, AloneWith
      <3>5. joining[k].at # "idle" /\ y \notin shared => joining[k].count = link'[y].uses
        BY <1>6, <3>0, <3>1, <3>2, <3>4 DEF JoinKept
      <3>6. joining[k].at = "looked" /\ joining[k].row # "absent" => guest'[joining[k].who] # "absent"
        BY <1>5, <3>1 DEF JoinKept
      <3>7. joining'[k].by = y /\ joining[k].by = y
        BY <3>0, <3>1
      <3> QED
        BY <1>1, <3>1, <3>3, <3>5, <3>6, <3>7 DEF JoinKept
    <2> QED
      BY <2>1, <2>2
  <1>14. \A x \in InviteLinks : AloneWith(x)'
    <2>1. \A k \in Joins : joining'[k].by \in InviteLinks => k # j
      BY <1>4, InvitesAssumption DEF Unjoined
    <2>2. \A k \in Joins : joining'[k].by \in InviteLinks => joining'[k] = joining[k]
      BY <1>4, <2>1
    <2> QED
      BY <1>1, <2>2 DEF InvitesInv, AloneWith
  <1>15. \A h \in Guests : GuestKept(h)'
    <2>1. ASSUME NEW h \in Guests, h # g
          PROVE  GuestKept(h)'
      <3>1. LetInWith(h)' = LetInWith(h)
        BY <1>1, <2>1 DEF LetInWith
      <3> QED
        BY <1>5, <2>1, <3>1 DEF InvitesInv, GuestKept
    <2>2. GuestKept(g)'
      <3>1. CASE made
        <4>1. LetInWith(g) = {}
          BY <1>2, <3>1 DEF InvitesInv, GuestKept
        <4>2. LetInWith(g)' = {i}
          BY <1>1, <1>2, <3>1, <4>1 DEF LetInWith
        <4> QED
          BY <1>2, <1>5, <4>2 DEF GuestKept
      <3>2. CASE ~made
        <4>1. LetInWith(g)' = LetInWith(g)
          BY <1>1, <3>2 DEF LetInWith
        <4> QED
          BY <1>2, <1>5, <3>2, <4>1 DEF InvitesInv, GuestKept
      <3> QED
        BY <3>1, <3>2
    <2> QED
      BY <2>1, <2>2
  <1> QED
    BY <1>7, <1>12, <1>13, <1>14, <1>15 DEF InvitesInv

\* A join is given up.
LEMMA FailJoinOK ==
  ASSUME InvitesInv, NEW j \in Joins, FailJoin(j)
  PROVE  InvitesInv'
  <1>1. joining' = [joining EXCEPT ![j] = Unjoined] /\ UNCHANGED <<link, guest, letIn, shared>>
    BY DEF FailJoin
  <1>2. joining'[j] = Unjoined /\ \A k \in Joins \ {j} : joining'[k] = joining[k]
    BY <1>1 DEF InvitesInv, InvitesTypeOK
  <1>3. InvitesTypeOK'
    BY <1>1, InvitesAssumption DEF InvitesInv, InvitesTypeOK, Unjoined
  <1>4. \A x : LetInBy(x)' = LetInBy(x) /\ LetInWith(x)' = LetInWith(x)
    BY <1>1 DEF LetInBy, LetInWith
  <1>5. \A k \in Joins : JoinKept(k)'
    <2>1. JoinKept(j)'
      BY <1>2 DEF JoinKept, Unjoined
    <2>2. ASSUME NEW k \in Joins \ {j}
          PROVE  JoinKept(k)'
      BY <1>1, <1>2, <1>4 DEF InvitesInv, JoinKept
    <2> QED
      BY <2>1, <2>2
  <1>6. \A x \in InviteLinks : AloneWith(x)'
    <2>1. \A k \in Joins : joining'[k].by \in InviteLinks => joining'[k] = joining[k]
      BY <1>2, InvitesAssumption DEF Unjoined
    <2> QED
      BY <1>1, <2>1 DEF InvitesInv, AloneWith
  <1>7. /\ \A x \in InviteLinks : LinkKept(x)'
        /\ \A h \in Guests : GuestKept(h)'
    BY <1>1, <1>4 DEF InvitesInv, LinkKept, GuestKept
  <1> QED
    BY <1>3, <1>5, <1>6, <1>7 DEF InvitesInv

\* Somebody leaves: his row stays.
LEMMA LeaveGroupOK ==
  ASSUME InvitesInv, NEW g \in Guests, LeaveGroup(g)
  PROVE  InvitesInv'
  <1>1. /\ guest[g] = "active" /\ guest' = [guest EXCEPT ![g] = "left"]
        /\ UNCHANGED <<link, joining, letIn, shared>>
    BY DEF LeaveGroup
  <1>2. \A h \in Guests : guest'[h] = "absent" <=> guest[h] = "absent"
    BY <1>1 DEF InvitesInv, InvitesTypeOK
  <1>3. InvitesTypeOK'
    BY <1>1 DEF InvitesInv, InvitesTypeOK
  <1>4. \A x : LetInBy(x)' = LetInBy(x) /\ LetInWith(x)' = LetInWith(x)
    BY <1>1 DEF LetInBy, LetInWith
  <1>5. \A k \in Joins : JoinKept(k)'
    BY <1>1, <1>2, <1>4 DEF InvitesInv, JoinKept
  <1>6. \A x \in InviteLinks : AloneWith(x)' /\ LinkKept(x)'
    BY <1>1, <1>4 DEF InvitesInv, AloneWith, LinkKept
  <1>7. \A h \in Guests : GuestKept(h)'
    BY <1>2, <1>4 DEF InvitesInv, GuestKept
  <1> QED
    BY <1>3, <1>5, <1>6, <1>7 DEF InvitesInv

\* Every step keeps InvitesInv.
LEMMA InvitesStep == InvitesInv /\ [InvitesNext]_inviteVars => InvitesInv'
  <1> SUFFICES ASSUME InvitesInv, [InvitesNext]_inviteVars
               PROVE  InvitesInv'
    OBVIOUS
  <1>1. CASE UNCHANGED inviteVars
    <2>1. UNCHANGED <<link, guest, joining, letIn, shared>>
      BY <1>1 DEF inviteVars
    <2>2. \A x : LetInBy(x)' = LetInBy(x) /\ LetInWith(x)' = LetInWith(x)
      BY <2>1 DEF LetInBy, LetInWith
    <2> QED
      BY <2>1, <2>2 DEF InvitesInv, InvitesTypeOK, JoinKept, AloneWith, LinkKept, GuestKept
  <1>2. CASE InvitesNext
    BY <1>2, LinkMoves, CheckOK, LookOK, CommitJoinOK, FailJoinOK, LeaveGroupOK DEF InvitesNext
  <1> QED
    BY <1>1, <1>2

\* However joins overlap, and whoever leaves and comes back, an invite never counts more than
\* the people it let in, nor lets in others than it counts unless joins with it overlap; and
\* everyone was let in once.
THEOREM InvitesCount == InvitesSpec => [](InvitesTypeOK /\ InvitesCountPeople)
  <1>1. InvitesInv => InvitesTypeOK /\ InvitesCountPeople
    <2> SUFFICES ASSUME InvitesInv
                 PROVE  InvitesCountPeople
      BY DEF InvitesInv
    <2>1. ASSUME NEW g \in Guests
          PROVE  Cardinality(LetInWith(g)) = IF guest[g] = "absent" THEN 0 ELSE 1
      BY FS_EmptySet, FS_Singleton DEF InvitesInv, GuestKept
    <2>2. \A i \in InviteLinks :
            /\ link[i].uses <= Cardinality(LetInBy(i))
            /\ i \notin shared => link[i].uses = Cardinality(LetInBy(i))
      BY DEF InvitesInv, LinkKept
    <2> QED
      BY <2>1, <2>2 DEF InvitesCountPeople, LetInWith
  <1> QED
    BY <1>1, InvitesInitially, InvitesStep, PTL DEF InvitesSpec

-----------------------------------------------------------------------------
(***************************************************************************)
(* The messages of a conversation and their answers.                       *)
(***************************************************************************)
ConversationsSpec == ConversationsInit /\ [][ConversationsNext]_turnVars

\* Requests whose message is stored, and those that hold the lock while it lasts.
Accepted == {"arrived", "waiting", "locked", "deciding", "acknowledged", "running", "replied"}
Holding  == {"locked", "deciding", "acknowledged", "running"}

ProcType == [at : Busy \cup {"idle"}, key : Keys \cup {Nobody}, fresh : BOOLEAN,
             mode : {"agent", "onboarding"}, out : BOOLEAN, trigger : Nat, reads : SUBSET Nat]

\* Who reads up to a message has read what was written before it, unless it arrived after one
\* that was written later.
ReadsWell(t, R) ==
  /\ t \in R /\ R \subseteq stored
  /\ \A x \in stored \ late : x < t => x \in R

\* A reply says what it has read; that of a direct conversation is about its own message.
ReplyKept(r) ==
  /\ r.key \in Keys /\ r.claims = r.reads /\ r.through = r.trigger
  /\ ReadsWell(r.trigger, r.reads)
  /\ kind = "direct" /\ r.key \in Hooks => r.trigger = Message(r.key)

\* A request d of p is about a message that is there; while the lock holds it is alone, and
\* in a group ahead of every reply.
ProcKept(p, d) ==
  /\ d.at = "received" => d.key \in Hooks
  /\ d.at = "looked" => d.key \in WebMessages /\ (~d.fresh => d.key \in stored)
  /\ d.at \in Accepted => d.key \in Keys /\ Message(d.key) \in stored
  /\ d.at \in {"deciding", "acknowledged"} => kind = "group" /\ d.key \in Hooks
  /\ d.at = "replied" => d.key \in Hooks
  /\ d.mode = "onboarding" => kind = "direct"
  /\ d.at = "running" => /\ ReadsWell(d.trigger, d.reads)
                         /\ kind = "direct" /\ d.key \in Hooks => d.trigger = Message(d.key)
  /\ ~torn /\ d.at \in Holding => lock = p
  /\ ~torn /\ kind = "group" /\ d.key \in Hooks =>
       /\ d.at \in {"deciding", "acknowledged"} => \A r \in spoken : r.trigger < Message(d.key)
       /\ d.at = "running" => \A r \in spoken : r.trigger < d.trigger

\* The events whose message was stored, and a request or a reply has: one for each message.
Known(k) == \/ \E p \in Procs : proc[p].at \in Accepted /\ proc[p].key = k
            \/ \E r \in spoken : r.key = k
OneEventPerMessage ==
  /\ \A k \in Hooks : Known(k) => Message(k) \in stored
  /\ \A k, l \in Hooks : Known(k) /\ Known(l) /\ Message(k) = Message(l) => k = l

Bounded == \E b \in Nat : \A x \in stored : x <= b

TurnInv ==
  /\ ConversationsTypeOK /\ proc \in [Procs -> ProcType] /\ Bounded
  /\ \A r \in spoken : ReplyKept(r)
  /\ \A p \in Procs : ProcKept(p, proc[p])
  /\ OneEventPerMessage
  /\ EachMessageIsAnswered

\* Messages are numbered.
LEMMA MessageNumber ==
  ASSUME NEW k \in Keys
  PROVE  Message(k) \in Nat
  BY ConversationsAssumption DEF Keys, Message

LEMMA StoredNumbers ==
  ASSUME ConversationsTypeOK
  PROVE  stored \subseteq Nat
  BY MessageNumber DEF ConversationsTypeOK

\* There is a latest message, when there is any.
LEMMA LatestIsStored ==
  ASSUME TurnInv, stored # {}
  PROVE  Latest \in stored /\ \A x \in stored : x <= Latest
  <1>1. stored \subseteq Nat
    BY StoredNumbers DEF TurnInv
  <1> DEFINE B == {b \in Nat : \A x \in stored : x <= b}
  <1>2. B \subseteq Nat /\ B # {}
    BY DEF TurnInv, Bounded
  <1> HIDE DEF B
  <1>3. PICK b \in B : \A y \in B : ~(<<y, b>> \in OpToRel(<, Nat))
    BY <1>2, NatLessThanWellFounded, WFMin
  <1>4. \A y \in B : ~(y < b)
    BY <1>2, <1>3 DEF OpToRel
  <1>5. b \in Nat /\ \A x \in stored : x <= b
    BY DEF B
  <1>6. b \in stored
    <2> SUFFICES ASSUME b \notin stored
                 PROVE  FALSE
      OBVIOUS
    <2>1. \A x \in stored : x < b
      BY <1>1, <1>5
    <2>2. PICK z \in stored : TRUE
      OBVIOUS
    <2>3. b - 1 \in Nat
      BY <1>1, <1>5, <2>1, <2>2
    <2>4. \A x \in stored : x <= b - 1
      BY <1>1, <1>5, <2>1
    <2>5. b - 1 \in B
      BY <2>3, <2>4 DEF B
    <2> QED
      BY <1>4, <1>5, <2>5
  <1>7. \E m \in stored : \A x \in stored : x <= m
    BY <1>5, <1>6
  <1> QED
    BY <1>7 DEF Latest

\* Messages come, and those that come after one written later are late.
Grows ==
  /\ stored \subseteq stored' /\ late \subseteq late'
  /\ \A x \in stored' \ stored : (\E y \in stored : y > x) => x \in late'

LEMMA ReadsStay ==
  ASSUME ConversationsTypeOK, ConversationsTypeOK', Grows, NEW t, NEW R, ReadsWell(t, R)
  PROVE  ReadsWell(t, R)'
  <1>1. t \in stored /\ t \in stored' /\ stored \subseteq Nat /\ R \subseteq stored'
    BY StoredNumbers DEF ReadsWell, Grows
  <1>2. stored' \subseteq Nat
    BY StoredNumbers, MessageNumber DEF ConversationsTypeOK
  <1>3. ASSUME NEW x \in stored' \ late', x < t
        PROVE  x \in R
    <2>1. x \in stored
      BY <1>1, <1>2, <1>3 DEF Grows
    <2> QED
      BY <1>3, <2>1 DEF Grows, ReadsWell
  <1> QED
    BY <1>1, <1>3 DEF ReadsWell

LEMMA RepliesStay ==
  ASSUME TurnInv, ConversationsTypeOK', Grows, UNCHANGED kind, NEW r, ReplyKept(r)
  PROVE  ReplyKept(r)'
  <1>1. PICK t, R : t = r.trigger /\ R = r.reads
    OBVIOUS
  <1>2. ReadsWell(t, R)'
    BY <1>1, ReadsStay DEF TurnInv, ReplyKept
  <1> QED
    BY <1>1, <1>2 DEF ReplyKept

\* What others do leaves a request as it was.
LEMMA OtherStays ==
  ASSUME TurnInv, ConversationsTypeOK', Grows, UNCHANGED <<kind, torn>>,
         NEW p \in Procs, NEW q \in Procs, q # p, NEW d, ProcKept(q, d),
         lock = q => lock' = q, UNCHANGED spoken \/ proc[p].at = "running"
  PROVE  ProcKept(q, d)'
  <1>1. d.at = "running" => ReadsWell(d.trigger, d.reads)'
    <2>1. PICK t, R : t = d.trigger /\ R = d.reads
      OBVIOUS
    <2> QED
      BY <2>1, ReadsStay DEF TurnInv, ProcKept
  <1>2. stored \subseteq stored'
    BY DEF Grows
  <1>3. ~torn /\ d.at \in Holding => lock' = q /\ UNCHANGED spoken
    BY DEF TurnInv, ProcKept, Holding
  <1> QED
    BY <1>1, <1>2, <1>3 DEF ProcKept, Holding

\* The tables of a conversation, but for the replies.
RowsOK ==
  /\ onboarded \in BOOLEAN /\ optedOut \in BOOLEAN
  /\ recorded \subseteq Hooks /\ acks \subseteq Hooks /\ posted \subseteq Hooks
  /\ late \subseteq stored /\ covered \subseteq stored
  /\ stored \subseteq {Message(k) : k \in Keys}

\* A step of one request, that leaves it with d and stores no reply.
LEMMA StepKeeps ==
  ASSUME TurnInv, NEW p \in Procs, NEW d \in ProcType, proc' = [proc EXCEPT ![p] = d],
         Grows, RowsOK', Bounded', SkippedWasRead', UNCHANGED <<kind, torn, spoken>>,
         lock' \in Procs \cup {Nobody}, \A q \in Procs : q # p /\ lock = q => lock' = q,
         ProcKept(p, d)',
         d.at \in Accepted /\ d.key \in Hooks => Known(d.key) \/ Message(d.key) \notin stored
  PROVE  TurnInv'
  <1>1. proc' \in [Procs -> ProcType] /\ proc'[p] = d /\ \A q \in Procs \ {p} : proc'[q] = proc[q]
    BY DEF TurnInv
  <1>2. ConversationsTypeOK'
    <2>1. \A q \in Procs : proc'[q].at \in Busy \cup {"idle"}
      BY <1>1 DEF ProcType
    <2>2. \A r \in spoken' : r.key \in Keys /\ r.reads \subseteq stored'
      BY DEF TurnInv, ConversationsTypeOK, Grows
    <2>3. kind' \in {"direct", "group"} /\ torn' \in BOOLEAN
      BY DEF TurnInv, ConversationsTypeOK
    <2> QED
      BY <2>1, <2>2, <2>3 DEF RowsOK, ConversationsTypeOK
  <1>3. \A r \in spoken' : ReplyKept(r)'
    BY <1>2, RepliesStay DEF TurnInv
  <1>4. \A q \in Procs : ProcKept(q, proc[q])'
    <2>1. ASSUME NEW q \in Procs, q # p
          PROVE  ProcKept(q, proc[q])'
      <3>1. PICK e : e = proc[q]
        OBVIOUS
      <3>2. ProcKept(q, e)'
        BY <1>2, <2>1, <3>1, OtherStays DEF TurnInv
      <3>3. proc'[q] = e
        BY <1>1, <2>1, <3>1
      <3> QED
        BY <3>2, <3>3
    <2>2. ProcKept(p, proc[p])'
      BY <1>1
    <2> QED
      BY <2>1, <2>2
  <1>5. OneEventPerMessage'
    <2>1. ASSUME NEW k \in Hooks, Known(k)'
          PROVE  Known(k) \/ (k = d.key /\ d.at \in Accepted)
      BY <1>1, <2>1 DEF Known
    <2>2. d.at \in Accepted => Message(d.key) \in stored'
      BY DEF ProcKept
    <2>3. \A k \in Hooks : Known(k)' => Message(k) \in stored'
      BY <2>1, <2>2 DEF TurnInv, OneEventPerMessage, Grows
    <2>4. ASSUME NEW k \in Hooks, NEW l \in Hooks, Known(k)', Known(l)', Message(k) = Message(l)
          PROVE  k = l
      <3>1. Known(k) \/ (k = d.key /\ Message(k) \notin stored)
        BY <2>1, <2>4
      <3>2. Known(l) \/ (l = d.key /\ Message(l) \notin stored)
        BY <2>1, <2>4
      <3> QED
        BY <2>4, <3>1, <3>2 DEF TurnInv, OneEventPerMessage
    <2> QED
      BY <2>3, <2>4 DEF OneEventPerMessage
  <1>6. EachMessageIsAnswered'
    BY DEF TurnInv, EachMessageIsAnswered, OneReplyPerKey, OneTaskPerMessage
  <1> QED
    BY <1>1, <1>2, <1>3, <1>4, <1>5, <1>6 DEF TurnInv

\* The tables stay as they are.
LEMMA SameRows ==
  ASSUME TurnInv, UNCHANGED <<onboarded, optedOut, recorded, stored, late, spoken, acks, posted,
                              covered>>
  PROVE  Grows /\ RowsOK' /\ Bounded' /\ SkippedWasRead'
  <1>1. Grows
    BY DEF Grows
  <1>2. RowsOK'
    BY DEF TurnInv, ConversationsTypeOK, RowsOK
  <1>3. Bounded' /\ SkippedWasRead'
    BY DEF TurnInv, EachMessageIsAnswered, Bounded, SkippedWasRead
  <1> QED
    BY <1>1, <1>2, <1>3

\* A message comes.
LEMMA ArriveOK ==
  ASSUME TurnInv, NEW m \in {Message(k) : k \in Keys}, m \notin stored, Arrive(m),
         UNCHANGED <<spoken, covered>>
  PROVE  /\ Grows /\ Bounded' /\ SkippedWasRead' /\ m \in stored'
         /\ late' \subseteq stored' /\ covered' \subseteq stored'
         /\ stored' \subseteq {Message(k) : k \in Keys}
  <1>1. /\ stored' = stored \cup {m}
        /\ late' = IF \E x \in stored : x > m THEN late \cup {m} ELSE late
    BY DEF Arrive
  <1>2. Grows
    BY <1>1 DEF Grows
  <1>3. Bounded'
    <2>1. m \in Nat /\ stored \subseteq Nat
      BY MessageNumber, StoredNumbers DEF TurnInv
    <2>2. PICK b \in Nat : \A x \in stored : x <= b
      BY DEF TurnInv, Bounded
    <2>3. \A x \in stored' : x <= b + m
      BY <1>1, <2>1, <2>2
    <2>4. b + m \in Nat
      BY <2>1
    <2> QED
      BY <2>3, <2>4 DEF Bounded
  <1>4. SkippedWasRead'
    BY <1>1 DEF TurnInv, EachMessageIsAnswered, SkippedWasRead
  <1> QED
    BY <1>1, <1>2, <1>3, <1>4 DEF TurnInv, ConversationsTypeOK

\* What a request does next.
LEMMA GotoMoves ==
  ASSUME TurnInv, NEW p \in Procs, NEW where \in Busy, Goto(p, where)
  PROVE  \E d \in ProcType :
           /\ proc' = [proc EXCEPT ![p] = d] /\ d.at = where
           /\ d.key = proc[p].key /\ d.fresh = proc[p].fresh /\ d.mode = proc[p].mode
           /\ d.trigger = proc[p].trigger /\ d.reads = proc[p].reads
  <1> DEFINE d == [proc[p] EXCEPT !.at = where]
  <1>1. proc[p] \in ProcType
    BY DEF TurnInv
  <1>2. /\ d \in ProcType /\ d.at = where
        /\ d.key = proc[p].key /\ d.fresh = proc[p].fresh /\ d.mode = proc[p].mode
        /\ d.trigger = proc[p].trigger /\ d.reads = proc[p].reads
    BY <1>1 DEF ProcType
  <1>3. proc' = [proc EXCEPT ![p] = d]
    BY DEF Goto
  <1> HIDE DEF d
  <1> QED
    BY <1>2, <1>3

LEMMA RunMoves ==
  ASSUME TurnInv, NEW p \in Procs, NEW m \in Nat, NEW R \in SUBSET Nat, Run(p, m, R)
  PROVE  \E d \in ProcType :
           /\ proc' = [proc EXCEPT ![p] = d] /\ d.at = "running"
           /\ d.key = proc[p].key /\ d.mode = proc[p].mode /\ d.trigger = m /\ d.reads = R
  <1> DEFINE d == [proc[p] EXCEPT !.at = "running", !.trigger = m, !.reads = R]
  <1>1. proc[p] \in ProcType /\ proc \in [Procs -> ProcType]
    BY DEF TurnInv
  <1>2. /\ d \in ProcType /\ d.at = "running"
        /\ d.key = proc[p].key /\ d.mode = proc[p].mode /\ d.trigger = m /\ d.reads = R
    BY <1>1 DEF ProcType, Busy, InTurn
  <1>3. proc' = [proc EXCEPT ![p] = d]
    BY <1>1 DEF Run
  <1> HIDE DEF d
  <1> QED
    BY <1>2, <1>3

\* A request ends, whatever it has written.
LEMMA LeaveKeeps ==
  ASSUME TurnInv, NEW p \in Procs, Leave(p), Grows, RowsOK', Bounded', SkippedWasRead',
         UNCHANGED <<kind, torn, spoken>>
  PROVE  TurnInv'
  <1>1. Idle \in ProcType /\ Idle.at = "idle" /\ Idle.mode = "agent"
    BY DEF Idle, ProcType
  <1>2. proc' = [proc EXCEPT ![p] = Idle] /\ lock' = IF lock = p THEN Nobody ELSE lock
    BY DEF Leave
  <1>3. lock' \in Procs \cup {Nobody} /\ \A q \in Procs : q # p /\ lock = q => lock' = q
    BY <1>2 DEF TurnInv, ConversationsTypeOK
  <1>4. ProcKept(p, Idle)'
    BY <1>1 DEF ProcKept, Accepted, Holding
  <1>5. Idle.at \notin Accepted
    BY <1>1 DEF Accepted
  <1> QED
    BY <1>1, <1>2, <1>3, <1>4, <1>5, StepKeeps

\* Or goes on, having written nothing.
LEMMA QuietKeeps ==
  ASSUME TurnInv, NEW p \in Procs, NEW d \in ProcType, proc' = [proc EXCEPT ![p] = d],
         UNCHANGED <<kind, torn, onboarded, optedOut, recorded, stored, late, spoken, acks, posted,
                     covered>>,
         lock' \in Procs \cup {Nobody}, \A q \in Procs : q # p /\ lock = q => lock' = q,
         ProcKept(p, d)',
         d.at \in Accepted /\ d.key \in Hooks => Known(d.key)
  PROVE  TurnInv'
  BY SameRows, StepKeeps

LEMMA QuietLeave ==
  ASSUME TurnInv, NEW p \in Procs, Leave(p),
         UNCHANGED <<kind, torn, optedOut, recorded, stored, late, saidVars>>
  PROVE  TurnInv'
  <1>1. UNCHANGED <<onboarded, spoken, acks, posted, covered>>
    BY DEF saidVars
  <1> QED
    BY <1>1, SameRows, LeaveKeeps

\* A webhook, or a request of the web, that has not written yet.
LEMMA BeginKeeps ==
  ASSUME TurnInv, NEW p \in Procs,
         (\E e \in Hooks : ReceiveHook(p, e)) \/ (\E w \in WebMessages : SendWeb(p, w))
  PROVE  TurnInv'
  <1>0. UNCHANGED <<kind, torn, onboarded, optedOut, recorded, stored, late, spoken, acks, posted,
                    covered, lock>>
    BY DEF ReceiveHook, SendWeb, saidVars
  <1>m. Mode \in {"agent", "onboarding"} /\ (Mode = "onboarding" => kind = "direct")
    BY DEF Mode
  <1>l. lock' \in Procs \cup {Nobody} /\ \A q \in Procs : q # p /\ lock = q => lock' = q
    BY <1>0 DEF TurnInv, ConversationsTypeOK
  <1>1. ASSUME NEW e \in Hooks, ReceiveHook(p, e)
        PROVE  TurnInv'
    <2> DEFINE f == Carries[e] \notin stored
               d == [Idle EXCEPT !.at = "received", !.key = e, !.mode = Mode, !.fresh = f,
                                 !.out = optedOut]
    <2>1. proc' = [proc EXCEPT ![p] = d]
      BY <1>1 DEF ReceiveHook
    <2>2. f \in BOOLEAN /\ optedOut \in BOOLEAN
      BY DEF TurnInv, ConversationsTypeOK
    <2> HIDE DEF f
    <2>3. d \in ProcType /\ d.at = "received" /\ d.key = e /\ d.mode = Mode
      BY <1>m, <2>2 DEF Idle, ProcType, Busy, Keys
    <2>4. PICK c : c = d
      OBVIOUS
    <2> HIDE DEF d
    <2>5. ProcKept(p, c)'
      BY <1>0, <1>m, <2>3, <2>4 DEF ProcKept, Accepted, Holding
    <2>6. c.at \notin Accepted
      BY <2>3, <2>4 DEF Accepted
    <2> QED
      BY <1>0, <1>l, <2>1, <2>3, <2>4, <2>5, <2>6, QuietKeeps
  <1>2. ASSUME NEW w \in WebMessages, SendWeb(p, w)
        PROVE  TurnInv'
    <2> DEFINE f == w \notin stored
               d == [Idle EXCEPT !.at = "looked", !.key = w, !.mode = Mode, !.fresh = f]
    <2>1. proc' = [proc EXCEPT ![p] = d]
      BY <1>2 DEF SendWeb
    <2>2. f \in BOOLEAN
      OBVIOUS
    <2>3. ~f => w \in stored
      OBVIOUS
    <2> HIDE DEF f
    <2>4. d \in ProcType /\ d.at = "looked" /\ d.key = w /\ d.mode = Mode /\ d.fresh = f
      BY <1>m, <2>2 DEF Idle, ProcType, Busy, Keys
    <2>5. PICK c : c = d
      OBVIOUS
    <2> HIDE DEF d
    <2>6. ProcKept(p, c)'
      BY <1>0, <1>m, <2>3, <2>4, <2>5 DEF ProcKept, Accepted, Holding
    <2>7. c.at \notin Accepted
      BY <2>4, <2>5 DEF Accepted
    <2> QED
      BY <1>0, <1>l, <2>1, <2>4, <2>5, <2>6, <2>7, QuietKeeps
  <1> QED
    BY <1>1, <1>2

\* The commit of a webhook without a message of its own.
LEMMA EventAloneKeeps ==
  ASSUME TurnInv, NEW p \in Procs, CommitEventAlone(p)
  PROVE  TurnInv'
  <1>1. /\ UNCHANGED <<kind, optedOut, stored, late, onboarded, spoken, acks, posted, covered, torn>>
        /\ Leave(p)
    BY DEF CommitEventAlone, saidVars
  <1>2. proc[p].key \in Hooks
    BY DEF CommitEventAlone, TurnInv, ProcKept
  <1>3. recorded' \subseteq Hooks
    BY <1>2 DEF CommitEventAlone, TurnInv, ConversationsTypeOK
  <1>4. RowsOK'
    BY <1>1, <1>3 DEF TurnInv, ConversationsTypeOK, RowsOK
  <1>5. Grows /\ Bounded' /\ SkippedWasRead'
    BY <1>1 DEF TurnInv, EachMessageIsAnswered, Grows, Bounded, SkippedWasRead
  <1> QED
    BY <1>1, <1>4, <1>5, LeaveKeeps

\* A message is stored, and its request goes on or is done.
LEMMA ArrivalKeeps ==
  ASSUME TurnInv, NEW p \in Procs, NEW m \in {Message(k) : k \in Keys}, m \notin stored, Arrive(m),
         proc[p].key \in Keys, m = Message(proc[p].key),
         (Goto(p, "arrived") /\ UNCHANGED lock) \/ Leave(p),
         optedOut' \in BOOLEAN, recorded' \subseteq Hooks,
         UNCHANGED <<kind, onboarded, spoken, acks, posted, covered, torn>>
  PROVE  TurnInv'
  <1>1. /\ Grows /\ Bounded' /\ SkippedWasRead' /\ m \in stored'
        /\ late' \subseteq stored' /\ covered' \subseteq stored'
        /\ stored' \subseteq {Message(k) : k \in Keys}
    BY ArriveOK
  <1>2. RowsOK'
    BY <1>1 DEF TurnInv, ConversationsTypeOK, RowsOK
  <1>3. CASE Leave(p)
    BY <1>1, <1>2, <1>3, LeaveKeeps
  <1>4. CASE Goto(p, "arrived") /\ UNCHANGED lock
    <2>1. PICK d \in ProcType : /\ proc' = [proc EXCEPT ![p] = d] /\ d.at = "arrived"
                                /\ d.key = proc[p].key /\ d.mode = proc[p].mode
      BY <1>4, GotoMoves DEF Busy
    <2>2. d.mode = "onboarding" => kind = "direct"
      BY <2>1 DEF TurnInv, ProcKept
    <2>3. ProcKept(p, d)'
      BY <1>1, <2>1, <2>2 DEF ProcKept, Accepted, Holding
    <2>4. lock' \in Procs \cup {Nobody} /\ \A q \in Procs : q # p /\ lock = q => lock' = q
      BY <1>4 DEF TurnInv, ConversationsTypeOK
    <2>5. d.key \in Hooks => Message(d.key) \notin stored
      BY <2>1
    <2> QED
      BY <1>1, <1>2, <2>1, <2>3, <2>4, <2>5, StepKeeps
  <1> QED
    BY <1>3, <1>4

LEMMA MessageKeeps ==
  ASSUME TurnInv, NEW p \in Procs, CommitDirect(p) \/ CommitGroup(p)
  PROVE  TurnInv'
  <1>1. /\ proc[p].at = "received" /\ proc[p].fresh /\ ~Conflicts(proc[p].key, TRUE)
        /\ recorded' = recorded \cup {proc[p].key} /\ Arrive(Message(proc[p].key))
        /\ UNCHANGED <<kind, onboarded, spoken, acks, posted, covered, torn>>
    BY DEF CommitDirect, CommitGroup, CommitMessage, saidVars
  <1>2. proc[p].key \in Hooks /\ Message(proc[p].key) \notin stored
    BY <1>1 DEF TurnInv, ProcKept, Conflicts
  <1>3. proc[p].key \in Keys /\ recorded' \subseteq Hooks
    BY <1>1, <1>2 DEF Keys, TurnInv, ConversationsTypeOK
  <1>4. (Goto(p, "arrived") /\ UNCHANGED lock) \/ Leave(p)
    BY DEF CommitDirect, CommitGroup, Spawn
  <1>5. optedOut' \in BOOLEAN
    BY DEF CommitDirect, CommitGroup, Preference, TurnInv, ConversationsTypeOK
  <1> QED
    BY <1>1, <1>2, <1>3, <1>4, <1>5, ArrivalKeeps

LEMMA WebKeeps ==
  ASSUME TurnInv, NEW p \in Procs, CommitWeb(p)
  PROVE  TurnInv'
  <1>1. /\ proc[p].at = "looked"
        /\ UNCHANGED <<kind, optedOut, recorded, onboarded, spoken, acks, posted, covered, torn>>
    BY DEF CommitWeb, saidVars
  <1>2. proc[p].key \in WebMessages /\ (~proc[p].fresh => proc[p].key \in stored)
    BY <1>1 DEF TurnInv, ProcKept
  <1>3. proc[p].key \in Keys \ Hooks /\ Message(proc[p].key) = proc[p].key
    BY <1>2, ConversationsAssumption DEF Keys, Message
  <1>4. CASE UNCHANGED <<stored, late>> /\ Leave(p)
    BY <1>1, <1>4, QuietLeave DEF saidVars
  <1>5. CASE ~proc[p].fresh /\ UNCHANGED <<stored, late, lock>> /\ Goto(p, "arrived")
    <2>1. PICK d \in ProcType : /\ proc' = [proc EXCEPT ![p] = d] /\ d.at = "arrived"
                                /\ d.key = proc[p].key /\ d.mode = proc[p].mode
      BY <1>5, GotoMoves DEF Busy
    <2>2. d.mode = "onboarding" => kind = "direct"
      BY <2>1 DEF TurnInv, ProcKept
    <2>3. ProcKept(p, d)'
      BY <1>1, <1>2, <1>3, <1>5, <2>1, <2>2 DEF ProcKept, Accepted, Holding
    <2>4. lock' \in Procs \cup {Nobody} /\ \A q \in Procs : q # p /\ lock = q => lock' = q
      BY <1>5 DEF TurnInv, ConversationsTypeOK
    <2> QED
      BY <1>1, <1>3, <1>5, <2>1, <2>3, <2>4, QuietKeeps
  <1>6. CASE /\ proc[p].key \notin stored /\ Arrive(proc[p].key)
             /\ (Goto(p, "arrived") /\ UNCHANGED lock) \/ Leave(p)
    <2>1. optedOut' \in BOOLEAN /\ recorded' \subseteq Hooks
      BY <1>1 DEF TurnInv, ConversationsTypeOK
    <2> QED
      BY <1>1, <1>3, <1>6, <2>1, ArrivalKeeps
  <1> QED
    BY <1>4, <1>5, <1>6 DEF CommitWeb

\* A turn waits for the lock, and gets it.
LEMMA WaitingKeeps ==
  ASSUME TurnInv, NEW p \in Procs, Queue(p) \/ Enter(p)
  PROVE  TurnInv'
  <1>0. /\ UNCHANGED <<kind, torn, onboarded, optedOut, recorded, stored, late, spoken, acks,
                       posted, covered>>
        /\ proc[p].at \in {"arrived", "waiting"}
    BY DEF Queue, Enter, saidVars
  <1>1. ProcKept(p, proc[p]) /\ proc[p].key \in Keys /\ Message(proc[p].key) \in stored
    BY <1>0 DEF TurnInv, ProcKept, Accepted
  <1>2. CASE Queue(p)
    <2>1. PICK d \in ProcType : /\ proc' = [proc EXCEPT ![p] = d] /\ d.at = "waiting"
                                /\ d.key = proc[p].key /\ d.mode = proc[p].mode
      BY <1>2, GotoMoves DEF Queue, Busy, InTurn
    <2>2. ProcKept(p, d)'
      BY <1>0, <1>1, <2>1 DEF ProcKept, Accepted, Holding
    <2>3. lock' \in Procs \cup {Nobody} /\ \A q \in Procs : q # p /\ lock = q => lock' = q
      BY <1>2 DEF Queue, TurnInv, ConversationsTypeOK
    <2>4. Known(d.key)
      BY <1>0, <2>1 DEF Known, Accepted
    <2> QED
      BY <1>0, <2>1, <2>2, <2>3, <2>4, QuietKeeps
  <1>3. CASE Enter(p)
    <2>1. PICK d \in ProcType : /\ proc' = [proc EXCEPT ![p] = d] /\ d.at = "locked"
                                /\ d.key = proc[p].key /\ d.mode = proc[p].mode
      BY <1>3, GotoMoves DEF Enter, Busy, InTurn
    <2>2. lock = Nobody /\ lock' = p
      BY <1>3 DEF Enter
    <2>3. ProcKept(p, d)'
      BY <1>0, <1>1, <2>1, <2>2 DEF ProcKept, Accepted, Holding
    <2>4. lock' \in Procs \cup {Nobody} /\ \A q \in Procs : q # p /\ lock = q => lock' = q
      BY <2>2, ConversationsAssumption
    <2>5. Known(d.key)
      BY <1>0, <2>1 DEF Known, Accepted
    <2> QED
      BY <1>0, <2>1, <2>3, <2>4, <2>5, QuietKeeps
  <1> QED
    BY <1>2, <1>3

\* What a turn that has the lock goes on with.
LEMMA HolderKeeps ==
  ASSUME TurnInv, NEW p \in Procs, NEW d \in ProcType, proc[p].at \in Holding,
         proc' = [proc EXCEPT ![p] = d], d.at \in Holding, d.key = proc[p].key,
         d.mode = proc[p].mode,
         UNCHANGED <<kind, torn, onboarded, optedOut, recorded, stored, late, spoken, acks, posted,
                     covered, lock>>,
         d.at \in {"deciding", "acknowledged"} =>
           /\ kind = "group" /\ d.key \in Hooks
           /\ ~torn => \A r \in spoken : r.trigger < Message(d.key),
         d.at = "running" =>
           /\ ReadsWell(d.trigger, d.reads)
           /\ kind = "direct" /\ d.key \in Hooks => d.trigger = Message(d.key)
           /\ ~torn /\ kind = "group" /\ d.key \in Hooks =>
                \A r \in spoken : r.trigger < d.trigger
  PROVE  TurnInv'
  <1>1. /\ ProcKept(p, proc[p]) /\ proc[p].at \in Accepted
    BY DEF TurnInv, Holding, Accepted
  <1>2. /\ d.key \in Keys /\ Message(d.key) \in stored /\ (d.mode = "onboarding" => kind = "direct")
        /\ ~torn => lock = p
    BY <1>1 DEF ProcKept
  <1>3. d.at \notin {"received", "looked", "replied"}
    BY DEF Holding
  <1>4. ProcKept(p, d)
    BY <1>2, <1>3 DEF ProcKept
  <1>5. ProcKept(p, d)'
    BY <1>4 DEF ProcKept, ReadsWell
  <1>6. Known(d.key)
    BY <1>1 DEF Known
  <1>7. lock' \in Procs \cup {Nobody} /\ \A q \in Procs : q # p /\ lock = q => lock' = q
    BY DEF TurnInv, ConversationsTypeOK
  <1> QED
    BY <1>5, <1>6, <1>7, QuietKeeps

\* A message that no reply covers was written after what every reply is about; one that a reply
\* covers was read, or came after one written later.
LEMMA Covering ==
  ASSUME TurnInv, NEW m \in stored
  PROVE  /\ ~WasCovered(m) => \A r \in spoken : r.trigger < m
         /\ WasCovered(m) /\ m \notin late => \E r \in spoken : m \in r.reads
  <1>1. stored \subseteq Nat
    BY StoredNumbers DEF TurnInv
  <1>2. \A r \in spoken : /\ r.claims = r.reads /\ r.through = r.trigger /\ r.trigger \in r.reads
                          /\ r.trigger \in stored
                          /\ m \notin late /\ m < r.trigger => m \in r.reads
    BY DEF TurnInv, ReplyKept, ReadsWell
  <1>3. ASSUME ~WasCovered(m), NEW r \in spoken
        PROVE  r.trigger < m
    <2>1. m \notin r.reads /\ ~(r.trigger > m)
      BY <1>2, <1>3 DEF WasCovered
    <2>2. r.trigger # m /\ r.trigger \in Nat /\ m \in Nat
      BY <1>1, <1>2, <2>1
    <2> QED
      BY <2>1, <2>2
  <1>4. ASSUME WasCovered(m), m \notin late
        PROVE  \E r \in spoken : m \in r.reads
    <2>1. PICK r \in spoken : m \in r.claims \/ r.through > m
      BY <1>4 DEF WasCovered
    <2>2. r.trigger \in Nat /\ m \in Nat
      BY <1>1, <1>2, <2>1
    <2>3. m \in r.reads
      BY <1>2, <1>4, <2>1, <2>2
    <2> QED
      BY <2>3
  <1> QED
    BY <1>3, <1>4

\* The task of a group leaves a message that was covered, and decides about one that was not.
LEMMA GroupTaskKeeps ==
  ASSUME TurnInv, NEW p \in Procs, LoadGroup(p)
  PROVE  TurnInv'
  <1> DEFINE m == Message(proc[p].key)
  <1>0. /\ proc[p].at = "locked" /\ kind = "group" /\ proc[p].key \in Hooks
        /\ UNCHANGED <<kind, onboarded, optedOut, recorded, stored, late, spoken, acks, posted, torn>>
    BY DEF LoadGroup, ByGroupTask
  <1>1. m \in stored
    BY <1>0 DEF TurnInv, ProcKept, Accepted
  <1>2. CASE WasCovered(m)
    <2>1. covered' = covered \cup {m} /\ Leave(p)
      BY <1>2 DEF LoadGroup
    <2>2. RowsOK' /\ Grows /\ Bounded'
      BY <1>0, <1>1, <2>1 DEF TurnInv, ConversationsTypeOK, RowsOK, Grows, Bounded
    <2>3. SkippedWasRead'
      <3>1. m \notin late => \E r \in spoken : m \in r.reads
        BY <1>1, <1>2, Covering
      <3>2. \A x \in covered \ late : \E r \in spoken : x \in r.reads
        BY DEF TurnInv, EachMessageIsAnswered, SkippedWasRead
      <3> HIDE DEF m
      <3> QED
        BY <1>0, <2>1, <3>1, <3>2 DEF SkippedWasRead
    <2> QED
      BY <1>0, <2>1, <2>2, <2>3, LeaveKeeps
  <1>3. CASE ~WasCovered(m)
    <2>1. Goto(p, "deciding") /\ UNCHANGED <<lock, covered>>
      BY <1>3 DEF LoadGroup
    <2>2. PICK d \in ProcType : /\ proc' = [proc EXCEPT ![p] = d] /\ d.at = "deciding"
                                /\ d.key = proc[p].key /\ d.mode = proc[p].mode
      BY <2>1, GotoMoves DEF Busy, InTurn
    <2>3. \A r \in spoken : r.trigger < m
      BY <1>1, <1>3, Covering
    <2>4. proc[p].at \in Holding /\ d.at \in Holding
      BY <1>0, <2>2 DEF Holding
    <2> QED
      BY <1>0, <2>1, <2>2, <2>3, <2>4, HolderKeeps
  <1> QED
    BY <1>2, <1>3

\* What a turn reads.
LEMMA ReadingIsWhole ==
  ASSUME TurnInv, NEW t \in stored, NEW R \in {Through(t), stored}
  PROVE  ReadsWell(t, R) /\ R \in SUBSET Nat /\ t \in Nat
  <1>1. stored \subseteq Nat
    BY StoredNumbers DEF TurnInv
  <1> QED
    BY <1>1 DEF ReadsWell, Through

\* A turn begins its run.
LEMMA RunKeeps ==
  ASSUME TurnInv, NEW p \in Procs, LoadTurn(p) \/ LoadOnboarding(p)
  PROVE  TurnInv'
  <1> DEFINE m == Message(proc[p].key)
  <1>0. /\ proc[p].at = "locked"
        /\ UNCHANGED <<kind, optedOut, recorded, stored, late, saidVars, torn>>
    BY DEF LoadTurn, LoadOnboarding
  <1>1. m \in stored /\ (proc[p].mode = "onboarding" => kind = "direct")
    BY <1>0 DEF TurnInv, ProcKept, Accepted
  <1>2. CASE Leave(p)
    BY <1>0, <1>2, QuietLeave
  <1>3. ASSUME NEW R \in {Through(m), stored}, Run(p, m, R), UNCHANGED lock,
               kind = "group" => proc[p].key \notin Hooks
        PROVE  TurnInv'
    <2>1. ReadsWell(m, R) /\ R \in SUBSET Nat /\ m \in Nat
      BY <1>1, ReadingIsWhole
    <2>2. PICK d \in ProcType : /\ proc' = [proc EXCEPT ![p] = d] /\ d.at = "running"
                                /\ d.key = proc[p].key /\ d.mode = proc[p].mode
                                /\ d.trigger = m /\ d.reads = R
      BY <1>3, <2>1, RunMoves
    <2>3. proc[p].at \in Holding /\ d.at \in Holding
      BY <1>0, <2>2 DEF Holding
    <2> QED
      BY <1>0, <1>3, <2>1, <2>2, <2>3, HolderKeeps DEF saidVars
  <1>4. CASE LoadTurn(p) /\ ~Leave(p)
    BY <1>3, <1>4 DEF LoadTurn, ByGroupTask
  <1>5. CASE LoadOnboarding(p)
    BY <1>1, <1>3, <1>5 DEF LoadOnboarding
  <1> QED
    BY <1>2, <1>4, <1>5

\* A group turn is declined, or answers the message that then is the latest.
LEMMA GroupTurnKeeps ==
  ASSUME TurnInv, NEW p \in Procs, Decide(p) \/ ReadLatest(p)
  PROVE  TurnInv'
  <1>0. /\ proc[p].at \in {"deciding", "acknowledged"}
        /\ UNCHANGED <<kind, onboarded, optedOut, recorded, stored, late, spoken, posted, covered,
                       torn>>
    BY DEF Decide, ReadLatest, saidVars
  <1>1. /\ kind = "group" /\ proc[p].key \in Hooks /\ Message(proc[p].key) \in stored
        /\ ~torn => \A r \in spoken : r.trigger < Message(proc[p].key)
    BY <1>0 DEF TurnInv, ProcKept, Accepted
  <1>2. CASE Decide(p)
    <2>1. acks' \subseteq Hooks
      BY <1>1, <1>2 DEF Decide, TurnInv, ConversationsTypeOK
    <2>2. RowsOK' /\ Grows /\ Bounded' /\ SkippedWasRead'
      BY <1>0, <2>1 DEF TurnInv, ConversationsTypeOK, EachMessageIsAnswered, RowsOK, Grows, Bounded,
         SkippedWasRead
    <2>3. CASE Leave(p)
      BY <1>0, <2>2, <2>3, LeaveKeeps
    <2>4. CASE Goto(p, "acknowledged") /\ UNCHANGED lock
      <3>1. PICK d \in ProcType : /\ proc' = [proc EXCEPT ![p] = d] /\ d.at = "acknowledged"
                                  /\ d.key = proc[p].key /\ d.mode = proc[p].mode
        BY <2>4, GotoMoves DEF Busy, InTurn
      <3>2. ProcKept(p, proc[p]) /\ proc[p].at \in Accepted
        BY <1>0 DEF TurnInv, Accepted
      <3>3. ProcKept(p, d)'
        BY <1>0, <1>1, <2>4, <3>1, <3>2 DEF ProcKept, Accepted, Holding
      <3>4. Known(d.key)
        BY <3>1, <3>2 DEF Known
      <3>5. lock' \in Procs \cup {Nobody} /\ \A q \in Procs : q # p /\ lock = q => lock' = q
        BY <2>4 DEF TurnInv, ConversationsTypeOK
      <3> QED
        BY <1>0, <2>2, <3>1, <3>3, <3>4, <3>5, StepKeeps
    <2> QED
      BY <1>2, <2>3, <2>4 DEF Decide
  <1>3. CASE ReadLatest(p)
    <2>1. PICK t \in stored : t = Latest /\ \A x \in stored : x <= t
      BY <1>1, LatestIsStored
    <2>2. PICK R : R = Through(t)
      OBVIOUS
    <2>3. ReadsWell(t, R) /\ R \in SUBSET Nat /\ t \in Nat
      BY <2>2, ReadingIsWhole
    <2>4. Run(p, t, R) /\ UNCHANGED <<acks, lock>>
      BY <1>3, <2>1, <2>2 DEF ReadLatest, saidVars
    <2>5. PICK d \in ProcType : /\ proc' = [proc EXCEPT ![p] = d] /\ d.at = "running"
                                /\ d.key = proc[p].key /\ d.mode = proc[p].mode
                                /\ d.trigger = t /\ d.reads = R
      BY <2>3, <2>4, RunMoves
    <2>6. ~torn => \A r \in spoken : r.trigger < t
      <3>1. Message(proc[p].key) <= t /\ Message(proc[p].key) \in Nat
        BY <1>1, <2>1, StoredNumbers DEF TurnInv
      <3>2. \A r \in spoken : r.trigger \in Nat
        BY StoredNumbers DEF TurnInv, ReplyKept, ReadsWell
      <3> QED
        BY <1>1, <2>3, <3>1, <3>2
    <2>7. proc[p].at \in Holding /\ d.at \in Holding
      BY <1>0, <2>5 DEF Holding
    <2> QED
      BY <1>0, <1>1, <2>3, <2>4, <2>5, <2>6, <2>7, HolderKeeps
  <1> QED
    BY <1>2, <1>3

\* Replies are stored: the first for their key, and the only ones to their message.
LEMMA ReplyKeeps ==
  ASSUME TurnInv, NEW p \in Procs, PersistTurn(p) \/ PersistOnboarding(p)
  PROVE  TurnInv'
  <1>0. /\ proc[p].at = "running" /\ ~Answered(proc[p].key)
        /\ UNCHANGED <<kind, optedOut, recorded, stored, late, acks, posted, covered, torn>>
        /\ onboarded' \in BOOLEAN
        /\ \/ Leave(p)
           \/ /\ proc[p].key \notin WebMessages /\ Goto(p, "replied")
              /\ lock' = IF kind = "direct" /\ lock = p THEN Nobody ELSE lock
    BY DEF PersistTurn, PersistOnboarding, Reply, Profiles, TurnInv, ConversationsTypeOK
  <1>1. PICK r : /\ spoken' = spoken \cup {r} /\ r.key = proc[p].key /\ r.trigger = proc[p].trigger
                 /\ r.reads = proc[p].reads /\ r.claims = r.reads /\ r.through = r.trigger
    <2> DEFINE n == [key |-> proc[p].key, trigger |-> proc[p].trigger, reads |-> proc[p].reads,
                     claims |-> proc[p].reads, through |-> proc[p].trigger]
    <2>1. spoken' = spoken \cup {n}
      BY DEF PersistTurn, PersistOnboarding, Reply, Claims
    <2>2. /\ n.key = proc[p].key /\ n.trigger = proc[p].trigger /\ n.reads = proc[p].reads
          /\ n.claims = n.reads /\ n.through = n.trigger
      OBVIOUS
    <2> HIDE DEF n
    <2> QED
      BY <2>1, <2>2
  <1>2. /\ r.key \in Keys /\ ReadsWell(r.trigger, r.reads)
        /\ kind = "direct" /\ r.key \in Hooks => r.trigger = Message(r.key)
        /\ ~torn => lock = p
        /\ ~torn /\ kind = "group" /\ r.key \in Hooks => \A s \in spoken : s.trigger < r.trigger
        /\ r.key \in Hooks => Known(r.key)
    <2>1. ProcKept(p, proc[p]) /\ proc[p].at \in Accepted /\ proc[p].at \in Holding
      BY <1>0 DEF TurnInv, Accepted, Holding
    <2>2. Known(proc[p].key)
      BY <2>1 DEF Known
    <2>3. ProcKept(p, proc[p]) => ReadsWell(proc[p].trigger, proc[p].reads)
      BY <1>0 DEF ProcKept
    <2> QED
      BY <1>0, <1>1, <2>1, <2>2, <2>3 DEF ProcKept
  <1>3. PICK d \in ProcType :
          /\ proc' = [proc EXCEPT ![p] = d]
          /\ \/ d = Idle
             \/ /\ d.at = "replied" /\ d.key = proc[p].key /\ d.mode = proc[p].mode
                /\ proc[p].key \notin WebMessages
    <2>1. Idle \in ProcType
      BY DEF Idle, ProcType
    <2>2. CASE Leave(p)
      BY <2>1, <2>2 DEF Leave
    <2>3. CASE proc[p].key \notin WebMessages /\ Goto(p, "replied")
      <3>1. PICK e \in ProcType : /\ proc' = [proc EXCEPT ![p] = e] /\ e.at = "replied"
                                  /\ e.key = proc[p].key /\ e.mode = proc[p].mode
        BY <2>3, GotoMoves DEF Busy
      <3> QED
        BY <2>3, <3>1
    <2> QED
      BY <1>0, <2>2, <2>3
  <1>4. /\ proc' \in [Procs -> ProcType] /\ proc'[p] = d
        /\ \A q \in Procs \ {p} : proc'[q] = proc[q]
    BY <1>3 DEF TurnInv
  <1>5. /\ lock' \in Procs \cup {Nobody} /\ \A q \in Procs : q # p /\ lock = q => lock' = q
    BY <1>0 DEF Leave, TurnInv, ConversationsTypeOK
  <1>6. ConversationsTypeOK'
    <2>1. \A q \in Procs : proc'[q].at \in Busy \cup {"idle"}
      BY <1>4 DEF ProcType
    <2>2. r.reads \subseteq stored
      BY <1>2 DEF ReadsWell
    <2>3. \A s \in spoken' : s.key \in Keys /\ s.reads \subseteq stored'
      BY <1>0, <1>1, <1>2, <2>2 DEF TurnInv, ConversationsTypeOK
    <2> QED
      BY <1>0, <1>5, <2>1, <2>3 DEF TurnInv, ConversationsTypeOK
  <1>7. Grows
    BY <1>0 DEF Grows
  <1>8. \A s \in spoken' : ReplyKept(s)'
    <2>1. ReplyKept(r)
      BY <1>1, <1>2 DEF ReplyKept
    <2>2. ASSUME NEW s \in spoken'
          PROVE  ReplyKept(s)'
      <3>1. ReplyKept(s)
        BY <1>1, <2>1, <2>2 DEF TurnInv
      <3> QED
        BY <1>0, <1>6, <1>7, <3>1, RepliesStay
    <2> QED
      BY <2>2
  <1>9. \A q \in Procs : ProcKept(q, proc[q])'
    <2>1. ASSUME NEW q \in Procs, q # p
          PROVE  ProcKept(q, proc[q])'
      <3>1. PICK e : e = proc[q]
        OBVIOUS
      <3>2. ProcKept(q, e)'
        BY <1>0, <1>5, <1>6, <1>7, <2>1, <3>1, OtherStays DEF TurnInv
      <3>3. proc'[q] = e
        BY <1>4, <2>1, <3>1
      <3> QED
        BY <3>2, <3>3
    <2>2. ProcKept(p, proc[p])'
      <3>1. ProcKept(p, proc[p]) /\ proc[p].at \in Accepted
        BY <1>0 DEF TurnInv, Accepted
      <3>2. CASE d = Idle
        BY <1>4, <3>2 DEF ProcKept, Idle, Accepted, Holding
      <3>3. CASE /\ d.at = "replied" /\ d.key = proc[p].key /\ d.mode = proc[p].mode
                 /\ proc[p].key \notin WebMessages
        <4>1. d.key \in Hooks /\ Message(d.key) \in stored /\ (d.mode = "onboarding" => kind = "direct")
          BY <3>1, <3>3 DEF ProcKept, Keys
        <4> QED
          BY <1>0, <1>4, <3>3, <4>1 DEF ProcKept, Holding, Keys
      <3> QED
        BY <1>3, <3>2, <3>3
    <2> QED
      BY <2>1, <2>2
  <1>10. OneEventPerMessage'
    <2>1. ASSUME NEW k \in Hooks, Known(k)'
          PROVE  Known(k)
      <3>1. CASE \E q \in Procs : proc'[q].at \in Accepted /\ proc'[q].key = k
        <4>1. PICK q \in Procs : proc'[q].at \in Accepted /\ proc'[q].key = k
          BY <3>1
        <4>2. CASE q = p
          <5>1. d # Idle
            BY <1>4, <4>1, <4>2 DEF Idle, Accepted
          <5>2. k = r.key
            BY <1>1, <1>3, <1>4, <4>1, <4>2, <5>1
          <5> QED
            BY <1>2, <5>2
        <4>3. CASE q # p
          BY <1>4, <4>1, <4>3 DEF Known
        <4> QED
          BY <4>2, <4>3
      <3>2. CASE \E s \in spoken' : s.key = k
        BY <1>1, <1>2, <3>2 DEF Known
      <3> QED
        BY <2>1, <3>1, <3>2 DEF Known
    <2> QED
      BY <1>0, <2>1 DEF TurnInv, OneEventPerMessage
  <1>11. OneReplyPerKey'
    BY <1>0, <1>1 DEF TurnInv, EachMessageIsAnswered, OneReplyPerKey, Answered
  <1>12. OneTaskPerMessage'
    <2>1. ASSUME NEW s \in spoken, s.key \in Hooks, r.key \in Hooks, s.trigger = r.trigger, ~torn
          PROVE  FALSE
      <3>1. s.key # r.key
        BY <1>0, <1>1 DEF Answered
      <3>2. CASE kind = "direct"
        <4>1. Message(s.key) = Message(r.key)
          BY <1>2, <2>1, <3>2 DEF TurnInv, ReplyKept
        <4>2. Known(s.key)
          BY DEF Known
        <4> QED
          BY <1>2, <2>1, <3>1, <4>1, <4>2 DEF TurnInv, OneEventPerMessage
      <3>3. CASE kind = "group"
        <4>1. s.trigger < r.trigger
          BY <1>2, <2>1, <3>3
        <4>2. s.trigger \in Nat
          BY StoredNumbers DEF TurnInv, ReplyKept, ReadsWell
        <4> QED
          BY <2>1, <4>1, <4>2
      <3> QED
        BY <3>2, <3>3 DEF TurnInv, ConversationsTypeOK
    <2>2. SUFFICES ASSUME NEW s \in spoken', NEW t \in spoken', s.key \in Hooks, t.key \in Hooks,
                          s.trigger = t.trigger
                   PROVE  s = t \/ torn'
      BY DEF OneTaskPerMessage
    <2>3. CASE s \in spoken /\ t \in spoken
      BY <1>0, <2>2, <2>3 DEF TurnInv, EachMessageIsAnswered, OneTaskPerMessage
    <2>4. CASE s = r /\ t \in spoken
      BY <1>0, <2>1, <2>2, <2>4
    <2>5. CASE t = r /\ s \in spoken
      BY <1>0, <2>1, <2>2, <2>5
    <2> QED
      BY <1>1, <2>2, <2>3, <2>4, <2>5
  <1>13. SkippedWasRead' /\ Bounded'
    BY <1>0, <1>1 DEF TurnInv, EachMessageIsAnswered, SkippedWasRead, Bounded
  <1> QED
    BY <1>4, <1>6, <1>8, <1>9, <1>10, <1>11, <1>12, <1>13 DEF TurnInv, EachMessageIsAnswered

\* Replies are delivered.
LEMMA DeliveredKeeps ==
  ASSUME TurnInv, NEW p \in Procs, Delivered(p)
  PROVE  TurnInv'
  <1>1. /\ UNCHANGED <<kind, onboarded, optedOut, recorded, stored, late, spoken, acks, covered, torn>>
        /\ Leave(p) /\ posted' = posted \cup {proc[p].key} /\ proc[p].at = "replied"
    BY DEF Delivered
  <1>2. posted' \subseteq Hooks
    BY <1>1 DEF TurnInv, ProcKept, ConversationsTypeOK
  <1>3. RowsOK' /\ Grows /\ Bounded' /\ SkippedWasRead'
    BY <1>1, <1>2 DEF TurnInv, ConversationsTypeOK, EachMessageIsAnswered, RowsOK, Grows, Bounded,
       SkippedWasRead
  <1> QED
    BY <1>1, <1>3, LeaveKeeps

\* The lock is lost: from then on nothing is said of it.
LEMMA DropKeeps ==
  ASSUME TurnInv, LockDrops
  PROVE  TurnInv'
  <1>1. /\ UNCHANGED <<kind, onboarded, optedOut, recorded, stored, late, spoken, acks, posted,
                       covered, proc>>
        /\ lock' = Nobody /\ torn' = TRUE
    BY DEF LockDrops, saidVars
  <1>2. ConversationsTypeOK'
    BY <1>1 DEF TurnInv, ConversationsTypeOK
  <1>3. \A r \in spoken : ReplyKept(r)'
    BY <1>1 DEF TurnInv, ReplyKept, ReadsWell
  <1>4. \A p \in Procs : ProcKept(p, proc[p])'
    BY <1>1 DEF TurnInv, ProcKept, ReadsWell
  <1>5. OneEventPerMessage' /\ Bounded'
    BY <1>1 DEF TurnInv, OneEventPerMessage, Known, Bounded
  <1>6. EachMessageIsAnswered'
    BY <1>1 DEF TurnInv, EachMessageIsAnswered, OneReplyPerKey, OneTaskPerMessage, SkippedWasRead
  <1> QED
    BY <1>1, <1>2, <1>3, <1>4, <1>5, <1>6 DEF TurnInv

\* At first nothing is said.
LEMMA TurnsInitially == ConversationsInit => TurnInv
  <1> SUFFICES ASSUME ConversationsInit
               PROVE  TurnInv
    OBVIOUS
  <1>1. Idle \in ProcType
    BY DEF Idle, ProcType
  <1>2. ConversationsTypeOK
    BY DEF ConversationsInit, ConversationsTypeOK, Idle
  <1>3. \A p \in Procs : ProcKept(p, proc[p])
    BY DEF ConversationsInit, ProcKept, Idle, Accepted, Holding
  <1>4. OneEventPerMessage
    BY DEF ConversationsInit, OneEventPerMessage, Known, Idle, Accepted
  <1>5. Bounded
    BY DEF ConversationsInit, Bounded
  <1>6. EachMessageIsAnswered
    BY DEF ConversationsInit, EachMessageIsAnswered, OneReplyPerKey, OneTaskPerMessage, SkippedWasRead
  <1>7. proc \in [Procs -> ProcType] /\ spoken = {}
    BY <1>1 DEF ConversationsInit
  <1> QED
    BY <1>2, <1>3, <1>4, <1>5, <1>6, <1>7 DEF TurnInv

\* Every step keeps TurnInv.
LEMMA TurnStep == TurnInv /\ [ConversationsNext]_turnVars => TurnInv'
  <1> SUFFICES ASSUME TurnInv, [ConversationsNext]_turnVars
               PROVE  TurnInv'
    OBVIOUS
  <1>1. CASE UNCHANGED turnVars
    BY <1>1 DEF turnVars, TurnInv, ConversationsTypeOK, Bounded, ReplyKept, ReadsWell, ProcKept,
       OneEventPerMessage, Known, EachMessageIsAnswered, OneReplyPerKey, OneTaskPerMessage,
       SkippedWasRead
  <1>2. ASSUME NEW p \in Procs, Advance(p)
        PROVE  TurnInv'
    <2>1. CASE CommitEventAlone(p) \/ CommitDirect(p) \/ CommitGroup(p) \/ CommitWeb(p)
      BY <2>1, EventAloneKeeps, MessageKeeps, WebKeeps
    <2>2. CASE \/ Queue(p) \/ LoadGroup(p) \/ LoadTurn(p) \/ LoadOnboarding(p) \/ Decide(p)
               \/ ReadLatest(p)
      BY <2>2, WaitingKeeps, GroupTaskKeeps, RunKeeps, GroupTurnKeeps
    <2>3. CASE PersistTurn(p) \/ PersistOnboarding(p)
      BY <2>3, ReplyKeeps
    <2>4. CASE DeliverTurn(p) \/ DeliverOnboarding(p) \/ DeliverGroup(p)
      BY <2>4, DeliveredKeeps DEF DeliverTurn, DeliverOnboarding, DeliverGroup
    <2>5. CASE PersistFails(p) \/ TimeOut(p)
      BY <2>5, QuietLeave DEF PersistFails, TimeOut
    <2> QED
      BY <1>2, <2>1, <2>2, <2>3, <2>4, <2>5 DEF Advance
  <1>3. ASSUME NEW p \in Procs, Break(p)
        PROVE  TurnInv'
    BY <1>3, QuietLeave DEF Break
  <1>4. ASSUME NEW p \in Procs, Enter(p)
        PROVE  TurnInv'
    BY <1>4, WaitingKeeps
  <1>5. ASSUME NEW p \in Procs,
               (\E e \in Hooks : ReceiveHook(p, e)) \/ (\E w \in WebMessages : SendWeb(p, w))
        PROVE  TurnInv'
    BY <1>5, BeginKeeps
  <1>6. CASE LockDrops
    BY <1>6, DropKeeps
  <1> QED
    BY <1>1, <1>2, <1>3, <1>4, <1>5, <1>6 DEF ConversationsNext

\* However deliveries, retries, bursts, crashes and a lock that is lost interleave, a key has one
\* reply, two webhook tasks answer one message only when the lock was lost, and a message of a
\* group is left without a turn of its own only if a reply has read it or it came late.
THEOREM MessagesAnswered == ConversationsSpec => [](ConversationsTypeOK /\ EachMessageIsAnswered)
  <1>1. TurnInv => ConversationsTypeOK /\ EachMessageIsAnswered
    BY DEF TurnInv
  <1> QED
    BY <1>1, TurnsInitially, TurnStep, PTL DEF ConversationsSpec

-----------------------------------------------------------------------------
(***************************************************************************)
(* All of a conversation: its owner, its messages and its invites.         *)
(***************************************************************************)

\* A behaviour of RoomsMC is one of the group and its app, of its messages and of its invites.
LEMMA AllRooms == RoomsSpec => Spec /\ ConversationsSpec /\ InvitesSpec
  <1>1. RoomsInit => Init /\ ConversationsInit /\ InvitesInit
    BY DEF RoomsInit
  <1>2. ASSUME [RoomsNext]_allVars
        PROVE  [Next]_vars /\ [ConversationsNext]_turnVars /\ [InvitesNext]_inviteVars
    <2>1. CASE UNCHANGED allVars
      BY <2>1 DEF allVars
    <2>2. CASE RoomsNext
      BY <2>2 DEF RoomsNext
    <2> QED
      BY <1>2, <2>1, <2>2
  <1> QED
    BY <1>1, <1>2, PTL DEF RoomsSpec, Spec, ConversationsSpec, InvitesSpec

\* The messages of every conversation are answered as they should be.
THEOREM RoomsAnswer == RoomsSpec => []MessagesAreAnswered
  BY AllRooms, MessagesAnswered, PTL DEF MessagesAreAnswered

\* A group has one owner, who owns its app, when no two requests on the group are open at once;
\* and its invites count the people they let in, however joins overlap.
THEOREM GroupStaysConsistent ==
  ASSUME OneAtATime
  PROVE  RoomsSpec => []GroupIsConsistent
  <1>1. ASSUME SingleInv
        PROVE  OneOwner /\ GroupAndAppAgree
    <2>1. Cardinality(Owners) <= 1
      <3>1. CASE Owners = {}
        BY <3>1, FS_EmptySet
      <3>2. CASE Owners # {}
        <4>1. PICK m \in Owners : TRUE
          BY <3>2
        <4>2. Owners = {m}
          BY <1>1, <4>1 DEF SingleInv, GroupKept
        <4> QED
          BY <4>2, FS_Singleton
      <3> QED
        BY <3>1, <3>2
    <2> QED
      BY <1>1, <2>1 DEF OneOwner, GroupAndAppAgree, SingleInv, GroupKept
  <1>2. SingleInv /\ [Next]_vars => SingleInv'
    BY SingleKeeps
  <1>3. Spec => [](OneOwner /\ GroupAndAppAgree)
    BY <1>1, <1>2, SingleInitially, PTL DEF Spec
  <1> QED
    BY <1>3, AllRooms, InvitesCount, PTL DEF GroupIsConsistent
==============================================================================
