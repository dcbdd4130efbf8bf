------------------------------- MODULE Invites -------------------------------
(***************************************************************************)
(* How people come into a group of the web: its invites, joining, leaving  *)
(* and coming back, in services/groups.py and api/routes/groups.py.        *)
(*                                                                         *)
(* Nothing is locked: a join checks the invite, then looks for a row of    *)
(* the user among the members, and then commits the row together with the  *)
(* count it had read, one higher.  The owner of such a group cannot leave, *)
(* and so is the same throughout.  Invites are never revoked by any code;  *)
(* they expire.                                                            *)
(***************************************************************************)
EXTENDS Naturals, FiniteSets

CONSTANTS
  Guests,       \* users other than the owner
  InviteLinks,  \* conversation_invites the owner may make
  MaxUses,      \* their max_uses
  Joins,        \* requests to join that may be open at once
  NoGuest, NoLink

ASSUME InvitesAssumption ==
  /\ MaxUses \in Nat \ {0}
  /\ NoGuest \notin Guests /\ NoLink \notin InviteLinks

VARIABLES
  link,     \* per invite: whether it is still to be made, open or expired, and its use_count
  guest,    \* per user: his row in conversation_members
  joining,  \* per request: where it is, its user and invite, the count and the row it has read
  letIn,    \* users whose row was made by an invite, with the invite
  shared    \* invites with which joins have overlapped

inviteVars == <<link, guest, joining, letIn, shared>>

Unjoined == [at |-> "idle", who |-> NoGuest, by |-> NoLink, count |-> 0, row |-> "absent"]

-----------------------------------------------------------------------------
(***************************************************************************)
(* Faults.  Each operator is the definition of the same shape below with   *)
(* one plausible slip in it; no action uses them.                          *)
(***************************************************************************)

\* Whoever comes back is counted again.
CountsEveryJoin(j) == TRUE

-----------------------------------------------------------------------------
(***************************************************************************)
(* Decisions of join_group_from_invite                                     *)
(***************************************************************************)

\* An invite that is good: not expired, and with a place left.
Good(i) == link[i].status = "open" /\ link[i].uses < MaxUses

\* A place is used by a row that is made, not by one that is there.
TakesAPlace(j) == joining[j].row = "absent"

-----------------------------------------------------------------------------
InvitesInit ==
  /\ link = [i \in InviteLinks |-> [status |-> "unmade", uses |-> 0]]
  /\ guest = [g \in Guests |-> "absent"]
  /\ joining = [j \in Joins |-> Unjoined]
  /\ letIn = {} /\ shared = {}

\* create_group_invite, by the owner.
Invite(i) ==
  /\ link[i].status = "unmade"
  /\ link' = [link EXCEPT ![i].status = "open"]
  /\ UNCHANGED <<guest, joining, letIn, shared>>

\* expires_at passes.
LinkExpires(i) ==
  /\ link[i].status = "open"
  /\ link' = [link EXCEPT ![i].status = "expired"]
  /\ UNCHANGED <<guest, joining, letIn, shared>>

\* The invite is read and found good.
CheckInvite(j, g, i) ==
  /\ joining[j].at = "idle" /\ Good(i)
  /\ joining' = [joining EXCEPT ![j] =
       [Unjoined EXCEPT !.at = "checked", !.who = g, !.by = i, !.count = link[i].uses]]
  /\ shared' = IF \E other \in Joins : joining[other].by = i THEN shared \cup {i} ELSE shared
  /\ UNCHANGED <<link, guest, letIn>>

\* The members are searched for the user, or his handle.
LookForMember(j) ==
  /\ joining[j].at = "checked"
  /\ joining' = [joining EXCEPT ![j].at = "looked", ![j].row = guest[joining[j].who]]
  /\ UNCHANGED <<link, guest, letIn, shared>>

\* The row is made, or made active again if it was not when it was read; what was read of the
\*   invite may have changed.
CommitJoin(j) ==
  LET g == joining[j].who  i == joining[j].by IN
  /\ joining[j].at = "looked"
  /\ joining[j].row = "absent" => guest[g] = "absent"  \* uq_conversation_members_user
  /\ guest' = IF joining[j].row = "active" THEN guest ELSE [guest EXCEPT ![g] = "active"]
  /\ link' = IF TakesAPlace(j) THEN [link EXCEPT ![i].uses = joining[j].count + 1] ELSE link
  /\ letIn' = IF guest[g] = "absent" THEN letIn \cup {<<g, i>>} ELSE letIn
  /\ joining' = [joining EXCEPT ![j] = Unjoined]
  /\ UNCHANGED shared

\* The row was made in the meantime, or the commit fails.
FailJoin(j) ==
  /\ joining[j].at # "idle"
  /\ joining' = [joining EXCEPT ![j] = Unjoined]
  /\ UNCHANGED <<link, guest, letIn, shared>>

\* leave_web_group.
LeaveGroup(g) ==
  /\ guest[g] = "active"
  /\ guest' = [guest EXCEPT ![g] = "left"]
  /\ UNCHANGED <<link, joining, letIn, shared>>

InvitesNext ==
  \/ \E i \in InviteLinks : Invite(i) \/ LinkExpires(i)
  \/ \E j \in Joins : \/ \E g \in Guests, i \in InviteLinks : CheckInvite(j, g, i)
                      \/ LookForMember(j) \/ CommitJoin(j) \/ FailJoin(j)
  \/ \E g \in Guests : LeaveGroup(g)

-----------------------------------------------------------------------------
\* Invites, members and the requests to join.
InvitesTypeOK ==
  /\ link \in [InviteLinks -> [status : {"unmade", "open", "expired"}, uses : 0..MaxUses]]
  /\ guest \in [Guests -> {"absent", "active", "left"}]
  /\ joining \in [Joins -> [at : {"idle", "checked", "looked"}, who : Guests \cup {NoGuest},
                            by : InviteLinks \cup {NoLink}, count : 0..MaxUses,
                            row : {"absent", "active", "left"}]]
  /\ letIn \subseteq Guests \X InviteLinks /\ shared \subseteq InviteLinks

LetInBy(i) == {g \in Guests : <<g, i>> \in letIn}

\* use_count never passes max_uses, and counts people: those who leave and come back, with the
\*   same invite or another, at once or later, were let in once.  Only joins that overlap
\*   can let more people in than the invite has places, by writing the same count.
InvitesCountPeople ==
  /\ \A i \in InviteLinks :
       /\ link[i].uses <= Cardinality(LetInBy(i))
       /\ i \notin shared => link[i].uses = Cardinality(LetInBy(i))
  /\ \A g \in Guests : Cardinality({i \in InviteLinks : <<g, i>> \in letIn})
                         = IF guest[g] = "absent" THEN 0 ELSE 1
==============================================================================
