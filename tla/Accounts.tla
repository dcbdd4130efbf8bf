------------------------------- MODULE Accounts -------------------------------
(***************************************************************************)
(* Who is who: services/users.py and services/auth.py.  Messages from an   *)
(* address and sign-ins with the addresses a token vouches for look for    *)
(* the account, and commit what they have found or made of it later, with  *)
(* other transactions in between; accounts are deleted under them.         *)
(*                                                                         *)
(* The user of an address is its row of user_identifiers, the status of    *)
(* which nothing ever sets to revoked.  The primary identifier of a user   *)
(* is his first, and a primary phone is users.phone_number already.        *)
(***************************************************************************)
EXTENDS FiniteSets

CONSTANTS
  Phones, Emails, Users,
  Subjects,  \* identities of the sign-in provider
  Vouched,   \* the verified addresses in the token of a subject
  Visits,    \* requests in progress
  NoUser, NoPhone

ASSUME AccountsAssumption ==
  /\ Vouched \in [Subjects -> SUBSET (Phones \cup Emails)]
  /\ IsFiniteSet(Users) /\ NoUser \notin Users /\ NoPhone \notin Phones \cup Emails

VARIABLES
  users,     \* rows of users
  gone,      \* those that have been deleted; an identity is not used again
  phoneOf,   \* users.phone_number
  holder,    \* user_identifiers: the user of an address
  identity,  \* auth_identities: the user of a subject
  visit,     \* a request: what it does, for which address or subject, and what it has found
  heard,     \* messages that were taken in: the address and the user
  opened     \* sign-ins that succeeded: the subject and the user

accountVars == <<users, gone, phoneOf, holder, identity, visit, heard, opened>>

Addresses == Phones \cup Emails
Absent    == [does |-> "nothing", key |-> NoUser, found |-> NoUser]

-----------------------------------------------------------------------------
(***************************************************************************)
(* Faults.  Each operator is the definition of the same shape below with   *)
(* one plausible slip in it; no action uses them.                          *)
(***************************************************************************)

\* The first account an address of the token belongs to is taken.
TakesTheFirst(found) == found # {}

-----------------------------------------------------------------------------
(***************************************************************************)
(* Decisions of the code                                                   *)
(***************************************************************************)

\* find_user_by_identifier: the row of the address, else a user who has the phone.
Known(a) == IF holder[a] # NoUser THEN {holder[a]} ELSE {u \in users : phoneOf[u] = a}

\* link_user_identifier goes through: the address is free or the user's own.
CanLink(a, u) == holder[a] \in {NoUser, u}

\* The addresses of a token lead to one account.
OneCandidate(found) == Cardinality(found) = 1

\* _sync_legacy_phone
PhoneWith(u, addresses) ==
  IF phoneOf[u] = NoPhone /\ addresses \cap Phones # {}
  THEN CHOOSE p \in addresses \cap Phones : TRUE ELSE phoneOf[u]

-----------------------------------------------------------------------------
\* Some users have a phone from before there were identifiers.
AccountsInit ==
  /\ \E legacy \in [Users -> Phones \cup {NoPhone}] :
       /\ \A u, v \in Users : u # v => legacy[u] = NoPhone \/ legacy[u] # legacy[v]
       /\ phoneOf = legacy
       /\ users = {u \in Users : legacy[u] # NoPhone}
  /\ gone = {}
  /\ holder = [a \in Addresses |-> NoUser]
  /\ identity = [s \in Subjects |-> NoUser]
  /\ visit = [v \in Visits |-> Absent]
  /\ heard = {} /\ opened = {}

Finish(v) == visit' = [visit EXCEPT ![v] = Absent]
Remember(v, does, key, found) ==
  visit' = [visit EXCEPT ![v] = [does |-> does, key |-> key, found |-> found]]

\* resolve_user_from_identifier, up to what it finds.
Receive(v, a) ==
  /\ visit[v].does = "nothing"
  /\ IF Known(a) = {} THEN Remember(v, "create", a, NoUser)
     ELSE \E u \in Known(a) :
            Remember(v, IF holder[a] = u THEN "recognise" ELSE "adopt", a, u)
  /\ UNCHANGED <<users, gone, phoneOf, holder, identity, heard, opened>>

Hear(v, u) == Finish(v) /\ heard' = heard \cup {<<visit[v].key, u>>}

\* The address has a row.
Recognise(v) ==
  LET u == visit[v].found IN
  /\ visit[v].does = "recognise" /\ u \in users
  /\ phoneOf' = [phoneOf EXCEPT ![u] = PhoneWith(u, {visit[v].key})]
  /\ Hear(v, u)
  /\ UNCHANGED <<users, gone, holder, identity, opened>>

\* A user from before gets his identifier, unless it was inserted in the meantime.
Adopt(v) ==
  LET a == visit[v].key
      u == visit[v].found IN
  /\ visit[v].does = "adopt" /\ u \in users /\ CanLink(a, u)
  /\ holder' = [holder EXCEPT ![a] = u]
  /\ Hear(v, u)
  /\ UNCHANGED <<users, gone, phoneOf, identity, opened>>

\* A user is made with his identifier.
Create(v, u) ==
  LET a == visit[v].key IN
  /\ visit[v].does = "create" /\ holder[a] = NoUser
  /\ u \notin users \cup gone
  /\ users' = users \cup {u}
  /\ holder' = [holder EXCEPT ![a] = u]
  /\ phoneOf' = [phoneOf EXCEPT ![u] = PhoneWith(u, {a})]
  /\ Hear(v, u)
  /\ UNCHANGED <<gone, identity, opened>>

\* The savepoint fails on the unique identifier: the user it belongs to is taken.
TakeConcurrent(v) ==
  LET a == visit[v].key IN
  /\ visit[v].does = "create" /\ holder[a] # NoUser
  /\ Hear(v, holder[a])
  /\ UNCHANGED <<users, gone, phoneOf, holder, identity, opened>>

\* resolve_authenticated_user: the subject has an account.
SignInAgain(v, s) ==
  /\ visit[v].does = "nothing" /\ identity[s] # NoUser
  /\ opened' = opened \cup {<<s, identity[s]>>}
  /\ UNCHANGED <<users, gone, phoneOf, holder, identity, visit, heard>>

\* _resolve_user_from_verified_claims, up to the account the addresses lead to.
SignIn(v, s) ==
  LET found == UNION {Known(a) : a \in Vouched[s]} IN
  /\ visit[v].does = "nothing" /\ identity[s] = NoUser
  /\ OneCandidate(found)
  /\ \E u \in found : Remember(v, "link", s, u)
  /\ UNCHANGED <<users, gone, phoneOf, holder, identity, heard, opened>>

\* Every address is linked, then the subject, in one transaction.
LinkAll(v) ==
  LET s == visit[v].key
      u == visit[v].found IN
  /\ visit[v].does = "link" /\ u \in users
  /\ \A a \in Vouched[s] : CanLink(a, u)
  /\ identity[s] \in {NoUser, u}
  /\ holder' = [a \in Addresses |-> IF a \in Vouched[s] THEN u ELSE holder[a]]
  /\ phoneOf' = [phoneOf EXCEPT ![u] = PhoneWith(u, Vouched[s])]
  /\ identity' = [identity EXCEPT ![s] = u]
  /\ opened' = opened \cup {<<s, u>>}
  /\ Finish(v)
  /\ UNCHANGED <<users, gone, heard>>

\* The user is not there any more, an address or the subject is another's: nothing is kept.
Refuse(v) ==
  /\ visit[v].does \in {"recognise", "adopt", "link"}
  /\ \/ visit[v].found \notin users
     \/ visit[v].does = "adopt" /\ ~CanLink(visit[v].key, visit[v].found)
     \/ /\ visit[v].does = "link"
        /\ \/ \E a \in Vouched[visit[v].key] : ~CanLink(a, visit[v].found)
           \/ identity[visit[v].key] \notin {NoUser, visit[v].found}
  /\ Finish(v)
  /\ UNCHANGED <<users, gone, phoneOf, holder, identity, heard, opened>>

\* execute_user_reset, with what refers to the user.
Erase(u) ==
  /\ u \in users
  /\ \E a \in Addresses : holder[a] = u
  /\ users' = users \ {u} /\ gone' = gone \cup {u}
  /\ phoneOf' = [phoneOf EXCEPT ![u] = NoPhone]
  /\ holder' = [a \in Addresses |-> IF holder[a] = u THEN NoUser ELSE holder[a]]
  /\ identity' = [s \in Subjects |-> IF identity[s] = u THEN NoUser ELSE identity[s]]
  /\ UNCHANGED <<visit, heard, opened>>

AccountsNext ==
  \/ \E v \in Visits :
       \/ \E a \in Addresses : Receive(v, a)
       \/ Recognise(v) \/ Adopt(v) \/ TakeConcurrent(v) \/ LinkAll(v) \/ Refuse(v)
       \/ \E u \in Users : Create(v, u)
       \/ \E s \in Subjects : SignInAgain(v, s) \/ SignIn(v, s)
  \/ \E u \in Users : Erase(u)

-----------------------------------------------------------------------------
\* Users, their addresses and the requests that look for them.
AccountsTypeOK ==
  /\ users \subseteq Users /\ gone \subseteq Users
  /\ phoneOf \in [Users -> Phones \cup {NoPhone}]
  /\ holder \in [Addresses -> Users \cup {NoUser}]
  /\ identity \in [Subjects -> Users \cup {NoUser}]
  /\ visit \in [Visits -> [does : {"nothing", "create", "recognise", "adopt", "link"},
                           key : Addresses \cup Subjects \cup {NoUser},
                           found : Users \cup {NoUser}]]
  /\ heard \subseteq Addresses \X Users /\ opened \subseteq Subjects \X Users

\* Every account can be reached, and a phone from before is not another's identifier.
Reachable ==
  \A u \in users :
    /\ phoneOf[u] # NoPhone => holder[phoneOf[u]] \in {NoUser, u}
    /\ phoneOf[u] \in Phones \/ \E a \in Addresses : holder[a] = u

\* What was heard from an address stays in the account that the address belongs to.
HeardInOnePlace == \A m \in heard : m[2] \in users => holder[m[1]] = m[2]

\* A sign-in opens one account as long as it exists, the one all its addresses belong to.
OpensItsOwn ==
  \A o \in opened : o[2] \in users =>
    identity[o[1]] = o[2] /\ \A a \in Vouched[o[1]] : holder[a] = o[2]

\* However messages and sign-ins of the same people overlap, and while accounts are deleted,
\*   accounts are neither split nor merged: resolve_user_from_identifier makes one account
\*   per address, and link_user_identifier gives no address to a second one.
AccountsAreSeparate == Reachable /\ HeardInOnePlace /\ OpensItsOwn
==============================================================================
