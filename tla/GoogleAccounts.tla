---------------------------- MODULE GoogleAccounts ----------------------------
(***************************************************************************)
(* Google accounts of Dot's users (services/integrations.py): consents     *)
(* that users give in overlapping browser windows, services that they      *)
(* disconnect meanwhile, and token refreshes of tools that are running.    *)
(*                                                                         *)
(* A callback stands for the token it gets from Google and for the row of  *)
(* integration_accounts that it inserts.  Google takes one refresh token   *)
(* back together with all the others of that identity.                     *)
(***************************************************************************)
CONSTANTS
  Owners,       \* users of Dot
  Identities,   \* Google accounts
  Services,     \* keys of integration_grants: calendar and gmail
  Consents,     \* integration_oauth_states
  Callbacks,    \* requests to /integrations/google/callback
  Disconnects,  \* requests to disconnect a service, in progress
  Refreshes,    \* tools that refresh an access token, in progress
  NoOwner, NoService, NoCallback, NoConsent, NoIdentity

ASSUME GoogleAssumption ==
  /\ NoOwner \notin Owners /\ NoCallback \notin Callbacks /\ NoIdentity \notin Identities
  /\ Callbacks \cap Disconnects = {}

VARIABLES
  consent,     \* the user and the service a state is for, and whether it was used
  callback,    \* a callback: where it is, its state, identity, and the row and token it found
  connected,   \* integration_accounts: the row of an identity and the token it keeps
  grants,      \* integration_grants: services of the row of an identity
  accepted,    \* tokens that Google accepts
  disconnect,  \* a disconnection: where it is, the row and the service
  refresh,     \* a refresh: the row and the token it has read
  unsettled    \* identities that two requests worked on at once, or one left half done

googleVars == <<consent, callback, connected, grants, accepted, disconnect, refresh, unsettled>>

NoRow     == [row |-> NoCallback, token |-> NoCallback]
Unstarted == [at |-> "none", of |-> NoConsent, who |-> NoIdentity, row |-> NoCallback,
              token |-> NoCallback]
Idle      == [at |-> "idle", who |-> NoIdentity, row |-> NoCallback, service |-> NoService]

-----------------------------------------------------------------------------
(***************************************************************************)
(* Faults.  Each operator is the definition of the same shape below with   *)
(* one plausible slip in it; no action uses them.                          *)
(***************************************************************************)

\* An identity is taken over from the user who has connected it.
AnyOwner(c, i) == TRUE

-----------------------------------------------------------------------------
(***************************************************************************)
(* Decisions of the code                                                   *)
(***************************************************************************)

UserOf(c) == consent[callback[c].of].user

\* account.user_id == state.user_id, when the identity has a row.
SameOwner(c, i) == connected[i].row # NoCallback => UserOf(connected[i].row) = UserOf(c)

\* The row that was found is still there; none was found and there is none.
Unchanged(i, row) == connected[i].row = row

\* The disconnection sees no other service: active_grant_count = 0.
IsLast(i, s) == grants[i] \ {s} = {}

-----------------------------------------------------------------------------
GoogleInit ==
  /\ consent = [f \in Consents |-> [user |-> NoOwner, service |-> NoService, used |-> FALSE]]
  /\ callback = [c \in Callbacks |-> Unstarted]
  /\ connected = [i \in Identities |-> NoRow]
  /\ grants = [i \in Identities |-> {}]
  /\ accepted = {}
  /\ disconnect = [d \in Disconnects |-> Idle]
  /\ refresh = [t \in Refreshes |-> [who |-> NoIdentity, row |-> NoCallback, token |-> NoCallback]]
  /\ unsettled = {}

\* create_oauth_authorization, from the web or for a link, which opens it more than once when
\*   it is followed twice at a time.
Authorize(f, u, s) ==
  /\ consent[f].user = NoOwner
  /\ consent' = [consent EXCEPT ![f] = [user |-> u, service |-> s, used |-> FALSE]]
  /\ UNCHANGED <<callback, connected, grants, accepted, disconnect, refresh>>

\* complete_google_oauth reads the state; the user has chosen an identity.
BeginCallback(c, f, i) ==
  /\ callback[c].at = "none"
  /\ consent[f].user # NoOwner /\ ~consent[f].used
  /\ callback' = [callback EXCEPT ![c] = [Unstarted EXCEPT !.at = "read", !.of = f, !.who = i]]
  /\ UNCHANGED <<consent, connected, grants, accepted, disconnect, refresh>>

\* The state is marked, and committed, whatever it has become.
UseConsent(c) ==
  /\ callback[c].at = "read"
  /\ consent' = [consent EXCEPT ![callback[c].of].used = TRUE]
  /\ callback' = [callback EXCEPT ![c].at = "used"]
  /\ UNCHANGED <<connected, grants, accepted, disconnect, refresh>>

\* The code is exchanged for a token.
Exchange(c) ==
  /\ callback[c].at = "used"
  /\ accepted' = accepted \cup {c}
  /\ callback' = [callback EXCEPT ![c].at = "exchanged"]
  /\ UNCHANGED <<consent, connected, grants, disconnect, refresh>>

\* The row of the identity is looked up, the token it keeps taken over if Google sent none.
FindAccount(c) ==
  LET i == callback[c].who IN
  /\ callback[c].at = "exchanged"
  /\ SameOwner(c, i)
  /\ \E token \in {c, connected[i].token} \ {NoCallback} :
       callback' = [callback EXCEPT ![c].at = "found", ![c].row = connected[i].row,
                                    ![c].token = token]
  /\ UNCHANGED <<consent, connected, grants, accepted, disconnect, refresh>>

\* The account, the grant and the event, in one commit.
Store(c) ==
  LET i == callback[c].who IN
  /\ callback[c].at = "found" /\ Unchanged(i, callback[c].row)
  /\ connected' = [connected EXCEPT ![i] =
       [row |-> IF @.row = NoCallback THEN c ELSE @.row, token |-> callback[c].token]]
  /\ grants' = [grants EXCEPT ![i] = @ \cup {consent[callback[c].of].service}]
  /\ callback' = [callback EXCEPT ![c].at = "stored"]
  /\ UNCHANGED <<consent, accepted, disconnect, refresh>>

\* The provider, a check, a constraint or the process stops it.
FailCallback(c) ==
  /\ callback[c].at \in {"read", "used", "exchanged", "found"}
  /\ callback' = [callback EXCEPT ![c].at = "failed"]
  /\ UNCHANGED <<consent, connected, grants, accepted, disconnect, refresh>>

\* disconnect_google_integration reads the account and the grant, and stops the watch.
BeginDisconnect(d, i, s) ==
  /\ disconnect[d].at = "idle" /\ s \in grants[i]
  /\ disconnect' = [disconnect EXCEPT ![d] =
       [at |-> "read", who |-> i, row |-> connected[i].row, service |-> s]]
  /\ UNCHANGED <<consent, callback, connected, grants, accepted, refresh>>

\* The grant is deleted; of the others it sees what is committed.  The last one takes the
\*   consent at Google with it.
DeleteGrant(d) ==
  LET i == disconnect[d].who
      s == disconnect[d].service IN
  /\ disconnect[d].at = "read"
  /\ Unchanged(i, disconnect[d].row) /\ s \in grants[i]
  /\ \A e \in Disconnects : disconnect[e].at \in {"one", "last"} /\ disconnect[e].who = i =>
       disconnect[e].service # s
  /\ disconnect' = [disconnect EXCEPT ![d].at = IF IsLast(i, s) THEN "last" ELSE "one"]
  /\ accepted' = IF IsLast(i, s) THEN {c \in accepted : callback[c].who # i} ELSE accepted
  /\ UNCHANGED <<consent, callback, connected, grants, refresh>>

\* The commit; a row that goes takes the grants with it that were added meanwhile.
CommitDisconnect(d) ==
  LET i == disconnect[d].who IN
  /\ disconnect[d].at \in {"one", "last"}
  /\ IF disconnect[d].at = "last" /\ Unchanged(i, disconnect[d].row)
     THEN /\ connected' = [connected EXCEPT ![i] = NoRow]
          /\ grants' = [grants EXCEPT ![i] = {}]
     ELSE /\ grants' = [grants EXCEPT ![i] = @ \ {disconnect[d].service}]
          /\ UNCHANGED connected
  /\ disconnect' = [disconnect EXCEPT ![d] = Idle]
  /\ UNCHANGED <<consent, callback, accepted, refresh>>

\* A provider, a row that has gone or the process stops it; what Google has taken back stays so.
FailDisconnect(d) ==
  /\ disconnect[d].at \in {"read", "one", "last"}
  /\ disconnect' = [disconnect EXCEPT ![d] = Idle]
  /\ UNCHANGED <<consent, callback, connected, grants, accepted, refresh>>

\* get_valid_google_access_token: a tool has read an account of its user and asks Google, ...
BeginRefresh(t, i) ==
  /\ refresh[t].who = NoIdentity /\ grants[i] # {}
  /\ refresh' = [refresh EXCEPT ![t] =
       [who |-> i, row |-> connected[i].row, token |-> connected[i].token]]
  /\ UNCHANGED <<consent, callback, connected, grants, accepted, disconnect>>

\* ... and writes back all that it has read, if the row is still there.
EndRefresh(t) ==
  LET i == refresh[t].who IN
  /\ i # NoIdentity
  /\ refresh' = [refresh EXCEPT ![t] = [who |-> NoIdentity, row |-> NoCallback,
                                        token |-> NoCallback]]
  /\ connected' = IF Unchanged(i, refresh[t].row)
                  THEN [connected EXCEPT ![i].token = refresh[t].token] ELSE connected
  /\ UNCHANGED <<consent, callback, grants, accepted, disconnect>>

\* Requests on an identity that have read what they are about to change.
AtWork(i) ==
  {c \in Callbacks : callback[c].who = i /\ callback[c].at \in {"exchanged", "found"}}
    \cup {d \in Disconnects : disconnect[d].who = i}

Crowded(i) == \E x, y \in AtWork(i) : x # y

HalfDone(i) ==
  \E d \in Disconnects : disconnect[d].who = i /\ disconnect[d].at = "last" /\ FailDisconnect(d)

GoogleNext ==
  /\ \/ \E f \in Consents, u \in Owners, s \in Services : Authorize(f, u, s)
     \/ \E c \in Callbacks :
          \/ \E f \in Consents, i \in Identities : BeginCallback(c, f, i)
          \/ UseConsent(c) \/ Exchange(c) \/ FindAccount(c) \/ Store(c) \/ FailCallback(c)
     \/ \E d \in Disconnects :
          \/ \E i \in Identities, s \in Services : BeginDisconnect(d, i, s)
          \/ DeleteGrant(d) \/ CommitDisconnect(d) \/ FailDisconnect(d)
     \/ \E t \in Refreshes : EndRefresh(t) \/ \E i \in Identities : BeginRefresh(t, i)
  /\ unsettled' = unsettled \cup {i \in Identities : Crowded(i)' \/ HalfDone(i)}

-----------------------------------------------------------------------------
\* The rows, the requests and what Google knows.
GoogleTypeOK ==
  /\ consent \in [Consents -> [user : Owners \cup {NoOwner}, service : Services \cup {NoService},
                               used : BOOLEAN]]
  /\ \A c \in Callbacks :
       /\ callback[c].at \in {"none", "read", "used", "exchanged", "found", "stored", "failed"}
       /\ callback[c].of \in Consents \cup {NoConsent}
       /\ callback[c].who \in Identities \cup {NoIdentity}
       /\ {callback[c].row, callback[c].token} \subseteq Callbacks \cup {NoCallback}
  /\ connected \in [Identities -> [row : Callbacks \cup {NoCallback},
                                   token : Callbacks \cup {NoCallback}]]
  /\ grants \in [Identities -> SUBSET Services]
  /\ accepted \subseteq Callbacks
  /\ disconnect \in [Disconnects -> [at : {"idle", "read", "one", "last"},
                                     who : Identities \cup {NoIdentity},
                                     row : Callbacks \cup {NoCallback},
                                     service : Services \cup {NoService}]]
  /\ refresh \in [Refreshes -> [who : Identities \cup {NoIdentity},
                                row : Callbacks \cup {NoCallback},
                                token : Callbacks \cup {NoCallback}]]
  /\ unsettled \subseteq Identities

\* The token of an account comes from a consent of the account's user to that identity.
TokensAreTheOwners ==
  \A i \in Identities : connected[i] # NoRow =>
    /\ UserOf(connected[i].row) = UserOf(connected[i].token)
    /\ callback[connected[i].row].who = i /\ callback[connected[i].token].who = i

\* An account has a service and a token that Google accepts, or it is gone; two requests at
\*   once may break that.
SettledAccountsWork ==
  \A i \in Identities \ unsettled :
    /\ connected[i] = NoRow <=> grants[i] = {}
    /\ connected[i] # NoRow /\ AtWork(i) = {} => connected[i].token \in accepted

\* Through all overlaps a user's tools hold no token of another user; and whatever order
\*   requests come in, one at a time, complete_google_oauth and
\*   disconnect_google_integration leave accounts that work or none.
ConnectionsAreTheUsers == TokensAreTheOwners /\ SettledAccountsWork
==============================================================================
