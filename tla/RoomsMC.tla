-------------------------------- MODULE RoomsMC --------------------------------
(***************************************************************************)
(* Instances of what goes on in a conversation for TLC: who owns it, in    *)
(* Groups, who comes into it, in Invites, and how its messages are         *)
(* answered, in Conversations.  They share no state: a behaviour is one of *)
(* any of them.                                                            *)
(***************************************************************************)
EXTENDS Groups, Conversations, Invites, TLC

VARIABLE focus

CONSTANTS hello, helloAgain, there

allVars == <<focus, vars, turnVars, inviteVars>>

\* One message is delivered as two events, another as one.
OneMessageTwice == hello :> 1 @@ helloAgain :> 1 @@ there :> 2

RoomsInit ==
  /\ focus \in {"owner", "turns", "invites"}
  /\ Init /\ ConversationsInit /\ InvitesInit
  /\ focus # "owner" => inChat = Members
  /\ focus # "turns" => kind = "group" /\ onboarded

RoomsNext ==
  \/ focus = "owner" /\ Next /\ UNCHANGED <<focus, turnVars, inviteVars>>
  \/ focus = "turns" /\ ConversationsNext /\ UNCHANGED <<focus, vars, inviteVars>>
  \/ focus = "invites" /\ InvitesNext /\ UNCHANGED <<focus, vars, turnVars>>

RoomsSpec == RoomsInit /\ [][RoomsNext]_allVars

Symmetry == Permutations(Procs)

\* While requests do not overlap, a group has one owner, who owns its app; and its invites
\*   let in as many people as they have places for.
GroupIsConsistent == OneOwner /\ GroupAndAppAgree /\ InvitesTypeOK /\ InvitesCountPeople

\* The rows of a conversation are well formed, and its messages are answered once.
MessagesAreAnswered == ConversationsTypeOK /\ EachMessageIsAnswered
================================================================================
