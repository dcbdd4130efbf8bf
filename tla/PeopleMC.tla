------------------------------- MODULE PeopleMC -------------------------------
(***************************************************************************)
(* Instances of Accounts, AccountDeletion, Waitlist, GoogleAccounts and    *)
(* BankSync for TLC.  What the services share, the users, each module has  *)
(* its own view of: a behaviour is one of any of them.                     *)
(***************************************************************************)
EXTENDS Accounts, AccountDeletion, Waitlist, GoogleAccounts, BankSync, TLC

VARIABLE focus

CONSTANTS mobile, otherMobile, email, subject, otherSubject

allVars == <<focus, accountVars, deletionVars, waitlistVars, googleVars, bankVars>>

\* Two people with a phone each and an address they share.
TwoTokens == subject :> {mobile, email} @@ otherSubject :> {otherMobile, email}

Init ==
  /\ focus \in {"accounts", "deletion", "waitlist", "google", "bank"}
  /\ AccountsInit /\ AccountDeletionInit /\ WaitlistInit /\ GoogleInit /\ BankInit
  /\ focus # "accounts" => users = {}
  /\ focus # "deletion" => company = [g \in Rooms |-> "alone"]
  /\ focus # "waitlist" => endpoint = "join"

Next ==
  \/ /\ focus = "accounts" /\ AccountsNext
     /\ UNCHANGED <<focus, deletionVars, waitlistVars, googleVars, bankVars>>
  \/ /\ focus = "deletion" /\ AccountDeletionNext
     /\ UNCHANGED <<focus, accountVars, waitlistVars, googleVars, bankVars>>
  \/ /\ focus = "waitlist" /\ WaitlistNext
     /\ UNCHANGED <<focus, accountVars, deletionVars, googleVars, bankVars>>
  \/ /\ focus = "google" /\ GoogleNext
     /\ UNCHANGED <<focus, accountVars, deletionVars, waitlistVars, bankVars>>
  \/ /\ focus = "bank" /\ BankNext
     /\ UNCHANGED <<focus, accountVars, deletionVars, waitlistVars, googleVars>>

Spec == Init /\ [][Next]_allVars

Symmetry == Permutations(Users)

\* The rows and requests of the one that moves.
TypeOK ==
  CASE focus = "accounts" -> AccountsTypeOK
    [] focus = "deletion" -> AccountDeletionTypeOK
    [] focus = "waitlist" -> WaitlistTypeOK
    [] focus = "google"   -> GoogleTypeOK
    [] focus = "bank"     -> BankTypeOK
==============================================================================
