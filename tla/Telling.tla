------------------------------- MODULE Telling -------------------------------
(***************************************************************************)
(* What the outbox of user events promises a conversation: an event that   *)
(* was raised is put into words at most once, by a turn of one or more     *)
(* bubbles whose number is fixed then, and the bubbles reach the chat one  *)
(* by one in their order, none of them before the turn exists.             *)
(***************************************************************************)
EXTENDS Integers

CONSTANTS Events, MaxBubbles

VARIABLES
  raised,   \* the events that were raised
  told,     \* the number of bubbles of the turn of an event, 0 while there is none
  heard     \* the ordinals of its bubbles the chat has received

vars == <<raised, told, heard>>

Init ==
  /\ raised = {}
  /\ told = [e \in Events |-> 0]
  /\ heard = [e \in Events |-> {}]

Raise(e) ==
  /\ raised' = raised \cup {e}
  /\ UNCHANGED <<told, heard>>

Tell(e, n) ==
  /\ e \in raised
  /\ told[e] = 0
  /\ told' = [told EXCEPT ![e] = n]
  /\ UNCHANGED <<raised, heard>>

Hear(e, o) ==
  /\ o < told[e]
  /\ heard[e] = 0..(o - 1)
  /\ heard' = [heard EXCEPT ![e] = 0..o]
  /\ UNCHANGED <<raised, told>>

Next ==
  \E e \in Events :
    \/ Raise(e)
    \/ \E n \in 1..MaxBubbles : Tell(e, n)
    \/ \E o \in 0..(MaxBubbles - 1) : Hear(e, o)

Spec == Init /\ [][Next]_vars
==============================================================================
