----------------------------- MODULE UserEventsMC -----------------------------
(***************************************************************************)
(* Instances of UserEvents for TLC.  All events target one conversation,   *)
(* so that their dispatches contend for its lock.                          *)
(***************************************************************************)
EXTENDS UserEvents, TLC

CONSTANT c

OneConversation == [e \in Events |-> c]

WorkerSymmetry == Permutations(Workers)
================================================================================
