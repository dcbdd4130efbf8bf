------------------------------- MODULE CallOnce -------------------------------
(***************************************************************************)
(* What the journal of tool calls promises of one call of a model: its     *)
(* effect takes place at most once, it gets one result that never changes, *)
(* a result that claims success follows the effect, and everyone who asks  *)
(* gets that result.                                                       *)
(***************************************************************************)
EXTENDS Naturals

CONSTANT Results   \* contains "completed"

VARIABLES
  effects,  \* how often the effect took place
  result,   \* the result of the call, or "none"
  given     \* the results that were given to callers

callVars == <<effects, result, given>>

Init == effects = 0 /\ result = "none" /\ given = {}

\* A first executor's effect; one whose answer is lost still took place.
TakeEffect == effects = 0 /\ effects' = 1 /\ UNCHANGED <<result, given>>

Settle(r) ==
  /\ result = "none" /\ r \in Results
  /\ r = "completed" => effects = 1
  /\ result' = r
  /\ given' \in {given, given \cup {r}}
  /\ UNCHANGED effects

Give == result # "none" /\ given' = given \cup {result} /\ UNCHANGED <<effects, result>>

Next == TakeEffect \/ (\E r \in Results : Settle(r)) \/ Give

Spec == Init /\ [][Next]_callVars
==============================================================================
