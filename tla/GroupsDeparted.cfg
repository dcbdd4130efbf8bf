SPECIFICATION Spec
CONSTANTS
  Members = {a, u}
  Linked = {a}
  Creator = a
  Requests = {r1}
  NoOne = NoOne
  MaxMoves = 1
  MaxMessages = 3

INVARIANTS
  DepartedHasNoApp
CHECK_DEADLOCK FALSE
