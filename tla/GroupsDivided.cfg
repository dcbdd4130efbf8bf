SPECIFICATION Spec
CONSTANTS
  Members = {a, b}
  Linked = {a, b}
  Creator = a
  Requests = {r1, r2}
  NoOne = NoOne
  MaxMoves = 0
  MaxMessages = 2

INVARIANTS
  GroupAndAppAgree
CHECK_DEADLOCK FALSE
