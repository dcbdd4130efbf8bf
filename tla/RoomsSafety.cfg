SPECIFICATION RoomsSpec
CONSTANTS
  Members = {a, b, u}
  Linked = {a, b}
  Creator = a
  Requests = {r1}
  NoOne = NoOne
  MaxMoves = 4
  MaxMessages = 3
  hello = hello
  helloAgain = helloAgain
  there = there
  Hooks = {hello, helloAgain, there}
  Carries <- OneMessageTwice
  WebMessages = {3}
  Procs = {p1, p2}
  PoolSize = 3
  Nobody = Nobody
  Guests = {g1, g2, g3}
  InviteLinks = {i1, i2}
  MaxUses = 2
  Joins = {j1, j2}
  NoGuest = NoGuest
  NoLink = NoLink
SYMMETRY Symmetry
INVARIANTS
  TypeOK
  AppHasOneOwner
  GroupIsConsistent
  AuthorityFollowsTheGroup
  MessagesAreAnswered
PROPERTIES
  OwnershipIsNotTaken
CHECK_DEADLOCK FALSE
