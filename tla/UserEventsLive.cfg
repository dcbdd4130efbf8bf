SPECIFICATION FairSpec
CONSTANTS
  c = c
  Events = {e1, e2}
  Types = {"completed", "failed", "reachout"}
  Workers = {w1, w2}
  Conversations = {c}
  Groups = {}
  ConvOf <- OneConversation
  ByLinq = {}
  None = None
  MaxAttempts = 2
  MaxBubbles = 1
  Outages = FALSE
INVARIANTS
  WakesSeeTheConversation
PROPERTIES
  OutcomesReachTheUser
CHECK_DEADLOCK FALSE
