SPECIFICATION Spec
CONSTANTS
  c = c
  Events = {e1}
  Types = {"completed", "failed", "reachout", "unknown"}
  Workers = {w1, w2}
  Conversations = {c}
  Groups = {c}
  ConvOf <- OneConversation
  ByLinq = {e1}
  None = None
  MaxAttempts = 3
  MaxBubbles = 2
  Outages = TRUE
SYMMETRY WorkerSymmetry
INVARIANTS
  TypeOK
  CompletionsCarryTheLink
  DeliveredOnceInFull
PROPERTIES
  
  TellingSpec
CHECK_DEADLOCK FALSE
