CONSTANTS
  c1 = c1
  u1 = u1
  u2 = u2
  None = None
  Users = {u1, u2}
  Chats = {c1}
  Messages <- MCMessages
  Capacity = 2
  MaxRetries = 2
  MaxUpdates = 3
  MaxFaults = 1
SPECIFICATION FairSpec
INVARIANTS
  TypeOK
  RepliesTrue
  ForgottenMeansSubmitted
PROPERTIES
  ImplementsChatPickems
  CatchesUp
CHECK_DEADLOCK FALSE
