CONSTANTS
  None = None
  Chats <- MCChats
  Senders = {s1, s2}
  MaxCalls = 2
  Window = 3
  Period <- MCPeriod
  Burst <- MCBurst
SPECIFICATION FairSpec
INVARIANTS
  Paced
PROPERTIES
  ImplementsTwoBuckets
  EverySendGoesOut
CHECK_DEADLOCK FALSE
