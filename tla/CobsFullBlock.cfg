SPECIFICATION Spec
CONSTANTS
  Base = 4
  Requests <- Packets
  Replies <- OneReply
  QueueMax = 1
  MaxRequests = 1
  MaxDeaths = 0
INVARIANTS
  RepliesArrive
CHECK_DEADLOCK FALSE
