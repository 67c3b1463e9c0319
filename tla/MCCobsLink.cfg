SPECIFICATION FairSpec
CONSTANTS
  Base = 4
  Requests <- Packets
  Replies <- SomeReplies
  QueueMax = 1
  MaxRequests = 2
  MaxDeaths = 1
INVARIANTS
  TypeOK
  RequestsArrive
  RepliesArrive
PROPERTIES
  Answered
\* The Tether makes no more requests.
CHECK_DEADLOCK FALSE
