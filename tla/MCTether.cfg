SPECIFICATION FairSpec
CHECK_DEADLOCK FALSE
CONSTANTS
  Uploads = 2
  Chunks = 2
  Lives = 3
  TraceMax = 2
  TickMax = 1
  UpMax = 2
INVARIANTS
  TypeOK
  ShownIsThisRun
  ExitTruth
  OwnAnswers
  RunIsConfigured
PROPERTIES
  Handshake
  RunReported
