\* A provider that keeps sending lines.
CONSTANTS
  c1 = c1
  Calls = {c1}
  Workers = 2
  Timeout = {2}
  RoundTimeout = 2
  MaxAttempts = 2
  MaxWords = 1
  Answers <- Streams
SPECIFICATION FairService
PROPERTIES
  WorkEndsWithTheRpc
CHECK_DEADLOCK FALSE
