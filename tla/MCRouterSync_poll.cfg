SPECIFICATION Spec
CONSTANTS
  Watched <- MCWatched
  Transports <- MCPolling
  Pushes <- MCPushes
  RETRY_LIMIT = 2
  Skew = 0
  MaxWrites = 1
  MaxStreams = 0
  MaxClock = 3
  MaxFaults = 0
PROPERTIES
  PolledAnswersAreShown
CHECK_DEADLOCK FALSE
