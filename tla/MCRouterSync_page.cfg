SPECIFICATION LiveSpec
CONSTANTS
  Watched <- MCWatched
  Transports <- MCTransports
  Pushes <- MCPushes
  RETRY_LIMIT = 2
  Skew = 1
  MaxWrites = 2
  MaxStreams = 2
  MaxClock = 3
  MaxFaults = 1
INVARIANTS
  TypeOK
  QuietPagesAreCurrent
  TimersEndWithTheStream

  
CHECK_DEADLOCK FALSE
