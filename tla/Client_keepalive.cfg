SPECIFICATION LiveSpec
CONSTANTS
  MAX_PACKET_ID = 2
  UINT_MAX = 8
  MAX_MESSAGE_HANDLERS = 1
  CharIsSigned = TRUE
  InitialIds = {0}
  KeepAliveIntervals = {0, 1}
  Filters = {t1}
  Topics = {t1}
  Matches <- MCMatches
  NoTopic = NoTopic
  Intact = {TRUE}
  LinkFailures = FALSE
  MaxCalls = 3
  MaxConns = 1
  MaxPubs = 1
PROPERTY KeepAliveHeld
CHECK_DEADLOCK FALSE
