SPECIFICATION TimedSpec
CONSTANTS
  MAX_PACKET_ID = 2
  UINT_MAX = 8
  MAX_MESSAGE_HANDLERS = 1
  CharIsSigned = TRUE
  InitialIds = {0}
  KeepAliveIntervals = {1}
  Filters = {t1}
  Topics = {t1}
  Matches <- MCMatches
  NoTopic = NoTopic
  Intact = {TRUE}
  LinkFailures = TRUE
  MaxCalls = 1
  MaxConns = 1
  MaxPubs = 0
PROPERTY CallsAlwaysReturn
CHECK_DEADLOCK FALSE
