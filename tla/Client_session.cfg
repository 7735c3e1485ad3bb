SPECIFICATION TimedSpec
CONSTANTS
  MAX_PACKET_ID = 2
  UINT_MAX = 8
  MAX_MESSAGE_HANDLERS = 1
  CharIsSigned = TRUE
  InitialIds = {1, 7}
  KeepAliveIntervals = {1}
  Filters = {t1}
  Topics = {t1}
  Matches <- MCMatches
  NoTopic = NoTopic
  Intact = {TRUE, FALSE}
  LinkFailures = TRUE
  MaxCalls = 3
  MaxConns = 2
  MaxPubs = 1
INVARIANTS TypeOK SessionIsReal OnePingInFlight CompletionsAreAnswered SameIdSameRequest NoSilentLoss
PROPERTY CallsReturn
CHECK_DEADLOCK FALSE
