SPECIFICATION Spec
CONSTANTS
  BrokerIds = {b1, b2}
  InboundQoS = {1, 2}
  MaxInbound = 2
  LinkFailures = TRUE
  MAX_PACKET_ID = 3
  MAX_MESSAGE_HANDLERS = 1
  MAX_INCOMING_QOS2_MESSAGES = 1
  CharIsSigned = TRUE
  PublishQoS = {0, 1, 2}
  CleanSessions = {TRUE, FALSE}
  PingDue = {TRUE, FALSE}
  MaxConnections = 2
  MaxCalls = 4
INVARIANTS TypeOK UnackedIsKept PublishCompletes AtMostOnce TakenIsDelivered
 
SYMMETRY Symmetry
CHECK_DEADLOCK FALSE
