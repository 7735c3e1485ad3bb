SPECIFICATION FairSpec
CONSTANTS
  PID_MOD = 8
  RELIABLE_ACK_SIZE = 2
  TLS_RELIABLE_N_SEND_BUFFERS = 2
  TLS_RELIABLE_N_REC_BUFFERS = 2
  CONTROL_SEND_ACK_MAX = 1
  FirstPids = {0}
  ClientMessages = 4
  ServerMessages = 1
  MaxMessages <- MessageBound
  NetCapacity = 1
PROPERTIES DeliversAll
CHECK_DEADLOCK FALSE
