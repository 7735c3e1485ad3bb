SPECIFICATION Spec
CONSTANTS
  PID_MOD = 8
  RELIABLE_ACK_SIZE = 2
  TLS_RELIABLE_N_SEND_BUFFERS = 2
  TLS_RELIABLE_N_REC_BUFFERS = 2
  CONTROL_SEND_ACK_MAX = 1
  FirstPids = {0, 7}
  ClientMessages = 3
  ServerMessages = 1
  MaxMessages <- MessageBound
  NetCapacity = 2
INVARIANTS TypeOK NothingForgotten RoomForNext WithinWindow HandshakeComplete
PROPERTIES ImplementsChannel
CHECK_DEADLOCK FALSE
