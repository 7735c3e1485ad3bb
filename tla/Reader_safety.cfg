SPECIFICATION LiveSpec
CONSTANTS
  Base = 2
  buflen = 13
  Types = {3}
  BodyLengths = {0, 1, 8, 9}
  Bodies <- MCBodies
  MaxPackets = 2
INVARIANTS BufferSafe ReadsWhatWasSent
PROPERTIES NoErrorWithoutCause PacketsReturned
CHECK_DEADLOCK FALSE
