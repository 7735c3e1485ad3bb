SPECIFICATION Spec
CONSTANTS
  N_FRAG_BUF = 2
  N_SEQ_ID = 4
  MAX_FRAGS = 3
  FRAG_SIZE_ROUND = 2
  Capacity = 20
  Lengths = {3, 8, 9, 20}
  Payloads = {6}
  InitialSeqIds = {3}
  Reach = 2
  MaxPackets = 5
  NetCapacity = 2
INVARIANTS
  OnlyWholeDatagrams
  ReorderedFragmentsJoin
  NoRestOverwritten
  SameNumberOfFragments
CHECK_DEADLOCK FALSE
