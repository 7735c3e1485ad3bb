SPECIFICATION Spec
CONSTANTS
  Instances = {g1, g2}
  MSG_LEN = 2
  MaxPolls = 2
  MaxLost = 1
  MaxStarts = 2
INVARIANTS WholeAnswers StalenessBounded PublishedInOrder
PROPERTY KeepsPolling
CHECK_DEADLOCK FALSE
