SPECIFICATION Spec
CONSTANTS
  ID_MOD = 5
  SEQ_REAP_INTERVAL = 1
  SeqBacktracks = {0, 2, 3}
  TimeBacktracks = {0, 1}
  ReplayWindows <- Windows
  LongForms = {TRUE, FALSE}
  MaxSent = 6
  MaxTime = 4
  MaxLives = 3
INVARIANTS NoReplay SentOnce ReorderingTolerated RestartRemembers
CHECK_DEADLOCK FALSE
