SPECIFICATION Spec
CONSTANTS
  N = 3
  Writers = {1, 2}
  Preparing = {1}
  Readers = {1}
  Setters = {2, 3}
  Asking = {2}
  Checkpointers = {1}
  Start = 1
  MaxTs = 3
  MaxId = 2
INVARIANTS TypeOK OldestNotAfterStable HistoryKept AllDurableEnded
CHECK_DEADLOCK FALSE
