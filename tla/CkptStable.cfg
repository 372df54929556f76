SPECIFICATION Spec
CONSTANTS
  N = 4
  Writers = {1, 2}
  Preparing = {}
  Readers = {}
  Setters = {3}
  Asking = {}
  Checkpointers = {4}
  Start = 1
  MaxTs = 3
  MaxId = 2
INVARIANT CheckpointHoldsStable
CHECK_DEADLOCK FALSE
