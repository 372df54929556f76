SPECIFICATION FairSpec
CONSTANTS
  N = 2
  MaxId = 3
  Gap = 1
  Isolations <- Mixed
  Users = {1, 2}
  Reading = {1}
  Preparing = {2}
  Sweeping = {2}
  SweepModes <- Forced
  Evicting = {}
  Reconciling = {2}
  Checkpointers = {2}
INVARIANTS UncommittedPinHolds
PROPERTY OperationsEnd
