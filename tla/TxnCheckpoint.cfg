SPECIFICATION Spec
CONSTANTS
  N = 3
  MaxId = 3
  Gap = 1
  Isolations <- Snapshot
  Users = {1}
  Reading = {}
  Preparing = {}
  Sweeping = {1}
  SweepModes <- Modes
  Evicting = {3}
  Reconciling = {}
  Checkpointers = {2}
INVARIANTS TypeOK SnapshotExcludesRunning RunningNotPassed CheckpointKeepsVersions GloballyVisible
