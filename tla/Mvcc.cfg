SPECIFICATION Spec
CONSTANTS
  Sessions = {1, 2}
  Keys = {1}
  Readers = {2}
  Setting = {1}
  Modifying = {2}
  Reserving = {2}
  Preparing = {1}
  MaxId = 3
  MaxUpd = 3
  MaxTs = 2
  MaxRead = 1
INVARIANTS TypeOK ReadsRight VersionsKept
PROPERTY NoLostUpdate
CHECK_DEADLOCK FALSE
