SPECIFICATION ResumeSpec
CONSTANTS
  Keys = {k1, k2}
  Apps = {a1}
  Workers = {w1}
  NoFile = NoFile
CHECK_DEADLOCK FALSE
INVARIANTS
  SnapshotsStored
