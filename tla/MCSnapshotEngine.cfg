CONSTANTS
  Commands = {c1, c2}
  Nobody = nobody
  ResumeAttempts = 2
  DockerErrors = TRUE
  MaxWrites = 2
  MaxContainers = 2
  MaxSnapshots = 2
SPECIFICATION Spec
INVARIANTS
  TypeOK
  PauseExcludes
  SnapshotConsistent
PROPERTIES
  ResumedUnlessTried
  MigratedIsStored
  RestoreVerified
SYMMETRY Interchangeable
