CONSTANTS
  Commands = {c1, c2}
  Nobody = nobody
  ResumeAttempts = 3
  DockerErrors = FALSE
  MaxWrites = 2
  MaxContainers = 1
  MaxSnapshots = 2
SPECIFICATION Spec
INVARIANTS
  ResumedAfterSnapshot
