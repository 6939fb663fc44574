CONSTANTS
  Agents = {a1}
  Workers = {w1, main}
  Closers = {main}
  Restarters = {r1}
  Monitor = mon
  Nobody = nobody
  MaxAgents = 1
  MaxRestartAttempts = 2
  DockerErrors = TRUE
  MaxRuns = 1
  MaxStarts = 2
SPECIFICATION NodeFairSpec
INVARIANTS
  NodeTypeOK
  UpNoSilentLeak
  ShutdownForgetsNothing
  RestartsBoundedOverLives
PROPERTIES
  ImplementsNodeContract
  ShutdownEnds
CHECK_DEADLOCK FALSE
