CONSTANTS
  Agents = {a1}
  Workers = {w1, main}
  Closers = {main}
  Restarters = {r1}
  Monitor = mon
  Nobody = nobody
  MaxAgents = 1
  MaxRestartAttempts = 2
  DockerErrors = FALSE
  MaxRuns = 1
  MaxStarts = 2
SPECIFICATION NodeSpec
PROPERTIES
  NoRestartOnceStopped
CHECK_DEADLOCK FALSE
