CONSTANTS
  Agents = {a1, a2}
  Workers = {w1}
  Closers = {}
  Restarters = {r1}
  Monitor = mon
  Nobody = nobody
  MaxAgents = 1
  MaxRestartAttempts = 2
  DockerErrors = FALSE
  MaxRuns = 1
  MaxStarts = 2
SPECIFICATION NodeSpec
INVARIANTS
  WithinCapacity
CHECK_DEADLOCK FALSE
SYMMETRY AnyAgent
