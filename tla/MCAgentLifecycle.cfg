CONSTANTS
  Agents = {a1}
  Workers = {w1}
  Restarters = {r1, r2}
  Monitor = mon
  Nobody = nobody
  MaxAgents = 1
  MaxRestartAttempts = 3
  DockerErrors = TRUE
  MaxRuns = 2
SPECIFICATION Spec
INVARIANTS
  RestartBudget
  NoSilentLeak
  SavedMatches
SYMMETRY Interchangeable
