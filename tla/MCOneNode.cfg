CONSTANTS
  Nodes = {p1, p2}
  Stopper = stopper
  Updater = updater
  Inputs <- Machines
  MaxLaunches = 2
SPECIFICATION Spec
INVARIANTS
  OneNode
SYMMETRY AnyNode
CHECK_DEADLOCK FALSE
