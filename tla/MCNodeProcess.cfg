CONSTANTS
  Nodes = {p1, p2}
  Stopper = stopper
  Updater = updater
  Inputs <- Machines
  MaxLaunches = 3
SPECIFICATION Spec
INVARIANTS
  TypeOK
  LockNamesTheNode
  CapacityFitsMachine
  InstalledWhole
SYMMETRY AnyNode
CHECK_DEADLOCK FALSE
