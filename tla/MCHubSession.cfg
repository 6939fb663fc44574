CONSTANTS
  Base = 4
  Cap = 12
  Threshold = 1
  Life = 2
  MaxOutages = 1
  Commands = {deploy, forged, quit}
  Deploys = {deploy, forged}
  Shutdowns = {quit}
  Signed = {deploy, quit}
  PoolSize = 2
  deploy = deploy
  forged = forged
  quit = quit
SPECIFICATION SessionFairSpec
INVARIANTS
  SessionTypeOK
  StatusFollowsHistory
  BackoffInRange
  TokenSurvivesOutage
  OnlySigned
  HubShutdownIsLast
PROPERTIES
  NoFlapping
  EveryCommandEnds
  BackOnlineWithCommands
CHECK_DEADLOCK FALSE
