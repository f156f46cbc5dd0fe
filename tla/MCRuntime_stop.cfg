SPECIFICATION FairSpec
CONSTANTS
  core1 = core1
  core2 = core2
  hys = hys
  Servers = {core1, core2, hys}
  CoreServers = {core1, core2}
  NoServer = NoServer
  NoConfig = NoConfig
  Desired <- CoreStates
  RecoveryCodes = {0, 10}
  MaxEdits = 1
  MaxReloads = 0
  MaxCrashes = 1
  MaxFailures = 1
  MaxOrphans = 0
  MaxPolls = 1
  MaxReboots = 0
  Respawns = 1
INVARIANT StoppedIsStopped
PROPERTY StopTakesEffect
CHECK_DEADLOCK FALSE
