SPECIFICATION FairSpec
CONSTANTS
  core1 = core1
  core2 = core2
  hys = hys
  Servers = {core1, core2, hys}
  CoreServers = {core1, core2}
  NoServer = NoServer
  NoConfig = NoConfig
  Desired <- CoreStates
  RecoveryCodes = {0}
  MaxEdits = 1
  MaxReloads = 0
  MaxCrashes = 0
  MaxFailures = 0
  MaxOrphans = 1
  MaxPolls = 0
  MaxReboots = 1
  Respawns = 1
PROPERTY Settles
CHECK_DEADLOCK FALSE
