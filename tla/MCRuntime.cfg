SPECIFICATION Spec
CONSTANTS
  core1 = core1
  core2 = core2
  hys = hys
  Servers = {core1, core2, hys}
  CoreServers = {core1, core2}
  NoServer = NoServer
  NoConfig = NoConfig
  Desired <- AllStates
  RecoveryCodes = {0, 1, 10}
  MaxEdits = 3
  MaxReloads = 1
  MaxCrashes = 1
  MaxFailures = 1
  MaxOrphans = 0
  MaxPolls = 0
  MaxReboots = 0
  Respawns = 1
ACTION_CONSTRAINT OneStory
INVARIANT TypeOK
INVARIANT CoreLossStaysClosed
INVARIANT KillSwitchStaysClosed
INVARIANT RunningIsDesired
INVARIANT ReceiptIsSound
PROPERTY PublishedWithReceipt
CHECK_DEADLOCK FALSE
