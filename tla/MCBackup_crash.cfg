SPECIFICATION Spec
CONSTANTS
  job1 = job1
  job2 = job2
  panel1 = panel1
  panel2 = panel2
  NoJournal = NoJournal
  FirstPanel = panel1
  Jobs <- OneJob
  Docs <- Documents
  MaxCalls = 2
  MaxFaults = 1
  MaxDeaths = 2
  MaxLosses = 0
  MaxEdits = 0
  MaxTicks = 1
  MaxReloads = 1
ACTION_CONSTRAINT OneMore
CHECK_DEADLOCK FALSE
INVARIANT FinishedIsWhole
INVARIANT NoTunnelHalfway
INVARIANT StuckOnlyIfMeddled
PROPERTY RestoresAtOnce
