SPECIFICATION FairSpec
CONSTANTS
  job1 = job1
  job2 = job2
  panel1 = panel1
  panel2 = panel2
  NoJournal = NoJournal
  FirstPanel = panel1
  Jobs <- OneJob
  Docs <- Documents
  MaxCalls = 2
  MaxFaults = 0
  MaxDeaths = 0
  MaxLosses = 2
  MaxEdits = 0
  MaxTicks = 1
  MaxReloads = 0
CHECK_DEADLOCK FALSE
PROPERTY LosesNoHalf
PROPERTY EverybodyReturns
