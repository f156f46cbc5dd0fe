SPECIFICATION Spec
CONSTANTS
  job1 = job1
  job2 = job2
  panel1 = panel1
  panel2 = panel2
  NoJournal = NoJournal
  FirstPanel = panel1
  Jobs <- OneJob
  Docs <- Documents
  MaxCalls = 1
  MaxFaults = 0
  MaxDeaths = 1
  MaxLosses = 1
  MaxEdits = 0
  MaxTicks = 0
  MaxReloads = 0
CHECK_DEADLOCK FALSE
INVARIANT DurablyWhole
