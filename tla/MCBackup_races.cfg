SPECIFICATION Spec
CONSTANTS
  job1 = job1
  job2 = job2
  panel1 = panel1
  panel2 = panel2
  NoJournal = NoJournal
  FirstPanel = panel1
  Jobs <- TwoJobs
  Docs <- Documents
  MaxCalls = 3
  MaxFaults = 0
  MaxDeaths = 0
  MaxLosses = 0
  MaxEdits = 1
  MaxTicks = 1
  MaxReloads = 0
CHECK_DEADLOCK FALSE
INVARIANT StopWins
PROPERTY CommitIsCurrent
