SPECIFICATION RSpec
CONSTANTS
  Lines = {"five roles", "compact", "install", "build", "sign", "transport"}
  Installers = {i1, i2}
  Attempts = {a1, a2}
  Works = {w1}
  BuildSteps <- MCBuildSteps
  MaxVersion = 2
  MaxWrites = 3
  MaxKills = 1
  Packages <- MCPackages
  Signers = {s1, s2}
  MaxBuild = 2
  MaxEdition = 2
  MaxSpared = 1
  MaxStarts = 3
  CMaxEdition = 2
  CMaxSpared = 1
  CMaxStarts = 3
  Members <- MCMembers
  Archived = 2
  Wrappers = {x1, x2}
  MaxTampered = 2
INVARIANTS
  InstalledIsPinned
  StepLeavesNobody
  RecordIsTheFile
  SignatureRecordIsTrue
  StagedIsWhatItIsCalled
  RefusalHasAReason
  EntryIsOfItsSlot
  TransportIsTheBundle
PROPERTIES
  FiveRolesArePublished
  CompactIsPublished
  BuildHasAnEnd
CHECK_DEADLOCK FALSE
