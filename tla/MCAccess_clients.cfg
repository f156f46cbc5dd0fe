SPECIFICATION MCSpec
CONSTANTS
  Plans = {"clients", "server"}
  Pairs = {p1}
  Creds = {1}
  MaxClaim = 2
  FirstLan = "br-lan"
  OtherLan = "br-home"
  MaxLease = 2
  Lengths = {2}
  Fresh = 1
  MaxAsks = 3
  Shared = TRUE
  MaxIds = 2
  MaxFlips = 2
  PinLimit = 2
  ShortBlock = 1
  LongBlock = 2
  MaxGuesses = 5
  MaxPin = 2
  MaxRegs = 2
  MaxCuts = 1
  MaxReboots = 1
INVARIANTS
  DeletedStaysDeleted
  NothingToDoIsTrue
  SetupIsEmpty
  OneClientPerPhone
PROPERTIES
  ServerComesBack
CHECK_DEADLOCK FALSE
