SPECIFICATION MCSpec
CONSTANTS
  Strategies = {1, 2}
  Instruments = {"X"}
  CapitalCents = 110
  Unit = 10
  RateNum = 1
  RateDen = 10
  Ids = {1, 2, 3}
  Kinds = {"SUBMIT", "CANCEL", "MARK_UNFILLED", "EXECUTE_AND_POST"}
  MaxRecords = 3
  Retries = FALSE
  Unlocked = {"p2"}
  Faults = {"kill", "restore"}
  Runs = {"r1", "r2"}
  Entries <- RunEntries
  Exits <- RunExits
  Holding = 2
  Available = {2}
  MaxDay = 3
  MaxStops = 1
  Procs = {"p1", "p2"}
  Commands <- ThreeCommands
  MaxAccepted = 2
  MaxReturned = 3
  MaxCrashes = 2
  MaxRollbacks = 1
INVARIANTS
  
  
  CohortsHonoured
  HistorySound
  ReturnedKept
CHECK_DEADLOCK FALSE
