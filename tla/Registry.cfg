SPECIFICATION FairSpec
CONSTANTS
  Jobs = {j1, j2}
  NoJob = noJob
  Goroutines = {g1, g2}
  Cutoff = 4
  FaultKinds = {"stop", "crash", "db_error"}
  MaxFaults = 2
INVARIANTS
  RegistryTypeOK
  StoppedIsIdle
  LiveIsListed
PROPERTIES
  GoneIsUnlisted
  StaleJobClears
