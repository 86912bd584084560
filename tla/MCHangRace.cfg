SPECIFICATION FairSpec
CONSTANTS
  Threads = {t1, t2}
  Inputs = {i1}
  Null = Null
  ZeroSeed = ZeroSeed
  SystemUnits = {1, 2}
  EntropyUnits <- MCEntropyUnits
  SeedUnits <- MCSeedUnits
  MlDraw <- MCMlDraw
  SlhDraw <- MCSlhDraw
  SlhKeyUnits <- MCSlhKeyUnits
  SizeMod <- MCSizeMod
  MaxCalls = 1
  Locked = FALSE
PROPERTY
  DrawsEnd
\* A thread that has made its MaxCalls calls stops.
CHECK_DEADLOCK FALSE
