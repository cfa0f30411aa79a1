SPECIFICATION MCSpec
CONSTANTS
  t1 = t1
  t2 = t2
  Thread = {t1, t2}
  NoThread = NoThread
  Calls <- MCCalls
  Settings <- MCSettings
  FileNums = {1, 2}
  LogSize = 1
  MaxCalls = 6
  MaxSets = 1
  MaxFaults = 2
  MaxStarts = 2
INVARIANTS WrittenOnce GoesWhereItShould KeepsNewest KeepsOrder
PROPERTY CallsReturn
CHECK_DEADLOCK FALSE
