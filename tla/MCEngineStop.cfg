\* What Stop promises, against a load that is under way when it is called.
SPECIFICATION FairSpec
CONSTANTS
  Names = {wa}
  Insts = {i1, i2}
  Threads = {t1, t2}
  None = None
  Scheduled = {}
  Capacity = 1
  MaxEvents = 1
PROPERTIES
  StopStopsAll
CHECK_DEADLOCK FALSE
