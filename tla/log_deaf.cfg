SPECIFICATION FairSpec
CONSTANTS
  Start = {d1}
  NoPid = NoPid
  MaxEvents = 1
  MaxSignals = 1
  Faults = {}
CHECK_DEADLOCK FALSE
PROPERTIES
  Stops
