SPECIFICATION FairSpec
CONSTANTS
  Start = {d1, d2}
  NoPid = NoPid
  MaxEvents = 2
  MaxSignals = 2
  Faults = {"start", "close", "signal", "topsrv", "select", "next", "recv", "ioctl"}
CHECK_DEADLOCK FALSE
INVARIANTS
  DaemonInv
  ParentTruth
PROPERTIES
  ParentsAnswered
  StopsIfWatched
