SPECIFICATION FairSpec
CONSTANTS
  MsgCap = 2
  StreamBuf = 200
  DO_BLAST = TRUE
  Routine <- Routines
  Argv <- ArgvSuite
  MaxClients = 1
CHECK_DEADLOCK FALSE
INVARIANTS
  SyncInv
  NoFalseAlarm
  OneTarget
  CleanSlate
PROPERTIES
  RendezvousSpec
  SuiteFinishes
