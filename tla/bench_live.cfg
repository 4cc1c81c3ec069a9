SPECIFICATION FairSpec
CONSTANTS
  req_clients = 3
  latency_transf = 2
  thruput_transf = 2
  Rounds = 2
  conn_typ = "TIPC_CONN"
  MaxRuns = 2
  NapsSuffice = TRUE
  EarlyConnect = {"queue"}
  Faults = {}
CHECK_DEADLOCK FALSE
PROPERTIES
  Finishes
