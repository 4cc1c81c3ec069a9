SPECIFICATION Spec
CONSTANTS
  req_clients = 1
  latency_transf = 0
  thruput_transf = 2
  Rounds = 1
  conn_typ = "TIPC_CONN"
  MaxRuns = 2
  NapsSuffice = TRUE
  EarlyConnect = {"queue"}
  Faults = {"kill"}
CHECK_DEADLOCK FALSE
INVARIANTS
  AllReady
