SPECIFICATION Spec
CONSTANTS
  req_clients = 3
  latency_transf = 3
  thruput_transf = 3
  Rounds = 2
  conn_typ = "TIPC_CONN"
  MaxRuns = 1
  NapsSuffice = FALSE
  EarlyConnect = {"queue", "refuse"}
  Faults = {"timeout"}
CHECK_DEADLOCK FALSE
INVARIANTS
  ServerInv
  RoundInv
  AllReady
  RoundsApart
  OneListener
