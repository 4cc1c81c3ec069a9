SPECIFICATION FairSpec
CONSTANTS
  c1 = c1
  c2 = c2
  Client = {c1, c2}
  Worker = {w1, w2}
  Setups <- SetupsIO
  buf_size = 2
  Window = 2
  Stray = {"bad"}
  Outside = {7}
CHECK_DEADLOCK FALSE
INVARIANTS
  PipeInv
  Conserved
  LeavesClean
  LossTruth
PROPERTIES
  Delivered
  HangupSpreads
