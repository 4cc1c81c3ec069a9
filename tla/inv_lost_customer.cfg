SPECIFICATION FairSpec
CONSTANTS
  n1 = n1  n2 = n2  i1 = i1  i2 = i2  c1 = c1  c2 = c2
  j1 = j1  j2 = j2  k1 = k1  k2 = k2
  Gone = Gone
  Node = {n1}
  ItemTask = {i1}
  CustTask = {c1}
  Janitor = {j1}
  Killer = {k1}
  ZeroTask = {}
  AutoTask = {i1, c1}
  home <- OneStore
  ItemID = {1}
  Repeats = 1
  MaxSessions = 1
  Faults = {"customer"}
PROPERTIES CloseCleansUp
CHECK_DEADLOCK FALSE
