SPECIFICATION BlastSpec
CONSTANTS
  m1 = m1
  m2 = m2
  m3 = m3
  Node = {257, 258, 259}
  McastSetups <- McastNodes
  Packets = 3
  MaxTests = 2
  RcvQueue = 1
  Member = {m1, m2, m3}
  GroupSetups <- GroupOptions
  GroupWindow = 1
  MaxCasts = 2
CHECK_DEADLOCK FALSE
INVARIANTS
  McastInv
  VerdictTrue
  CountTrue
  RepliesEnd
  NoStandstill
  GroupInv
