CONSTANTS
  Nil = Nil
  Fds = {f1, f2}
  Agents = {a1, a2}
  MaxTraffic = 1
  MaxClient = 1
  CmdClose = {}
SPECIFICATION FairSpec
CHECK_DEADLOCK FALSE
PROPERTIES
  ClosedIsReclaimed
  OpenEnds
