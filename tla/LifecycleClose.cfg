CONSTANTS
  Nil = Nil
  Fds = {f1, f2}
  Agents = {a1, a2}
  MaxTraffic = 0
  MaxClient = 2
  CmdClose = {f1, f2}
SPECIFICATION Spec
SYMMETRY Symmetry
CHECK_DEADLOCK FALSE
INVARIANTS
  TablesAgree
  StartsComeFirst
  NobodyWaitsAtRest
  AgreedAtRest
