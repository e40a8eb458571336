CONSTANTS
  Nil = Nil
  Fds = {f1, f2, f3}
  Agents = {a1, a2}
  MaxTraffic = 1
  MaxClient = 2
  CmdClose = {}
SPECIFICATION Spec
SYMMETRY Symmetry
CHECK_DEADLOCK FALSE
INVARIANTS
  TypeOK
  ClientsCounted
  TablesAgree
  RoutedHome
  NoPacketToWatchdog
  NobodyWaitsAtRest
  AgreedAtRest
  StartEndsBeforeDisconnect
