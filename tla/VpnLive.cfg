SPECIFICATION FairSpec
CONSTANTS
  Profiles = {p1}
  AuthProfiles = {}
  Hosts = {h1}
  Callers = {k1}
  Conns = {c1}
  Ifaces = {tun0}
  MaxLines = 1
  MaxCtl = 1
  MgmtMayDrop = FALSE
  MayStop = FALSE
  NoConn = NoConn
  NoHost = NoHost
  NoIface = NoIface
  NoProfile = NoProfile
  NoStatus = NoStatus
INVARIANTS RouteRetractable
PROPERTIES DisconnectCompletes
CHECK_DEADLOCK FALSE
