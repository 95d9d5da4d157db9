SPECIFICATION Spec
CONSTANTS
  Profiles = {p1}
  AuthProfiles = {p1}
  Hosts = {}
  Callers = {k1, k2}
  Conns = {c1, c2}
  Ifaces = {tun0}
  MaxLines = 1
  MaxCtl = 1
  MgmtMayDrop = TRUE
  MayStop = TRUE
  NoConn = NoConn
  NoHost = NoHost
  NoIface = NoIface
  NoProfile = NoProfile
  NoStatus = NoStatus
SYMMETRY Symmetry
INVARIANTS EntryHasOwner OpenvpnTracked EndedAttemptAnswered FilesRemoved
PROPERTIES EntryNeverReplaced
