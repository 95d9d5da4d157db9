SPECIFICATION Spec
CONSTANTS
  Hosts = {h1}
  Profiles = {p1}
  ProfileOf <- OneProfile
  Flows = {f1, f2}
  Tabs = {t1}
  MaxPolls = 1
  NoHost = NoHost
PROPERTIES GateReturns ReleaseEnds
