CONSTANTS
  None = None
  Nobody = None
  Nothing = None
  NoCall = None
  Sites = {a, b}
  Hostnames = {h1, h2}
  Unreachable = {}
  MaxGeneration = 2
  MaxStops = 2
  Users = {u1}
  Browsers = {b1}
  IdleTtl = 2
  AbsoluteTtl = 3
  StateTtl = 1
  CodeTtl = 1
  Freshness = 1
  MaxSessions = 2
  MaxTime = 4
  People = {p1, p2}
  Screens = {y1, y2}
  Logins = {l1}
  MaxChanges = 2
  Policies <- MCPolicies
  OldSite = a
  OldHost = h1
  KvDelay = 1
  CapabilityTtl = 1
  Skew = 1
  MaxPublications = 2
  MaxHours = 3
  LastKey = 5
  Matching = {1, 2, 4, 5}
  PageLimit = 3
  MaxPages = 2
SPECIFICATION MCSpec
INVARIANTS PlatformTypeOK HostnamesFollowClaims SiteClosesInTime
  AccessFollowsPolicy ListIsComplete
PROPERTIES KeysStayWithTheirPerson
CHECK_DEADLOCK FALSE
