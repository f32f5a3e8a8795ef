SPECIFICATION HostsSpec
CONSTANTS
  h1 = h1
  h2 = h2
  k1 = k1
  k2 = k2
  k3 = k3
  a1 = a1
  a2 = a2
  q1 = q1
  q2 = q2
  q3 = q3
  url1 = url1
  url2 = url2
  Hosts = {h1, h2}
  Keys = {k1, k2, k3}
  Addrs = {a1, a2}
  Setups <- MapSetups
  TTL = 0
  NoPost = NoPost
  MaxRelease = 3
  MaxTrouble = 2
  MayRefuse = TRUE
  MaxOutages = 2
  MaxTries = 3
  Gone = Gone
  Nodes = {n1, n2}
  MaxReleases = 2
  MaxFailovers = 2
  Versions = {x1, x2, x3}
  Clashing = {{x2, x3}}
  Operators = {p1, p2}
  MaxTxs = 2
  MaxEdits = 1
  NoOp = NoOp
  Bundles = {q1, q2, q3}
  Urls = {url1, url2}
  Content <- BundleContent
  Missing = Missing
  MaxVersions = 2
  MaxStages = 2
  NoStage = NoStage
CHECK_DEADLOCK FALSE
INVARIANTS HostsTypeOK AgentSurvives GreenIsTwoSided GoodIsKept ReceiptTrue EdgeKept
PROPERTIES StandbyFirst UrlsKept
