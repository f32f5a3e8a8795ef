SPECIFICATION OperationsSpec
CONSTANTS
  Mons = {m1}
  Targets = {a1, a2}
  Editors = {e1, e2}
  MaxEdits = 3
  MaxProbes = 2
  New = New
  Gone = Gone
  Elsewhere = Elsewhere
  Rules = {r1}
  Workers = {w1, w2}
  Debounces = {1, 2}
  MaxStreak = 3
  NoRule = NoRule
  Visitors = {v1, v2}
  Mods = {o1}
  Logins = {l1}
  MaxTickets = 2
  TicketTTL = 1
  GrantTTL = 1
  MaxInflight = 1
  MaxPerModule = 1
  NoMod = NoMod
  Savers = {s1, s2}
  Sites = {w3, w4}
  SaveKeys = {k1}
  Contents = {x1, x2}
  SiteLimit = 2
  Remembered = 2
  NoSite = NoSite
  NoKey = NoKey
CHECK_DEADLOCK FALSE
INVARIANTS OperationsTypeOK
PROPERTIES AgentConverges SocketsEnd WebsitesKept
