SPECIFICATION RequestsSpec
CONSTANTS
  EmailWorkers = {w1, w2}
  Emails = {e1, e2}
  Purposes = {"login", "bind"}
  MaxCodes = 2
  MaxAttempts = 2
  MaxDeliveries = 1
  Window = 1
  NoOne = NoOne
  Callers = {c1, c2}
  MaxSessions = 2
  MaxTokens = 3
  MaxVersion = 3
  MaxGrants = 1
  Idle = 2
  Remember = 3
  Elevation = 2
  Nobody = Nobody
  Servers = {s1, s2}
  Clients = {rp1, rp2}
  MaxIssued = 2
  CodeTTL = 1
  TokenTTL = 2
  NoServer = NoServer
  Threads = {w1, w2}
  NoThread = NoThread
  MaxSamples = 4
  QueueMax = 2
  MaxAsks = 2
SYMMETRY Alike
CONSTRAINT OneConcern
INVARIANTS AccountsTypeOK WithinBudget TokenOnce AdminHolds ReportsTypeOK ToldOncePerAsk
PROPERTIES CodesHonoured DeadStaysDead GrantsKept Delivers
