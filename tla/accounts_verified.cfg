SPECIFICATION EmailSpec
CONSTANTS
  EmailWorkers = {w1, w2}
  Emails = {e1, e2}
  Purposes = {"login", "bind"}
  MaxCodes = 1
  MaxAttempts = 1
  MaxDeliveries = 1
  Window = 1
  NoOne = NoOne
PROPERTY VerifiedWasProven
