SPECIFICATION FairReportsSpec
CONSTANTS
  Threads = {w1, w2}
  MaxSamples = 2
  QueueMax = 2
  MaxAsks = 1
  NoThread = NoThread
CONSTRAINT OneConcern
PROPERTY Drains
