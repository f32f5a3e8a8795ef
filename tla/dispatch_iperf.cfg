SPECIFICATION Spec
CONSTANTS
  Nodes = {n1, n2}
  Workers = {w1, w2}
  IperfIds = {1, 2}
  JobIds = {}
  Orders <- TestOrders
  n1 = n1
  n2 = n2
  Keep = 2
  NoNode = NoNode
  NoWorker = NoWorker
  NoItem = NoItem
SYMMETRY AlikeWorkers
INVARIANTS NoRedelivery ServerFirst DoneWasRun
PROPERTY Implements
CONSTRAINT FewPosts
