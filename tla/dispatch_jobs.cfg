SPECIFICATION FairSpec
CONSTANTS
  Nodes = {n1}
  Workers = {w1, w2}
  IperfIds = {1}
  JobIds = {11, 12}
  Orders <- MixedOrders
  n1 = n1
  n2 = n2
  Keep = 1
  NoNode = NoNode
  NoWorker = NoWorker
  NoItem = NoItem
CONSTRAINT FewRequests
 
PROPERTIES Implements EventuallySettled
