SPECIFICATION ReleaseSpec
CONSTANTS
  Nodes = {n1, n2}
  MaxReleases = 2
  MaxFailovers = 0
CHECK_DEADLOCK FALSE
INVARIANT Serialized
