CONSTANTS
  n1 = n1
  n2 = n2
  n3 = n3
  pd1 = pd1
  a1 = a1
  a2 = a2
  Nodes <- MCNodes
  Pds <- MCPds
  Addrs <- MCAddrs
  Ranges <- MCRanges
  NULL = NULL
SPECIFICATION FairSpec
INVARIANTS RingWhole
PROPERTIES  LoopsEnd
