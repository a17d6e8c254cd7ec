\* Pages of one pod, up to four of them, in a buffer of one; up to two chain pods.
SPECIFICATION Spec
CONSTANTS
  Nil = Nil
  ExtNames <- MCExtNames
  Numerals <- MCNumerals
  ParseInt <- MCParseInt
  StepsOf <- MCStepsOf
  NodeNames <- MCNodeNames
  PageSize = 1
  PageBufferSize = 1
  MaxPods = 4
  MaxChainPods = 2
  Clusters <- MCClusters
INVARIANTS
  FirstBrokenIsFirst
  NothingLostBetweenPages
  HeldBoundedIfLimited
PROPERTIES
  GathersSnapshot
