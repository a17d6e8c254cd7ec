\* Two changes of the cluster during a run, at any moment; up to two events.
SPECIFICATION Spec
CONSTANTS
  Nil = Nil
  ExtNames <- MCExtNames
  GPUNames = {}
  Numerals <- MCNumerals
  ParseInt <- MCParseInt
  Inputs = {}
  MaxChanges = 2
  MaxEvents = 2
  Spare <- MCSpare
  Requests <- MCRequests
  Clusters <- MCClusters
INVARIANTS
  TypeOK
  NothingInvented
  NothingHidden
  CountedOnlyIfMoved
  OutcomeTrue
  EventIsLatest
PROPERTIES
  Returns
