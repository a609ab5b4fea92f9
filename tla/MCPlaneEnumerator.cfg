SPECIFICATION Spec
CONSTANTS
  AllStatistics <- MCStatistics
  MaxSize = 3
CHECK_DEADLOCK FALSE
INVARIANTS
  TypeOK
  NoPlaneTwice
  EveryReachablePlaneVisited
  SceneBoxKnown
PROPERTY
  Termination
