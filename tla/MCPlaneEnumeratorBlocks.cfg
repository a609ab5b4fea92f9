SPECIFICATION Spec
CONSTANTS
  AllStatistics <- MCStatistics
  MaxSize = 3
CHECK_DEADLOCK FALSE
INVARIANT EveryPlaneVisited
