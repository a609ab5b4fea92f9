SPECIFICATION Spec
CONSTANTS
  Docs <- PlanesDocs
  PyramidTileSize = 4
  MaxTopLevelPyramidSize = 3
  UintModulus = 256
  Background = Background
CHECK_DEADLOCK FALSE
INVARIANT TopLevelSmallEnough
