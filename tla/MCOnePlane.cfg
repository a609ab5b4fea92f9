SPECIFICATION Spec
CONSTANTS
  Docs <- OnePlaneDocs
  PyramidTileSize = 2
  UintModulus = 256
  Background = Background
CHECK_DEADLOCK FALSE
INVARIANTS
  TilesDisjoint
  TilesScaled
  PixelsFaithful
  PlanesCovered
