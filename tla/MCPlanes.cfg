SPECIFICATION Spec
CONSTANTS
  Docs <- PlanesDocs
  PyramidTileSize = 2
  UintModulus = 256
  Background = Background
CHECK_DEADLOCK FALSE
INVARIANTS
  TypeOK
  NothingCopiedTwice
  EveryBlockCopied
  PixelsFaithful
  PlanesCovered
  LayersReported
  DestinationNeedsNoPyramid
PROPERTIES
  WalksThePlanes
  Termination
