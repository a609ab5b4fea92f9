SPECIFICATION Spec
CONSTANTS
  CallSequences <- MCCallSequences
  DefaultColors <- MCDefaultColors
  Width = 70
CHECK_DEADLOCK FALSE
INVARIANTS
  OldLinesErased
  PlatformsShowSameColors
PROPERTY OnlyPyramidLineLeavesResidue
