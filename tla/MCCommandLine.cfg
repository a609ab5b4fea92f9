SPECIFICATION MCSpec
CONSTANTS
  Lines <- MCLines
  Documents <- MCDocuments
  PropertyTypes <- MCPropertyTypes
CHECK_DEADLOCK FALSE
INVARIANTS
  NoTileRefused
  PrintedCompressionIsUsed
  TilesLikeSource
  WhiteIfCalledFor
  StreamHasWholeBag
  OnlyConversionsThrow
