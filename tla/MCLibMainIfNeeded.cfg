SPECIFICATION Spec
CONSTANTS
  InitialFiles <- MCInitialFiles
  Requests <- MCRequests
  MaxRuns = 2
  NoFile = NoFile
  Incomplete = Incomplete
  UintModulus = 256
  Background = Background
CHECK_DEADLOCK FALSE
INVARIANT IfNeededAttemptsRegardless
