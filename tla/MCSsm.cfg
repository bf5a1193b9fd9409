CONSTANTS
  Depth = 2
  NrStates <- MCNrStates
  StartCleanup <- MCStartCleanup
  Jumps <- MCJumps
  Errors = {e1, e2}
  None = None
SPECIFICATION Spec
INVARIANTS
  CleanupIsWhole
PROPERTIES
  FailedEnds
  RootKeepsPromise
