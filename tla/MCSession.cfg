CONSTANTS
  Task <- MCTask
  CalTransfers = 2
  FrameTransfers = 2
  ShutdownTransfers = 2
  StartWaitMax = 2
  ClosePollMax = 2
SPECIFICATION FairSpec
INVARIANTS
  TransferHasLoop
  SuccessIsFinal
PROPERTIES
  ReleaseUnderTransferOnlyAtCap
  CancelIsNotFailure
  ImplementsLoop
  StopDrains
  CancelAnswered
  OpenCloseAnswered
CHECK_DEADLOCK FALSE
