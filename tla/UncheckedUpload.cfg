CONSTANTS
  CalPhase1Len = 16
  CalPhase3Len = 2
  CalPhase5Len = 4
  PreResetLen = 3
  PostResetLen = 13
  PreInitLen = 29
  PostInitLen = 18
  PostCalLen = 20
  ShutdownLen = 9
  CalPollMax = 4
  TimeoutRecoveryMax = 3
  StartupRetryMax = 2
  MaxFrames = 3
SPECIFICATION Spec
INVARIANT
  UploadIsChecked
