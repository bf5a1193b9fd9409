CONSTANTS
  WarmupFrames = 1
  Settle = 1
  TurnTimeout = 3
  PhantomTimeout = 2
  GapMax = 2
  ProbeFrames = 3
  EnrollFrames = 3
  SimMaxRejects = 2
SPECIFICATION FairSpec
INVARIANTS
  ProbesOfOneTouch
  EnrollFinishable
PROPERTIES
  UsedNeedsLift
  PresenceIsResolved
