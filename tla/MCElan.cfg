CONSTANTS
  Stages = 5
  CalibrationAttempts = 3
  MinFrames = 2
  MaxFrames = 3
  Races = {}
SPECIFICATION ElanSpec
INVARIANTS
  ElanIsQuiet
PROPERTIES
  KeepsContract
  ToldCancelEnds
CHECK_DEADLOCK FALSE
