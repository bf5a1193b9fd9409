CONSTANTS
  Desc <- MCDesc
  Dist <- MCDist
  Presses <- MCPresses
  Foreign <- MCForeign
  NOrient = 4
  MaxFeatures = 3
  MinMatched = 2
  HammingBudget = 115
  MatchThreshold = 200
  AgreeScore = 150
  AgreeFrames = 2
  EnrollFrames = 3
  SimThreshold = 300
  SimMaxRejects = 1
  ProbeFrames = 2
  MaxStored = 4
SPECIFICATION Spec
INVARIANTS
  GalleryInBounds
  EnrolledIsUsable
  GenuineMatches
  MatchIsEarned
