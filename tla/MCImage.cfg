CONSTANTS
  Stages = 5
SPECIFICATION Spec
INVARIANTS
  AnsweredIsQuiet
  SuccessIsWhole
PROPERTIES
  DeactivationAnswers
CHECK_DEADLOCK FALSE
