CONSTANTS
  Calls = {"open", "close", "enroll", "verify", "identify", "delete", "clear_storage"}
  Classes = {{"cancel", "suspend", "resume"}}
  MaxCritical = 3
  Galleries <- MCGalleries
  Quirks = {}
SPECIFICATION SynapticsSpec
INVARIANTS
  AnswerOnItsWay
  ResumeFindsSuspended
PROPERTIES
  SectionsLeft
  CancelledEnds
  PowerAnswered
CHECK_DEADLOCK FALSE
