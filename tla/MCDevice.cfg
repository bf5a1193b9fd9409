CONSTANTS
  Calls = {"open", "close", "enroll", "verify", "identify", "capture", "delete", "list", "clear_storage"}
  Classes = {{"cancel"}, {}, {"cancel", "suspend", "resume"}}
  MaxCritical = 2
SPECIFICATION Spec
PROPERTIES
  CancelReachesItsAction
  CancelEnds
  RequestAnswered
CHECK_DEADLOCK FALSE
