CONSTANTS
  Viewers = {"v", "w"}
  UserOf <- MCUserOf
  Member = "m"
  Requests = {1, 2}
  MaxSessions = 3
  MaxUpsets = 1
SPECIFICATION Spec
INVARIANTS ViewerServed SignedOutStays
PROPERTIES MarkerTells ButtonReturns
CHECK_DEADLOCK FALSE
