\* One fault of any kind, or one peer closes its room.
CONSTANTS
  Polls <- MCPolls
  Faults = {"lost", "twice", "breaks", "dies", "early", "close"}
  MaxFaults = 1
SPECIFICATION Spec
PROPERTIES HealthyKept  LeaverDropped
CHECK_DEADLOCK FALSE
