SPECIFICATION Spec
CONSTANTS
  MaxMessages = 1
  MaxFiles = 1
  MaxFailures = 1
  MaxCrashes = 0
INVARIANT ReceptionStaysRetryable
CHECK_DEADLOCK FALSE
