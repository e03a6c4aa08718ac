SPECIFICATION Spec
CONSTANTS
  MaxRetries = 2
  InitialDelay = 2
  MaxDelay = 5
  RetryAfters <- MCRetryAfters
  Bodies <- MCBodies
INVARIANT FaithfulAnswer
PROPERTIES NoReplay CancelReported
CHECK_DEADLOCK FALSE
