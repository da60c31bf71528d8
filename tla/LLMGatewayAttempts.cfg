SPECIFICATION Spec
CONSTANTS
  Models = 2
  Timeout = 8
  Overrun = 2
INVARIANT
  AttemptCountIsHttpAttempts
