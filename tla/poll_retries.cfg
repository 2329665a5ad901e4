SPECIFICATION Spec
CONSTANTS
  Callers = {c1}
  Events = {e1}
  MaxEvents = 1
  MaxRetries = 1
CHECK_DEADLOCK FALSE
INVARIANT TransientFailuresRetried
