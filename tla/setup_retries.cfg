SPECIFICATION Spec
CONSTANTS
  p1 = p1
  p2 = p2
  poll = poll
  push = push
  Callers = {p1}
  Checking = {p1}
  Methods = {poll, push}
  MethodOf <- MCMethodOf
  MaxRetries = 1
  MaxSetups = 2
CHECK_DEADLOCK FALSE
INVARIANT TransientFailuresRetried
