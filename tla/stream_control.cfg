SPECIFICATION ControlSpec
CONSTANTS
  Callers = {c1, c2}
  Events = {e1, e2}
  MaxEvents = 2
  MaxRetries = 0
  PollPlaces = {p1, p2}
  PushPlaces = {q1}
  Subjects = {s1}
  Programs <- SmallPrograms
CHECK_DEADLOCK FALSE
SYMMETRY Symmetric
INVARIANTS
  TypeOK
  ControlTypeOK
  NothingLost
  SuccessIsAcknowledged
  ConfigurationKept
  PolledWherePolled
PROPERTIES
  SuccessTookEffect
  EventsKept
