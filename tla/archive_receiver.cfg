SPECIFICATION FairSpec
CONSTANTS
  e1 = e1
  e2 = e2
  Statuses = {"enabled", "paused"}
  Sets = {e1, e2}
  Contents <- MCContents
  MaxEvents = 2
CHECK_DEADLOCK FALSE
INVARIANTS
  TypeOK
  AckedIsHanded
  DeletedIsQuiet
PROPERTIES
  DeleteReturns
  StatusHadDuringCall
