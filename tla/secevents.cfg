SPECIFICATION Spec
CONSTANTS
  Keys = {k1, k2}
  Issuers = {"i1", "i2"}
  Audiences = {"a1", "a2"}
  AudienceLists <- SmallLists
  Drafts <- SmallDrafts
  Foreign <- SmallForeign
  Varied <- SmallVaried
CHECK_DEADLOCK FALSE
INVARIANTS
  TypeOK
  AcceptedIsValid
  GeneratedIds
PROPERTIES
  RoundTrip
  AcceptedIsVouched
