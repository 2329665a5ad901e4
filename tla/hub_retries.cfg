SPECIFICATION Spec
CONSTANTS
  h1 = h1
  h2 = h2
  r1 = r1
  r2 = r2
  s1 = s1
  s2 = s2
  session = session
  credential = credential
  Wildcard = Wildcard
  NoConf = NoConf
  NoHub = NoHub
  Types = {session, credential}
  TypeOf <- MCTypeOf
  Hubs = {h1, h2}
  Receivers = {r1}
  Submissions = {s1}
  Configs <- AuthConfigs
  BrokerStarted = {h2}
  Malformed = {}
  Expiring = {s1}
  MaxRetries = 2
  MaxDeliveries = 1
CHECK_DEADLOCK FALSE
INVARIANTS
  TypeOK
  OnlyWantedDeliveries
  AttemptsTruthful
PROPERTY KeepsPromise
