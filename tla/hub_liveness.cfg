SPECIFICATION FairSpec
CONSTANTS
  h1 = h1
  h2 = h2
  r1 = r1
  r2 = r2
  s1 = s1
  s2 = s2
  session = session
  credential = credential
  Wildcard = Wildcard
  NoConf = NoConf
  NoHub = NoHub
  Types = {session, credential}
  TypeOf <- MCTypeOf
  Hubs = {h1, h2}
  Receivers = {r1}
  Submissions = {s1, s2}
  Configs <- ChangeConfigs
  BrokerStarted = {h2}
  Malformed = {s2}
  Expiring = {s1}
  MaxRetries = 1
  MaxDeliveries = 1
CHECK_DEADLOCK FALSE
PROPERTIES
  DeliveriesSettle
  RequestsAnswered
  AudienceServed
