SPECIFICATION FairSpec
CONSTANTS
  Messages = {m1, m2}
  MessageIds = {i1, i2}
  NoId = NoId
  MaxMessages = 1
  MaxGenerations = 2
  Loops = {l1, l2}
  MaxStops = 2
CHECK_DEADLOCK FALSE
INVARIANTS
  TypeOK
  OncePerLoop
  OnePullAfterStop
PROPERTIES
  StoppedLoopsEnd
  PublishedIsHandled
