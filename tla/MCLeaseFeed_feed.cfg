\* Two leases of one salt and one stream, under the fairness of the code.
SPECIFICATION FairSpec
CHECK_DEADLOCK FALSE
CONSTANTS
  a = a
  b = b
  c = c
  Leases = {a, b}
  SaltCount <- OneEach
  ChannelCap = 1
  RunnerCap = 1
  MaxStreams = 1
  MaxReseeds = 0
  MaxCancels = 3
INVARIANT
  FeedInv
PROPERTY
  LeaseEnds
