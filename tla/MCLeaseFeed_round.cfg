\* Three leases, of two salts and of one, two reseeds, before the first stream.
SPECIFICATION Spec
CHECK_DEADLOCK FALSE
CONSTANTS
  a = a
  b = b
  c = c
  Leases = {a, b, c}
  SaltCount <- TwoAndOne
  ChannelCap = 2
  RunnerCap = 1
  MaxStreams = 0
  MaxReseeds = 2
  MaxCancels = 3
INVARIANTS
  RoundAfterReseed
  TurnOrder
