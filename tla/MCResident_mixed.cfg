\* A job and a salt of different shape, every preparation result, one slot per pool, under the fairness of the code.
SPECIFICATION FairSpec
CONSTANTS
  j1 = j1
  j2 = j2
  s1 = s1
  s2 = s2
  l1 = l1
  l2 = l2
  c1 = c1
  c2 = c2
  ringA = ringA
  ringB = ringB
  None = None
  Jobs = {j1}
  Salts = {s1}
  Leases = {l1}
  LeaseOf <- OneLease
  Workers = 2
  PrepBound = 2
  JobCap = 1
  SaltCap = 1
  OutCap = 1
  Slots = 1
  Configs = {c1}
  FirstConfig = c1
  ShapeOf <- TwoShapes
  LengthOf <- Lengths
  Gates <- AtOne
  Observes <- Nowhere
  PrepResults <- AnyResult
INVARIANTS
  OwnershipInv
  HostAtRest
  Settled
PROPERTIES
  ImplementsContract
  Served
