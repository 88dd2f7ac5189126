\* Two salts of two leases in two-slot pools, and settings that lengthen schedules.
SPECIFICATION Spec
CONSTANTS
  j1 = j1
  j2 = j2
  s1 = s1
  s2 = s2
  l1 = l1
  l2 = l2
  c1 = c1
  c2 = c2
  ringA = ringA
  ringB = ringB
  None = None
  Jobs = {}
  Salts = {s1, s2}
  Leases = {l1, l2}
  LeaseOf <- TwoLeases
  Workers = 2
  PrepBound = 2
  JobCap = 1
  SaltCap = 2
  OutCap = 1
  Slots = 2
  Configs = {c1, c2}
  FirstConfig = c1
  ShapeOf <- SameShape
  LengthOf <- Lengths
  Gates <- AtOne
  Observes <- AtTwo
  PrepResults <- AllSlots
INVARIANTS
  GpuOwnsSlots
  CanFinish
  Custody
