\* Gates that are opened while a chain salt is prepared.
SPECIFICATION Spec
CONSTANTS
  j1 = j1
  s1 = s1
  s2 = s2
  s3 = s3
  ringA = ringA
  ringB = ringB
  low = low
  high = high
  None = None
  Jobs = {}
  Salts = {s1}
  ChainTopology = ringA
  AsMeasured = {s1}
  TopologyOf <- OneRing
  SweepsOf <- Tens
  Configs <- GateChanges
  FirstConfig <- Closed
  ChainStages <- ThreeStages
  ChainGates <- ThreeGates
  FullSweeps = 12
  Calibrated <- Transitions
  MinSamples = 1
  Energies = {1, 2, 3}
  Targets <- OneTarget
  PrepBound = 2
  MaxRound = 0
  MaxConfigures = 1
INVARIANTS
  CutByPlan
