\* A chain salt and two plain ones, stages or keep that change, gates never opened.
SPECIFICATION Spec
CONSTANTS
  j1 = j1
  s1 = s1
  s2 = s2
  s3 = s3
  ringA = ringA
  ringB = ringB
  low = low
  high = high
  None = None
  Jobs = {}
  Salts = {s1, s2, s3}
  ChainTopology = ringA
  AsMeasured = {s1}
  TopologyOf <- OneRing
  SweepsOf <- Tens
  Configs <- StageChanges
  FirstConfig <- Deeper
  ChainStages <- ThreeStages
  ChainGates <- ThreeGates
  FullSweeps = 12
  Calibrated <- Transitions
  MinSamples = 1
  Energies = {2}
  Targets <- OneTarget
  PrepBound = 1
  MaxRound = 0
  MaxConfigures = 1
INVARIANTS
  CutByPlan
  LearntInv
SYMMETRY Plain
