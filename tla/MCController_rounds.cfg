\* Lease rounds, topologies, rates and gates that change, with a job.
SPECIFICATION Spec
CONSTANTS
  j1 = j1
  s1 = s1
  s2 = s2
  s3 = s3
  ringA = ringA
  ringB = ringB
  low = low
  high = high
  None = None
  Jobs = {j1}
  Salts = {s1, s2}
  ChainTopology = ringA
  AsMeasured = {s1, j1}
  TopologyOf <- TwoRings
  SweepsOf <- Tens
  Configs <- EveryChange
  FirstConfig <- Rated
  ChainStages <- ThreeStages
  ChainGates <- ThreeGates
  FullSweeps = 12
  Calibrated <- Transitions
  MinSamples = 1
  Energies = {2, 3}
  Targets <- OneTarget
  PrepBound = 2
  MaxRound = 1
  MaxConfigures = 1
INVARIANTS
  RangeOfRound
  LiveInEpoch
  TicketInv
  YieldOfAim
