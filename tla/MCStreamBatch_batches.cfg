\* Five jobs of two topologies and two watermarks, one without nodes, batches of two, under the fairness of the code.
SPECIFICATION FairSpec
CONSTANTS
  old = old
  new = new
  this = this
  other = other
  void = void
  None = None
  N = 5
  KeyOf <- MCKeyOf
  ReadsOf <- MCReadsOf
  MarkOf <- MCMarkOf
  NodesOf <- MCNodesOf
  DegreeOf <- MCDegreeOf
  Devices = {20000, 32768}
  Betas = 2
  Shares = {50}
  PoolCap = 2
  Kernel = "msa"
  Cores = 10
  PerCore = 3
  SweepsPer = 5100
  JobCap = 1
  OutCap = 1
  MaxEvents = 1
INVARIANTS
  BatchInv
  ReadsAnnealed
  IdleAtEnd
PROPERTIES
  ImplementsContract
  Served
