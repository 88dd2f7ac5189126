\* Three jobs, one of them refused by the worker, two faults and one outside event.
SPECIFICATION FairSpec
CONSTANTS
  old = old
  new = new
  None = None
  N = 3
  MarkOf <- MCMarkOf
  WorkOf <- MCWorkOf
  BadJobs = {2}
  BlockSweeps = 2
  OutCap = 1
  MaxEvents = 1
  MaxFaults = 2
INVARIANTS
  WorkerInv
  Annealed
  CleanedUp
PROPERTIES
  ImplementsContract
  Served
  OrphanExits
