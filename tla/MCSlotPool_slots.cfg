\* Four units, each of another schedule, in two slots, and pools of many graphs.
SPECIFICATION Spec
CHECK_DEADLOCK FALSE
CONSTANTS
  u1 = u1
  u2 = u2
  u3 = u3
  u4 = u4
  None = None
  Units = {u1, u2, u3, u4}
  WorkOf <- MCWorkOf
  Observed = {u2}
  Graphs <- AllGraphs
  GraphOf <- MCGraphOf
  Capacity = 2
  Stride = 8
  Slices = {2}
  DeepSlices = {3}
  DispatchRoom = 4
  ObserveInterval = 3
  DeviceTime = 3
  Places = 4
  BusyGraphs <- Busy
  Ahead = 1
  MaxBuilds = 2
  ReheatThrough = 2
  MaxNodes = 4
  MaxDegree = 3
  Candidate <- FourColors
INVARIANTS
  SlotInv
  CheckpointsAnnealed
  ObservedInTime
  LayoutSound
