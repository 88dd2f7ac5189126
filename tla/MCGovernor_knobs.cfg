\* Two openers of the device, two accelerators, one change of settings, two reports of GPU time.
SPECIFICATION FairSpec
CONSTANTS
  t1 = t1
  t2 = t2
  None = None
  Openers = {t1, t2}
  Settings <- TwoSettings
  First <- Full
  a1 = a1
  a2 = a2
  Accelerators = {a1, a2}
  Answers = {150, None}
  Busy = 30
  Windows = {0, 20}
  Nominal = 3
  MaxReports = 2
  MaxApplies = 1
INVARIANTS
  KnobInv
  SettingsReach
PROPERTY
  StopJoins
