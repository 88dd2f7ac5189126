\* A job for Metal, one for the Neural Engine and one for both, two configurations and one engine event.
SPECIFICATION FairSpec
CONSTANTS
  jMetal = jMetal
  jAne = jAne
  jBoth = jBoth
  None = None
  Jobs = {jMetal, jAne, jBoth}
  Able <- MCAble
  MetalWidth = 2
  JobCap = 1
  OutCap = 1
  Configs <- TwoConfigs
  FirstConfig <- Both
  MaxEvents = 1
INVARIANT
  RouterInv
PROPERTIES
  RoutedAsConfigured
  ImplementsContract
  Served
