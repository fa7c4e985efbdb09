CONSTANTS
  Desires = {1}
  Versions = {"v1"}
  LbLag = 1
  VmLag = 1
  MaxVMs = 2
  MaxEdits = 1
  MaxFaults = 0
  MaxVMFailures = 0
SPECIFICATION FairSpec
INVARIANT ReadyHasService
PROPERTIES FinalizerProtocol Settles
