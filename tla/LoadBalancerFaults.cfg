CONSTANTS
  Desires = {0, 1}
  Versions = {"v1", "v2"}
  LbLag = 0
  VmLag = 0
  MaxVMs = 4
  MaxEdits = 1
  MaxFaults = 1
  MaxVMFailures = 1
SPECIFICATION FairSpec
INVARIANTS TypeOK ReadyHasService SurgeBound
PROPERTIES FinalizerProtocol Settles
