CONSTANTS
  Desires = {1}
  Versions = {"v1", "v2"}
  LbLag = 0
  VmLag = 0
  MaxVMs = 4
  MaxEdits = 1
  MaxFaults = 0
  MaxVMFailures = 1
SPECIFICATION Spec
INVARIANT ReplacesOnlyWhenReady
