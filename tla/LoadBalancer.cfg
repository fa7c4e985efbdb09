CONSTANTS
  Desires = {1, 2}
  Versions = {"v1", "v2"}
  LbLag = 0
  VmLag = 0
  MaxVMs = 4
  MaxEdits = 2
  MaxFaults = 0
  MaxVMFailures = 0
SPECIFICATION Spec
INVARIANTS SurgeBound ReplacesOnlyWhenReady
PROPERTY ReplicaFloor
