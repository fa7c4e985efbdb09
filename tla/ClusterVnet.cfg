CONSTANTS
  LbSpecs = {"s1"}
  Names = {1}
  SameName = TRUE
  ClusterLag = 0
  LbLag = 0
  MachineLag = 0
  MaxEdits = 0
  MaxFaults = 0
  MaxLBFailures = 0
SPECIFICATION Spec
INVARIANT NoOrphan
