CONSTANTS
  LbSpecs = {"none", "s1"}
  Names = {1}
  SameName = TRUE
  ClusterLag = 2
  LbLag = 1
  MachineLag = 1
  MaxEdits = 0
  MaxFaults = 0
  MaxLBFailures = 1
SPECIFICATION Spec
INVARIANTS EndpointBacked
PROPERTIES FinalizerProtocol
