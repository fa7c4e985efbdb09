CONSTANTS
  LbSpecs = {"s1", "s2"}
  Names = {1}
  SameName = TRUE
  ClusterLag = 0
  LbLag = 0
  MachineLag = 0
  MaxEdits = 1
  MaxFaults = 1
  MaxLBFailures = 1
SPECIFICATION FairSpec
INVARIANTS TypeOK TeardownOrder
PROPERTIES FinalizerProtocol Converges
