CONSTANTS
  Specs = {"s1", "s2"}
  MachineLag = 2
  VmLag = 1
  MaxEdits = 1
  MaxFaults = 1
  MaxVMFailures = 1
  MaxVMDeletes = 1
SPECIFICATION FairSpec
INVARIANTS TypeOK ReadyMeansVMReady
PROPERTIES Converges
