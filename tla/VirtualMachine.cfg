CONSTANTS
  Errors = {"OutOfMemory", "Unavailable"}
  MaxLag = 3
  MaxFaults = 3
  MaxCreates = 2
SPECIFICATION FairSpec
INVARIANTS TypeOK NoOrphan VMBacked ReadyMeansProvisioned
PROPERTIES FinalizerProtocol ReadyReset Converges
