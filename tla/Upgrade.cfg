CONSTANTS
  Strings <- MCStrings
  Authored <- MCAuthored
  OldStatus <- MCOldStatus
  ZoneLocations = {"zoned"}
  MaxWrites = 2
  MaxFaults = 1
  MaxVMFailures = 1
SPECIFICATION FairSpec
INVARIANTS TypeOK BuiltAsAsked  ReadyAgrees
PROPERTIES ReadyKept ProvisionedFollowsReady Converges
