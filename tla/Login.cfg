CONSTANTS
  Workers = {w1, w2}
  Configs = {c1, c2}
  MaxFaults = 1
  MaxExpiries = 1
  MaxRotations = 1
  None = None
SPECIFICATION FairSpec
INVARIANTS TypeOK OneWriter
PROPERTIES OneLogin Returns Recovers
