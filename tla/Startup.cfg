SPECIFICATION FairSpec
CONSTANTS
  p1 = p1 p2 = p2 p3 = p3
  Processes = {p1, p2, p3}
  Config <- MCConfig
  Databases <- MCDatabases
  MaxInflight = 1
  MaxTrouble = 2
INVARIANTS TypeOK ServesCompleteSchema VersionTruthful
PROPERTIES StartsUnlessStuck InterruptedStops
