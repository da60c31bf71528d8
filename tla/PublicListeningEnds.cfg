SPECIFICATION Spec
CONSTANTS
  s1 = s1
  s2 = s2
  a = a
  Sync <- Syncs
  Leased <- PopulationSync
  Sources = 1
  Item <- OneItem
  MaxItems = 2
  MaxRetries = 1
  MaxKills = 1
PROPERTIES
  SyncStepsRunOut
  SyncEnds
