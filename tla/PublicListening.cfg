SPECIFICATION Spec
CONSTANTS
  s1 = s1
  s2 = s2
  a = a
  Sync <- Syncs
  Leased <- PopulationSync
  Sources = 2
  Item <- OneItem
  MaxItems = 1
  MaxRetries = 1
  MaxKills = 0
INVARIANTS
  NoSignalCountedTwice
  SyncedSourcesAreStored
  ReturnAccountsForEverySource
  LapsedSyncStops
