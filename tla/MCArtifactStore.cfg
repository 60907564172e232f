SPECIFICATION FairStoreSpec
CONSTANTS
  a1 = a1
  a2 = a2
  a3 = a3
  Artifacts = {a1, a2, a3}
  Owners = {d1, v1}
  Designs = {d1}
  Leases = {v1}
  Size <- Sizes
  QuotaBytes = 3
  ArtifactTTL = 1
  LeaseTTL = 2
  ReapBatch = 2
  StartupCleanupLimit = 6
  MaxTime = 2
  Null = Null
PROPERTIES ExpiredReclaimed OrphansReclaimed
INVARIANTS RowsHaveFiles PinsHaveRows QuotaRespected
PROPERTY ReapSparesOwned
