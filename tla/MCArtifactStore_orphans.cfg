SPECIFICATION FairStoreSpec
CONSTANTS
  a1 = a1
  a2 = a2
  a3 = a3
  Artifacts = {a1, a2}
  Owners = {d1, v1}
  Designs = {d1}
  Leases = {v1}
  Size <- Sizes
  QuotaBytes = 3
  ArtifactTTL = 1
  LeaseTTL = 1
  ReapBatch = 2
  StartupCleanupLimit = 1
  MaxTime = 2
  Null = Null
PROPERTY OrphansReclaimed
