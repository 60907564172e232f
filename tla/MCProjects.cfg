\* Two clients, two ids that are handed out again, one image and its reaper, one
\* folder; and three folders in every arrangement, two projects in them.
CONSTANTS
  plain = plain
  pictured = pictured
  Canvases = {plain, pictured}
  Shows <- Pictures
  Artifacts = {a1}
  Owners = {1, 2}
  Designs = {1, 2}
  Leases = {}
  Size <- OneByteEach
  QuotaBytes = 1
  ArtifactTTL = 1
  LeaseTTL = 1
  ReapBatch = 1
  StartupCleanupLimit = 2
  MaxTime = 2
  Null = Null
  MaxProjects = 2
  MaxCategories = 3
  MaxWrites = 3
  TreeLimit = 2
  Clients = {k1, k2}
SPECIFICATION MCSpec
INVARIANTS PinsFollowDesigns DesignsReadable FoldersFormForest NothingOrphaned
PROPERTIES OnlyReusedIdsLoseEdits
SYMMETRY Symmetric
