\* A project id that is handed out again while a client still shows its first project.
CONSTANTS
  plain = plain
  pictured = pictured
  Canvases = {plain}
  Shows <- Pictures
  Artifacts = {}
  Owners = {1, 2}
  Designs = {1, 2}
  Leases = {}
  Size <- OneByteEach
  QuotaBytes = 0
  ArtifactTTL = 1
  LeaseTTL = 1
  ReapBatch = 1
  StartupCleanupLimit = 2
  MaxTime = 2
  Null = Null
  MaxProjects = 2
  MaxCategories = 1
  MaxWrites = 3
  TreeLimit = 3
  Clients = {k1, k2}
SPECIFICATION MCSpec
PROPERTIES DeletedIsNotFound
