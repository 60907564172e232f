SPECIFICATION Spec
SYMMETRY Symmetric
CONSTANTS
  Artifacts = {a1}
  Owners = {p1, p2, j1, j2}
  Designs = {}
  Leases = {}
  Size <- OneByteEach
  QuotaBytes = 1
  ArtifactTTL = 1
  LeaseTTL = 1
  ReapBatch = 1
  StartupCleanupLimit = 4
  MaxTime = 2
  Null = Null
  Plans = {p1, p2}
  Jobs = {j1, j2}
  Keys = {k1, k2}
  Devices = {m1}
  MaxActive = 2
  PlanTTL = 1
  UncertainPinRetention = 1
  TerminalRetention = 2
  MaxFaults = 1
INVARIANTS
  ReceiptsAreTrue
  AtMostOncePerRequest
  PinsFollowOwners
  SourcesKept
  ClaimsMatchTasks
PROPERTIES
  UncertainSourcesRetained
  DeliverySpec
