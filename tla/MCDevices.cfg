SPECIFICATION DeviceSpec
CONSTANTS
 NbLabels = 2
 NbConfigured = {"plain", "d11_auto", "d110"}
 NbTrouble = 1
 NbPollLimit = 1
 PhPages = 2
 PhDialects = {"m_series", "m02", "m04", "m110", "d", "p12", "tspl", "spooled", "watched"}
 PhUnits = 3
 PhChunk = 4
 PhTrouble = 3
 GcPages = 2
 GcFamilies = {"plain", "interactive", "printmaster", "astra"}
 GcRepeats = 1
 GcTrouble = 2
 VxPages = 2
 VxWindow = 1
 VxTrouble = 1
 VxBacklog = 2
 VcPages = 2
 VcChunks = 2
 VcTrouble = 2
 VcBacklog = 2
 VgPages = 3
 VgTemperatures <- MCTemperatures
 VgTrouble = 2
 FxPackets = 4
 FxMaxRetries = 2
 FxTrouble = 4
 FxBacklog = 2
 BlAttempts <- MCAttempts
 BlChunks = 2
 BlHistory = 2
 BlCalls = 3
 BlFrames = 3
 BlTrouble = 2
 BsEndpoints = 2
 BsCalls = 4
 BsTrouble = 3
 OsCalls = 4
 OsTrouble = 2
 OsFrames = 1
 BcChunks = 2
 BcHistory = 1
 BcCalls = 3
 BcFrames = 2
 BcTrouble = 1
 GeServices <- MCServices
 GeCharacteristics <- MCCharacteristics
 GeKnown <- MCKnown
 GeProfiles <- MCProfiles
 PsDialects = {"prefixed", "yk", "niimbot", "phomemo", "printmaster"}
 PsMost = 3
 EnByte = 2
 EnRun = 2
 EnRepeat = 2
 EnSparse = 2
 EnSpeedEvery = 2
 EnBand = 2
 EnLzo <- MCLzo
 EnLines <- MCLines
 EnRows <- MCRows
 EnGray <- MCGray
INVARIANTS FaultsEndJobs PagesAreRight ConnectionsAreOwned NothingMissed StopsHold
PROPERTIES ClientsKeepPromise FxResumesAtRequest DevicesEnd
CHECK_DEADLOCK FALSE
