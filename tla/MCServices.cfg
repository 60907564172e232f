SPECIFICATION ServiceSpec
CONSTANTS
 RsReleases = {"r1", "r2"}
 RsLaunchers = {"l1", "l2"}
 RsRuns = 3
 RsFiles = 1
 RsTrouble = 1
 UpUploaders = {u1, u2}
 UpNames = {f}
 UpMaxBytes = 10
 UpMaxPages = 2
 UpMaxPixels = 4
 UpTrouble = 2
 JsMaxBytes = 5
 JsMaxJobs = 3
 JsTrouble = 2
 EdProjects = {1, 2}
 EdFirst = 1
 EdNowhere = nowhere
 EdHistory = 2
 EdBudgets <- MCEdBudgets
 EpCanvas = 6
 EpOps = 4
 PfInfo <- MCPfInfo
 PfNone = none
 PfClicks = 3
 PfTrouble = 1
 AaNone = none
 AaGone = gone
 AaProjects = {1, 2}
 AaFirst = 1
 AaTools <- MCAaTools
 AaTurns = 2
 AaIterations = 2
 AaRounds = 1
 AaReplyCalls = 1
 AaTrouble = 1
 Sessions = {j1, j2}
 Handlers = {h1}
 MaxSessions = 1
 TTL = 1
 MaxPages = 2
 Sizes = {1}
 MaxBytes = 2
 Stuck = {}
 Null = null
 Tabs = {t1}
 Total = 2
 Unreliable = FALSE
INVARIANTS AcceptedStays AssistantInOrder
PROPERTIES NothingGoesOn EditorKeepsWork ServicesEnd
CHECK_DEADLOCK FALSE
