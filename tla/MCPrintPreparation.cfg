\* Two tabs, two prints of two labels, one slot, an unreliable network; two
\* requests that render at the same time, and one call that fails; two pages
\* of two records, two changes, three previews, plans or direct
\* prints; one image of up to 7 by 5 dots, or two, on paper three dots wide.
CONSTANTS
  Sessions = {j1, j2}
  Handlers = {h1}
  MaxSessions = 1
  TTL = 1
  MaxPages = 2
  Sizes = {1, 2}
  MaxBytes = 3
  Stuck = {}
  Null = Null
  Tabs = {t1, t2}
  Total = 2
  Unreliable = TRUE
  RdRequests = 2
  RdAdmitted = 2
  RdActive = 2
  RdFrames = 1
  RdTrouble = 1
  FzPages = {1, 2}
  FzRecords = 2
  FzEdits = 2
  FzCalls = 3
  PlJobs <- MCPlJobs
  PlMaxJobs = 3
  PlMaxSide = 7
  PlMaxPixels = 30
SPECIFICATION PathSpec
INVARIANTS PrintsAreAsTold UploadsInOrder ImagesAreOwned
SYMMETRY PrepSymmetry
CHECK_DEADLOCK FALSE
