\* Three sessions compete for one slot, two commits race, and the removal
\* of one session's directory fails.
CONSTANTS
  Sessions = {s1, s2, s3}
  Handlers = {h1, h2}
  MaxSessions = 1
  TTL = 2
  MaxPages = 2
  Sizes = {1, 2}
  MaxBytes = 3
  Stuck = {s2}
  Null = Null
SPECIFICATION FairSpec
PROPERTIES SessionsEnd
CHECK_DEADLOCK FALSE
INVARIANTS LeaseReadable PrintedWhole DiskAccounted
