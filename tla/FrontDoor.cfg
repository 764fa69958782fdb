\* Four requests of one client, a listing that comes and goes, a restart.
CONSTANTS
  Requests = {q1, q2, q3, q4}
  Addresses = {a1}
  Dids = {d1}
  None = None
  WINDOW = 1
  MAX_REQUESTS = 2
  CLEAN_TTL = 2
  BLOCKED_TTL = 1
  TIMEOUT = 1
  MaxListings = 2
  MaxRestarts = 1
  MaxTime = 4
SPECIFICATION Spec
SYMMETRY MCRequests
INVARIANTS
  WindowWithinMax
  SpanWithinTwiceMax
PROPERTY
  FeedChangesAreSeen
CHECK_DEADLOCK FALSE
