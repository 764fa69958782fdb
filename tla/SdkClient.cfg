\* One send and one wait, every outcome of the router, every status history.
CONSTANTS
  MessageIds = {m1}
  Senders = {}
  Recipients <- MCRecipients
  Nodes = {n1}
  None = None
  NaN = NaN
  CallStatuses = {}
  CallChannels = {}
  CallErrors = {}
  Lifetimes = {}
  PrefTtls = {}
  NODE_TIMEOUT = 0
  MaxTime = 7
  EntityCodes = {"AA"}
  IntentClasses = {"inform"}
  MAX_TTL = 3
  MAX_SKEW = 1
  SendParams <- MCSendParams
  Keys = {"key", "other key"}
  Skews <- MCSkews
  Timeouts = {1, 5}
  ACK_POLL_INTERVAL = 3
  MaxLatency = 1
SPECIFICATION Spec
INVARIANTS
  WaitEndsInTime
  TimeoutsAreTrue
  SentIsKnown
  EnvelopesTravel
CHECK_DEADLOCK FALSE
