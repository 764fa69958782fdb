\* Three sends, two at a time, under a limit of one, clocks that differ.
CONSTANTS
  MessageIds = {m1, m2, m3}
  Senders = {s1}
  Recipients = {r1}
  Nodes = {n1}
  None = None
  CallStatuses = {}
  CallChannels = {"webhook", "agent-inbox", "other"}
  CallErrors = {"DELIVERY_ERROR"}
  Lifetimes = {}
  PrefTtls = {}
  NODE_TIMEOUT = 2
  MaxTime = 3
  Handlers = {h1, h2, h3}
  Skews <- MCBehindOrNot
  Ttls = {2}
  MAX_SKEW = 0
  Urls = {}
  ChainAnswers <- MCLimitedUnreachable
  CACHE_TTL = 4
  MaxChanges = 0
  MaxInFlight = 2
  MaxLatency = 0
  MaxCrashes = 0
  RegistryFails = FALSE
  StoreFails = FALSE
  CountsFail = TRUE
  WebhookFails = FALSE
  ThreatHits = FALSE
  Bystanders = FALSE
SPECIFICATION Spec
SYMMETRY MCSymmetry
INVARIANTS
  OvershootIsBounded
