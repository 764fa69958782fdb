\* Sends one at a time, created before they arrive, under a limit of one.
CONSTANTS
  MessageIds = {m1, m2}
  Senders = {s1}
  Recipients = {r1}
  Nodes = {n1}
  None = None
  CallStatuses = {}
  CallChannels = {"webhook", "agent-inbox", "other"}
  CallErrors = {"DELIVERY_ERROR"}
  Lifetimes = {}
  PrefTtls = {}
  NODE_TIMEOUT = 2
  MaxTime = 5
  Handlers = {h1, h2}
  Skews <- MCBehind
  Ttls = {2}
  MAX_SKEW = 0
  Urls = {}
  ChainAnswers <- MCLimited
  CACHE_TTL = 5
  MaxChanges = 0
  MaxInFlight = 1
  MaxLatency = 1
  MaxCrashes = 0
  RegistryFails = FALSE
  StoreFails = FALSE
  CountsFail = FALSE
  WebhookFails = FALSE
  ThreatHits = FALSE
  Bystanders = FALSE
SPECIFICATION Spec
INVARIANTS
  AcceptedWithinLimit
