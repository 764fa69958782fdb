\* A send and its retry, failing services, late calls, a crash, the sweep.
CONSTANTS
  MessageIds = {m1}
  Senders = {s1}
  Recipients = {r1}
  Nodes = {n1}
  None = None
  CallStatuses = {}
  CallChannels = {"webhook", "agent-inbox", "other"}
  CallErrors = {"DELIVERY_ERROR"}
  Lifetimes = {}
  PrefTtls = {}
  NODE_TIMEOUT = 2
  MaxTime = 2
  Handlers = {h1, h2}
  Skews = {0}
  Ttls = {1}
  MAX_SKEW = 0
  Urls = {"u1"}
  ChainAnswers <- MCThreeChannels
  CACHE_TTL = 1
  MaxChanges = 0
  MaxInFlight = 2
  MaxLatency = 1
  MaxCrashes = 1
  RegistryFails = FALSE
  StoreFails = TRUE
  CountsFail = FALSE
  WebhookFails = TRUE
  ThreatHits = FALSE
  Bystanders = FALSE
SPECIFICATION FairSpec
INVARIANTS
  DeliveredMeansReached
PROPERTIES
  EveryRequestIsAnswered
  EveryMessageIsSettled
  DeliveryKept
