\* Two sends or queries, caches, a registry that may fail, a change on the chain.
CONSTANTS
  MessageIds = {m1}
  Senders = {s1}
  Recipients = {r1}
  Nodes = {n1}
  None = None
  CallStatuses = {}
  CallChannels = {"webhook", "agent-inbox", "other"}
  CallErrors = {"DELIVERY_ERROR"}
  Lifetimes = {}
  PrefTtls = {}
  NODE_TIMEOUT = 2
  MaxTime = 2
  Handlers = {h1, h2}
  Skews <- MCSkews
  Ttls = {1}
  MAX_SKEW = 0
  Urls = {"u1"}
  ChainAnswers <- MCYesNo
  CACHE_TTL = 1
  MaxChanges = 1
  MaxInFlight = 2
  MaxLatency = 1
  MaxCrashes = 0
  RegistryFails = TRUE
  StoreFails = FALSE
  CountsFail = FALSE
  WebhookFails = FALSE
  ThreatHits = TRUE
  Bystanders = TRUE
SPECIFICATION Spec
SYMMETRY MCSymmetry
INVARIANTS
  RouterTypeOK
  RefusedLeavesNoTrace
PROPERTIES
  WithdrawalsAreHonoured
  MovedWebhooksAreLeft
