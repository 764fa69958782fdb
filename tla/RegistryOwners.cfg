\* Two owners, every handler, the clock: limits and the consent record.
CONSTANTS
  Owners = {o1, o2}
  Senders <- MCSenders
  SenderTypes = {"AA"}
  Intents = {"Inform"}
  Channels = {"Push"}
  ANY = "Any"
  None = None
  RuleInputs <- MCOwnersRules
  RuleLists <- MCOwnersLists
  PatternInputs <- MCPatterns
  UrlInputs = {"http://owner"}
  HttpsUrls = {}
  MAX_RULES = 2
  MAX_BLOCKLIST = 1
  HoursPerDay = 2
  MinutesPerHour = 2
  MaxTime = 1
SYMMETRY MCOwnersAlike
SPECIFICATION Spec
INVARIANTS
  WithinLimits
  QueriesAgree
PROPERTY
  ConsentKept
