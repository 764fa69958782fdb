\* One owner, rules of every tier: which rule decides.
CONSTANTS
  Owners = {o1}
  Senders <- MCSenders
  SenderTypes = {"AA", "CA"}
  Intents = {"Inform", "Collect"}
  Channels = {"Push"}
  ANY = "Any"
  None = None
  RuleInputs <- MCTierRules
  RuleLists <- MCNoLists
  PatternInputs <- MCAllPatterns
  UrlInputs = {"https://owner", "http://owner"}
  HttpsUrls = {"https://owner"}
  MAX_RULES = 3
  MAX_BLOCKLIST = 1
  HoursPerDay = 2
  MinutesPerHour = 2
  MaxTime = 0
SPECIFICATION Spec
INVARIANT
  LoopFindsBestRule
PROPERTIES
  AppendedRuleYields
  RemovalIsLocal
