\* One owner, one rule with any window, two days of the clock.
CONSTANTS
  Owners = {o1}
  Senders <- MCSenders
  SenderTypes = {"AA"}
  Intents = {"Inform"}
  Channels = {"Push"}
  ANY = "Any"
  None = None
  RuleInputs <- MCWindowRules
  RuleLists <- MCNoLists
  PatternInputs <- MCNoPatterns
  UrlInputs = {"https://owner", "http://owner"}
  HttpsUrls = {"https://owner"}
  MAX_RULES = 1
  MAX_BLOCKLIST = 0
  HoursPerDay = 4
  MinutesPerHour = 3
  MaxTime = 24
SPECIFICATION Spec
INVARIANT
  WindowsOpenForTheirLength
PROPERTY
  AnswersChangeAtBounds
