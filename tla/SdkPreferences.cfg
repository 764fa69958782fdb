\* Three calls of one person's apps over the contract, and a relay that may
\* refuse, lose the answer, or apply a write late.
CONSTANTS
  Owners = {o1}
  Senders <- MCSenders
  SenderTypes = {"AA"}
  Intents = {"Inform"}
  Channels = {"Push"}
  ANY = "Any"
  None = None
  RuleInputs <- MCRules
  RuleLists <- MCRuleLists
  PatternInputs <- MCPatternInputs
  UrlInputs = {"https://owner"}
  HttpsUrls = {"https://owner"}
  MAX_RULES = 3
  MAX_BLOCKLIST = 2
  HoursPerDay = 1
  MinutesPerHour = 1
  MaxTime = 0
  Calls = {c1, c2, c3}
  Me = o1
  Registrations <- MCRegistrations
  Patches <- MCPatches
  TypedPatterns <- MCPatternInputs
  MaxElsewhere = 1
SPECIFICATION PreferencesSpec
SYMMETRY MCCalls
INVARIANT
  AcknowledgedBlocksHold
PROPERTIES
  OmittedFieldsSurvive
  RemovalHitsWhatWasSeen
  RulesLeaveOnPurpose
CHECK_DEADLOCK FALSE
