------------------------------ MODULE Registry ------------------------------
(***************************************************************************)
(* The preference registry contract (contracts/src): per-owner contact     *)
(* preferences and a per-owner global blocklist, changed by transactions   *)
(* the owner signs and read by the check_permission query.                 *)
(*                                                                         *)
(* A transaction that returns an error is rolled back: it is a step that   *)
(* changes nothing, so each action carries the conditions under which the  *)
(* handler succeeds as its guard.  The clock is the block time, counted in *)
(* minutes of MinutesPerHour * HoursPerDay to the day: the only use of     *)
(* block time is the comparison with window bounds that fall on minutes.   *)
(***************************************************************************)
EXTENDS Integers, FiniteSets, Patterns

CONSTANTS
  Owners,          \* addresses that sign transactions (info.sender)
  Senders,         \* sender DIDs that ask for permission
  SenderTypes,     \* EntityType without its wildcard
  Intents,         \* Intent without its wildcard
  Channels,        \* Channel
  ANY,             \* the wildcard EntityType::Any and Intent::Any
  None,            \* Option::None
  RuleInputs,      \* rules that occur in transactions, invalid ones too
  RuleLists,       \* rule vectors that occur in Register and Update
  PatternInputs,   \* patterns that occur in BlockSender and UnblockSender
  UrlInputs,       \* webhook URLs that occur in Register and Update
  HttpsUrls,       \* those of them that start with https://
  MAX_RULES, MAX_BLOCKLIST,
  HoursPerDay, MinutesPerHour,
  MaxTime          \* bound on the block time

EntityTypes == SenderTypes \cup {ANY}
IntentTypes == Intents \cup {ANY}
RateLimits == [count : Nat, period : Nat]
TimeWindows ==
  [startHour : Nat, startMinute : Nat, endHour : Nat, endMinute : Nat]
Policies == {"Allow", "Block"}

PreferenceRules ==
  [senderType : EntityTypes, intent : IntentTypes,
   allowedChannels : Seq(Channels),
   rateLimit : RateLimits \cup {None},
   timeWindow : TimeWindows \cup {None},
   blocklist : SUBSET PatternInputs]

HumanPreferences ==
  [rules : Seq(PreferenceRules), defaultPolicy : Policies,
   webhookUrl : HttpsUrls \cup {None}]

ASSUME InputsAssumption ==
  /\ RuleInputs \subseteq PreferenceRules
  /\ \A rules \in RuleLists : rules \in Seq(RuleInputs)
  /\ HttpsUrls \subseteq UrlInputs
  /\ None \notin UrlInputs
ASSUME LimitsAssumption ==
  /\ MAX_RULES \in Nat
  /\ MAX_BLOCKLIST \in Nat
  /\ MaxTime \in Nat
ASSUME CalendarAssumption ==
  /\ HoursPerDay \in Nat \ {0}
  /\ MinutesPerHour \in Nat \ {0}
ASSUME NoneAssumption == None \notin HumanPreferences

VARIABLES
  prefs,       \* PREFERENCES: owner -> HumanPreference, None when absent
  blocklist,   \* BLOCKLIST: owner -> the patterns saved for it
  now          \* env.block.time

vars == <<prefs, blocklist, now>>

-----------------------------------------------------------------------------
(* Validation (helpers.rs validate_preference_rule, validate_webhook_url). *)

ValidRateLimit(limit) == limit # None => limit.count # 0 /\ limit.period # 0

ValidTimeWindow(window) ==
  window # None =>
    /\ window.startHour < HoursPerDay /\ window.endHour < HoursPerDay
    /\ window.startMinute < MinutesPerHour
    /\ window.endMinute < MinutesPerHour

ValidRule(rule) ==
  ValidRateLimit(rule.rateLimit) /\ ValidTimeWindow(rule.timeWindow)

ValidUrl(url) == url = None \/ url \in HttpsUrls

ValidProfile(rules, url) ==
  /\ Len(rules) <= MAX_RULES
  /\ \A i \in DOMAIN rules : ValidRule(rules[i])
  /\ ValidUrl(url)

-----------------------------------------------------------------------------
(* Rule matching (helpers.rs rule_priority, find_best_rule).               *)

(* The query itself may name the wildcard; it is then matched by wildcard  *)
(* rules only, because the exact comparisons have no arm for Any.          *)
RuleMatches(rule, type, intent) ==
  rule.senderType \in {type, ANY} /\ rule.intent \in {intent, ANY}

(* The tier of a rule that matches: 0 exact/exact, 1 exact/Any,            *)
(* 2 Any/exact, 3 Any/Any.                                                 *)
RulePriority(rule) ==
  (IF rule.senderType = ANY THEN 2 ELSE 0) + (IF rule.intent = ANY THEN 1 ELSE 0)

(* The positions of the rules that match, and the first of those in the    *)
(* best tier.                                                              *)
Matching(rules, type, intent) ==
  {i \in DOMAIN rules : RuleMatches(rules[i], type, intent)}

IsBestRule(rules, type, intent, i) ==
  /\ i \in Matching(rules, type, intent)
  /\ \A j \in Matching(rules, type, intent) :
       \/ RulePriority(rules[i]) < RulePriority(rules[j])
       \/ RulePriority(rules[i]) = RulePriority(rules[j]) /\ i <= j

FindBestRule(rules, type, intent) ==
  CHOOSE i \in DOMAIN rules : IsBestRule(rules, type, intent, i)

-----------------------------------------------------------------------------
(* Time windows (helpers.rs is_within_time_window).                        *)

MinuteOfDay(hour, minute) == hour * MinutesPerHour + minute

(* Mutated forms: the window does not wrap midnight; its end is included.  *)
IsWithinTimeWindowNoWrap(time, window) ==
  LET today == time % (HoursPerDay * MinutesPerHour)
  IN  /\ MinuteOfDay(window.startHour, window.startMinute) <= today
      /\ today < MinuteOfDay(window.endHour, window.endMinute)

IsWithinTimeWindowInclusive(time, window) ==
  LET today == time % (HoursPerDay * MinutesPerHour)
      start == MinuteOfDay(window.startHour, window.startMinute)
      end == MinuteOfDay(window.endHour, window.endMinute)
  IN  IF start <= end
      THEN start <= today /\ today <= end
      ELSE start <= today \/ today <= end

IsWithinTimeWindow(time, window) ==
  LET today == time % (HoursPerDay * MinutesPerHour)
      start == MinuteOfDay(window.startHour, window.startMinute)
      end == MinuteOfDay(window.endHour, window.endMinute)
  IN  IF start <= end
      THEN start <= today /\ today < end
      ELSE start <= today \/ today < end     \* wraps midnight

-----------------------------------------------------------------------------
(* The queries (contract.rs query, helpers.rs check_permission).           *)

Deny(reason) ==
  [allowed |-> FALSE, allowedChannels |-> <<>>, reason |-> reason,
   rateLimit |-> None]

Allow(channels, limit) ==
  [allowed |-> TRUE, allowedChannels |-> channels, reason |-> "none",
   rateLimit |-> limit]

IsGloballyBlocked(owner, sender) == IsPatternBlocked(sender, blocklist[owner])

(* What a profile says of a request at a time, once no global block stops  *)
(* it.                                                                     *)
ApplyRules(profile, sender, type, intent, time) ==
  IF Matching(profile.rules, type, intent) = {}
  THEN IF profile.defaultPolicy = "Allow"
       THEN Allow(<<>>, None)
       ELSE Deny("NO_MATCHING_RULE_DEFAULT_BLOCK")
  ELSE LET rule == profile.rules[FindBestRule(profile.rules, type, intent)]
       IN  CASE IsPatternBlocked(sender, rule.blocklist) ->
                  Deny("SENDER_RULE_BLOCKED")
             [] /\ ~IsPatternBlocked(sender, rule.blocklist)
                /\ rule.timeWindow # None
                /\ ~IsWithinTimeWindow(time, rule.timeWindow) ->
                  Deny("OUTSIDE_TIME_WINDOW")
             [] OTHER -> Allow(rule.allowedChannels, rule.rateLimit)

CheckPermissionAt(owner, sender, type, intent, time) ==
  CASE prefs[owner] = None -> Deny("RECIPIENT_NOT_FOUND")
    [] prefs[owner] # None /\ IsGloballyBlocked(owner, sender) ->
         Deny("SENDER_GLOBALLY_BLOCKED")
    [] OTHER -> ApplyRules(prefs[owner], sender, type, intent, time)

CheckPermission(owner, sender, type, intent) ==
  CheckPermissionAt(owner, sender, type, intent, now)

(* Mutated form: only the global blocklist is looked at.                   *)
QueryIsBlockedGlobally(owner, sender) == IsGloballyBlocked(owner, sender)

QueryIsBlocked(owner, sender) ==
  \/ IsGloballyBlocked(owner, sender)
  \/ /\ prefs[owner] # None
     /\ \E i \in DOMAIN prefs[owner].rules :
          IsPatternBlocked(sender, prefs[owner].rules[i].blocklist)

-----------------------------------------------------------------------------
Init ==
  /\ prefs = [o \in Owners |-> None]
  /\ blocklist = [o \in Owners |-> {}]
  /\ now = 0

Save(owner, profile) == prefs' = [prefs EXCEPT ![owner] = profile]

Profile(rules, policy, url) ==
  [rules |-> rules, defaultPolicy |-> policy, webhookUrl |-> url]

(* Mutated form: an existing profile is replaced.                          *)
RegisterOver(owner, rules, policy, url) ==
  /\ ValidProfile(rules, url)
  /\ Save(owner, Profile(rules, policy, url))
  /\ UNCHANGED <<blocklist, now>>

RegisterPreferences(owner, rules, policy, url) ==
  /\ prefs[owner] = None
  /\ ValidProfile(rules, url)
  /\ Save(owner, Profile(rules, policy, url))
  /\ UNCHANGED <<blocklist, now>>

UpdatePreferences(owner, rules, policy, url) ==
  /\ prefs[owner] # None
  /\ ValidProfile(rules, url)
  /\ Save(owner, Profile(rules, policy, url))
  /\ UNCHANGED <<blocklist, now>>

(* Mutated forms: one rule too many; the new rule comes first.             *)
AddRuleOffByOne(owner, rule) ==
  /\ prefs[owner] # None
  /\ Len(prefs[owner].rules) <= MAX_RULES
  /\ ValidRule(rule)
  /\ Save(owner, [prefs[owner] EXCEPT !.rules = Append(@, rule)])
  /\ UNCHANGED <<blocklist, now>>

AddRuleInFront(owner, rule) ==
  /\ prefs[owner] # None
  /\ Len(prefs[owner].rules) < MAX_RULES
  /\ ValidRule(rule)
  /\ Save(owner, [prefs[owner] EXCEPT !.rules = <<rule>> \o @])
  /\ UNCHANGED <<blocklist, now>>

AddRule(owner, rule) ==
  /\ prefs[owner] # None
  /\ Len(prefs[owner].rules) < MAX_RULES
  /\ ValidRule(rule)
  /\ Save(owner, [prefs[owner] EXCEPT !.rules = Append(@, rule)])
  /\ UNCHANGED <<blocklist, now>>

(* Mutated form: the last rule takes the place of the removed one.         *)
RemoveRuleSwapping(owner, index) ==
  /\ prefs[owner] # None
  /\ index < Len(prefs[owner].rules)
  /\ Save(owner, [prefs[owner] EXCEPT
                    !.rules = Front([@ EXCEPT ![index + 1] = Last(prefs[owner].rules)])])
  /\ UNCHANGED <<blocklist, now>>

(* `index' counts from 0, as in the message.                               *)
RemoveRule(owner, index) ==
  /\ prefs[owner] # None
  /\ index < Len(prefs[owner].rules)
  /\ Save(owner, [prefs[owner] EXCEPT !.rules = RemoveAt(@, index + 1)])
  /\ UNCHANGED <<blocklist, now>>

(* The size is tested before it is known whether the pattern is new, and   *)
(* no profile is needed.                                                   *)
BlockSender(owner, pattern) ==
  /\ pattern # <<>>
  /\ Cardinality(blocklist[owner]) < MAX_BLOCKLIST
  /\ blocklist' = [blocklist EXCEPT ![owner] = @ \cup {pattern}]
  /\ UNCHANGED <<prefs, now>>

UnblockSender(owner, pattern) ==
  /\ pattern # <<>>
  /\ blocklist' = [blocklist EXCEPT ![owner] = @ \ {pattern}]
  /\ UNCHANGED <<prefs, now>>

(* Mutated form: the blocklist goes with the profile.                      *)
DeletePreferencesAndBlocklist(owner) ==
  /\ prefs[owner] # None
  /\ Save(owner, None)
  /\ blocklist' = [blocklist EXCEPT ![owner] = {}]
  /\ UNCHANGED now

(* Removes the profile only: the blocklist outlives it.                    *)
DeletePreferences(owner) ==
  /\ prefs[owner] # None
  /\ Save(owner, None)
  /\ UNCHANGED <<blocklist, now>>

(* The next block is one minute later (bound: MaxTime).                    *)
NextBlock ==
  /\ now < MaxTime
  /\ now' = now + 1
  /\ UNCHANGED <<prefs, blocklist>>

Execute(owner) ==
  \/ \E rules \in RuleLists, policy \in Policies, url \in UrlInputs \cup {None} :
       \/ RegisterPreferences(owner, rules, policy, url)
       \/ UpdatePreferences(owner, rules, policy, url)
  \/ \E rule \in RuleInputs : AddRule(owner, rule)
  \/ \E index \in 0..MAX_RULES : RemoveRule(owner, index)
  \/ \E pattern \in PatternInputs :
       BlockSender(owner, pattern) \/ UnblockSender(owner, pattern)
  \/ DeletePreferences(owner)

Next == (\E owner \in Owners : Execute(owner)) \/ NextBlock

Spec == Init /\ [][Next]_vars
=============================================================================
