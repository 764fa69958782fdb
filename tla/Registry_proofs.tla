--------------------------- MODULE Registry_proofs ---------------------------
(***************************************************************************)
(* Proofs about the registry contract, for every set of owners, senders,   *)
(* rules and patterns, every limit and every calendar: what its storage    *)
(* holds, that it keeps the consent record, and what it answers (which     *)
(* rule decides, what adding and removing a rule can change, and when      *)
(* windows open).                                                          *)
(***************************************************************************)
EXTENDS RegistryProperties, FiniteSetTheorems, SequenceTheorems, WellFoundedInduction,
        TLAPS

(* A vector of rules that occurs in a message is a vector of rules.        *)
LEMMA RuleListsTyped == \A rules \in RuleLists : rules \in Seq(PreferenceRules)
  <1> SUFFICES ASSUME NEW rules \in RuleLists PROVE rules \in Seq(PreferenceRules)
    OBVIOUS
  <1>1. rules \in Seq(RuleInputs) /\ RuleInputs \subseteq PreferenceRules
    BY InputsAssumption
  <1> QED BY <1>1

(* Removing an element leaves a sequence, one shorter, whose elements are  *)
(* elements of the old one: those before it stay, those after it move up.  *)
LEMMA RemoveAtElements ==
  ASSUME NEW S, NEW s \in Seq(S), NEW i \in 1..Len(s)
  PROVE  /\ RemoveAt(s, i) \in Seq(S)
         /\ Len(RemoveAt(s, i)) = Len(s) - 1
         /\ \A j \in 1..(Len(s) - 1) :
              RemoveAt(s, i)[j] = IF j < i THEN s[j] ELSE s[j + 1]
  <1> DEFINE front == SubSeq(s, 1, i - 1)
             back == SubSeq(s, i + 1, Len(s))
  <1>1. /\ front \in Seq(S) /\ Len(front) = i - 1
        /\ \A j \in 1..(i - 1) : front[j] = s[j]
    BY SubSeqProperties, LenProperties
  <1>2. /\ back \in Seq(S) /\ Len(back) = Len(s) - i
        /\ \A j \in 1..(Len(s) - i) : back[j] = s[i + j]
    <2>1. PICK m \in Int, n \in Int : m = i + 1 /\ n = Len(s) /\ m <= n + 1
      BY LenProperties
    <2>2. \A j \in m..n : s[j] \in S
      BY <2>1, LenProperties
    <2>3. /\ SubSeq(s, m, n) \in Seq(S)
          /\ Len(SubSeq(s, m, n)) = IF m <= n THEN n - m + 1 ELSE 0
          /\ \A j \in 1..(n - m + 1) : SubSeq(s, m, n)[j] = s[m + j - 1]
      BY <2>2, SubSeqProperties
    <2>4. Len(SubSeq(s, m, n)) = n - m + 1
      BY <2>1, <2>3
    <2>5. ASSUME NEW j \in 1..(n - m + 1) PROVE m + j - 1 = i + j
      BY <2>1
    <2>6. n - m + 1 = Len(s) - i /\ back = SubSeq(s, m, n)
      BY <2>1
    <2> HIDE DEF back
    <2> QED BY <2>3, <2>4, <2>5, <2>6
  <1> HIDE DEF front, back
  <1>3. /\ front \o back \in Seq(S)
        /\ Len(front \o back) = Len(s) - 1
        /\ \A j \in 1..(Len(s) - 1) :
             (front \o back)[j] = IF j <= i - 1 THEN front[j] ELSE back[j - (i - 1)]
    <2>1. /\ front \o back \in Seq(S)
          /\ Len(front \o back) = Len(front) + Len(back)
          /\ \A j \in 1..(Len(front) + Len(back)) :
               (front \o back)[j] =
                 IF j <= Len(front) THEN front[j] ELSE back[j - Len(front)]
      BY <1>1, <1>2, ConcatProperties
    <2>2. Len(front) = i - 1 /\ Len(front) + Len(back) = Len(s) - 1
      BY <1>1, <1>2, LenProperties
    <2> QED BY <2>1, <2>2
  <1>4. ASSUME NEW j \in 1..(Len(s) - 1)
        PROVE  (front \o back)[j] = IF j < i THEN s[j] ELSE s[j + 1]
    <2>1. CASE j < i
      BY <1>1, <1>3, <2>1, LenProperties
    <2>2. CASE ~(j < i)
      <3>1. (front \o back)[j] = back[j - (i - 1)]
        BY <1>3, <2>2
      <3>2. /\ j - (i - 1) \in 1..(Len(s) - i)
            /\ i + (j - (i - 1)) = j + 1
            /\ j + 1 \in 1..Len(s)
        BY <2>2, LenProperties
      <3>3. back[j - (i - 1)] = s[j + 1]
        BY <1>2, <3>2
      <3> QED BY <2>2, <3>1, <3>2, <3>3
    <2> QED BY <2>1, <2>2
  <1>5. RemoveAt(s, i) = front \o back
    BY DEF RemoveAt, front, back
  <1> QED BY <1>3, <1>4, <1>5

(* In particular its elements are elements of the old one.                 *)
LEMMA RemoveAtTyped ==
  ASSUME NEW S, NEW s \in Seq(S), NEW i \in 1..Len(s)
  PROVE  /\ RemoveAt(s, i) \in Seq(S)
         /\ Len(RemoveAt(s, i)) = Len(s) - 1
         /\ \A j \in DOMAIN RemoveAt(s, i) : \E k \in DOMAIN s : RemoveAt(s, i)[j] = s[k]
  <1> DEFINE new == RemoveAt(s, i)
  <1>1. /\ new \in Seq(S) /\ Len(new) = Len(s) - 1
        /\ \A j \in 1..(Len(s) - 1) : new[j] = IF j < i THEN s[j] ELSE s[j + 1]
    BY RemoveAtElements
  <1> HIDE DEF new
  <1>2. DOMAIN s = 1..Len(s) /\ DOMAIN new = 1..(Len(s) - 1)
    BY <1>1, LenProperties
  <1>3. ASSUME NEW j \in 1..(Len(s) - 1) PROVE \E k \in 1..Len(s) : new[j] = s[k]
    <2>1. j \in 1..Len(s) /\ j + 1 \in 1..Len(s)
      BY LenProperties
    <2> QED BY <1>1, <2>1
  <1> QED BY <1>1, <1>2, <1>3 DEF new

(* The type invariant holds initially.                                     *)
LEMMA InitTyped == Init => TypeOK
  BY LimitsAssumption DEF Init, TypeOK

(* A profile that passes validation is a profile the storage can hold.     *)
LEMMA ProfileTyped ==
  ASSUME NEW rules \in RuleLists, NEW policy \in Policies,
         NEW url \in UrlInputs \cup {None}, ValidProfile(rules, url)
  PROVE  Profile(rules, policy, url) \in HumanPreferences
  <1>1. rules \in Seq(PreferenceRules)
    BY RuleListsTyped
  <1>2. url \in HttpsUrls \cup {None}
    BY DEF ValidProfile, ValidUrl
  <1> QED BY <1>1, <1>2 DEF Profile, HumanPreferences

(* Replacing the rules of a profile gives a profile.                       *)
LEMMA RulesReplaced ==
  ASSUME NEW p \in HumanPreferences, NEW rules \in Seq(PreferenceRules)
  PROVE  [p EXCEPT !.rules = rules] \in HumanPreferences
  BY DEF HumanPreferences

(* Every step keeps the type invariant.                                    *)
LEMMA NextTyped == TypeOK /\ [Next]_vars => TypeOK'
  <1> SUFFICES ASSUME TypeOK, [Next]_vars PROVE TypeOK'
    OBVIOUS
  <1> USE DEF TypeOK
  <1>1. ASSUME NEW owner \in Owners, NEW rules \in RuleLists, NEW policy \in Policies,
               NEW url \in UrlInputs \cup {None},
               \/ RegisterPreferences(owner, rules, policy, url)
               \/ UpdatePreferences(owner, rules, policy, url)
        PROVE  TypeOK'
    BY <1>1, ProfileTyped DEF RegisterPreferences, UpdatePreferences, Save
  <1>2. ASSUME NEW owner \in Owners, NEW rule \in RuleInputs, AddRule(owner, rule)
        PROVE  TypeOK'
    <2>1. prefs[owner] \in HumanPreferences
      BY <1>2 DEF AddRule
    <2>2. rule \in PreferenceRules
      BY InputsAssumption
    <2>3. [prefs[owner] EXCEPT !.rules = Append(@, rule)] \in HumanPreferences
      <3>1. prefs[owner].rules \in Seq(PreferenceRules)
        BY <2>1 DEF HumanPreferences
      <3>2. Append(prefs[owner].rules, rule) \in Seq(PreferenceRules)
        BY <2>2, <3>1
      <3> QED BY <2>1, <3>2, RulesReplaced
    <2> QED BY <1>2, <2>3 DEF AddRule, Save
  <1>3. ASSUME NEW owner \in Owners, NEW index \in 0..MAX_RULES, RemoveRule(owner, index)
        PROVE  TypeOK'
    <2>1. prefs[owner] \in HumanPreferences
      BY <1>3 DEF RemoveRule
    <2>2. prefs[owner].rules \in Seq(PreferenceRules)
      BY <2>1 DEF HumanPreferences
    <2>3. index + 1 \in 1..Len(prefs[owner].rules)
      BY <1>3, <2>2, LimitsAssumption DEF RemoveRule
    <2>4. RemoveAt(prefs[owner].rules, index + 1) \in Seq(PreferenceRules)
      BY <2>2, <2>3, RemoveAtTyped
    <2>5. [prefs[owner] EXCEPT !.rules = RemoveAt(@, index + 1)] \in HumanPreferences
      BY <2>1, <2>4, RulesReplaced
    <2> QED BY <1>3, <2>5 DEF RemoveRule, Save
  <1>4. ASSUME NEW owner \in Owners, NEW pattern \in PatternInputs,
               BlockSender(owner, pattern) \/ UnblockSender(owner, pattern)
        PROVE  TypeOK'
    BY <1>4 DEF BlockSender, UnblockSender
  <1>5. ASSUME NEW owner \in Owners, DeletePreferences(owner)
        PROVE  TypeOK'
    BY <1>5 DEF DeletePreferences, Save
  <1>6. CASE NextBlock
    BY <1>6, LimitsAssumption DEF NextBlock
  <1>7. CASE UNCHANGED vars
    BY <1>7 DEF vars
  <1> QED BY <1>1, <1>2, <1>3, <1>4, <1>5, <1>6, <1>7 DEF Next, Execute

(* Whatever the messages, storage holds profiles and patterns of the       *)
(* declared types only.                                                    *)
THEOREM TypeCorrect == Spec => []TypeOK
  BY InitTyped, NextTyped, PTL DEF Spec

-----------------------------------------------------------------------------
(* Limits.  WithinLimits is inductive once the blocklists are known to be  *)
(* finite, which is what makes their cardinality mean anything.            *)

UsableProfile(profile) ==
  /\ Len(profile.rules) <= MAX_RULES
  /\ \A i \in DOMAIN profile.rules : UsableRule(profile.rules[i])

LimitsInv ==
  /\ TypeOK
  /\ \A o \in Owners : prefs[o] # None => UsableProfile(prefs[o])
  /\ \A o \in Owners : IsFiniteSet(blocklist[o])
                     /\ Cardinality(blocklist[o]) <= MAX_BLOCKLIST

(* A rule the validator accepts is usable.                                 *)
LEMMA ValidRuleUsable ==
  ASSUME NEW rule \in PreferenceRules, ValidRule(rule)
  PROVE  UsableRule(rule)
  <1>1. rule.rateLimit # None => rule.rateLimit.count > 0 /\ rule.rateLimit.period > 0
    BY DEF PreferenceRules, RateLimits, ValidRule, ValidRateLimit
  <1>2. rule.timeWindow # None =>
          /\ rule.timeWindow.startHour < HoursPerDay
          /\ rule.timeWindow.startMinute < MinutesPerHour
          /\ rule.timeWindow.endHour < HoursPerDay
          /\ rule.timeWindow.endMinute < MinutesPerHour
    BY DEF ValidRule, ValidTimeWindow
  <1> QED BY <1>1, <1>2 DEF UsableRule

(* A vector of rules the handlers accept makes a usable profile.           *)
LEMMA ValidProfileUsable ==
  ASSUME NEW rules \in RuleLists, NEW policy, NEW url, ValidProfile(rules, url)
  PROVE  UsableProfile(Profile(rules, policy, url))
  <1>1. rules \in Seq(PreferenceRules)
    BY RuleListsTyped
  <1>2. ASSUME NEW i \in DOMAIN rules PROVE UsableRule(rules[i])
    <2>1. rules[i] \in PreferenceRules
      BY <1>1
    <2>2. ValidRule(rules[i])
      BY DEF ValidProfile
    <2> QED BY <2>1, <2>2, ValidRuleUsable
  <1>3. Profile(rules, policy, url).rules = rules
    BY DEF Profile
  <1> QED BY <1>2, <1>3 DEF UsableProfile, ValidProfile

(* Changing the profile of one owner to a usable one keeps the invariant.  *)
LEMMA SaveKeepsLimits ==
  ASSUME LimitsInv, TypeOK', NEW owner \in Owners, NEW p, Save(owner, p),
         p = None \/ UsableProfile(p), UNCHANGED blocklist
  PROVE  LimitsInv'
  BY DEF LimitsInv, TypeOK, Save, UsableProfile

(* Every step keeps the limits.                                            *)
LEMMA NextLimits == LimitsInv /\ [Next]_vars => LimitsInv'
  <1> SUFFICES ASSUME LimitsInv, [Next]_vars PROVE LimitsInv'
    OBVIOUS
  <1>0. TypeOK /\ TypeOK'
    BY NextTyped DEF LimitsInv
  <1>1. ASSUME NEW owner \in Owners, NEW rules \in RuleLists, NEW policy \in Policies,
               NEW url \in UrlInputs \cup {None},
               \/ RegisterPreferences(owner, rules, policy, url)
               \/ UpdatePreferences(owner, rules, policy, url)
        PROVE  LimitsInv'
    <2>1. /\ ValidProfile(rules, url)
          /\ Save(owner, Profile(rules, policy, url))
          /\ UNCHANGED blocklist
      BY <1>1 DEF RegisterPreferences, UpdatePreferences
    <2> QED BY <1>0, <2>1, ValidProfileUsable, SaveKeepsLimits
  <1>2. ASSUME NEW owner \in Owners, NEW rule \in RuleInputs, AddRule(owner, rule)
        PROVE  LimitsInv'
    <2> DEFINE old == prefs[owner].rules
               new == [prefs[owner] EXCEPT !.rules = Append(@, rule)]
    <2>1. prefs[owner] \in HumanPreferences /\ old \in Seq(PreferenceRules)
      BY <1>0, <1>2 DEF AddRule, TypeOK, HumanPreferences
    <2>2. new.rules = Append(old, rule)
      BY <2>1 DEF HumanPreferences
    <2>3. Len(old) < MAX_RULES /\ \A i \in DOMAIN old : UsableRule(old[i])
      BY <1>2 DEF AddRule, LimitsInv, UsableProfile
    <2>4. UsableRule(rule)
      BY <1>2, InputsAssumption, ValidRuleUsable DEF AddRule
    <2>5. /\ Len(Append(old, rule)) <= MAX_RULES
          /\ \A i \in DOMAIN Append(old, rule) : UsableRule(Append(old, rule)[i])
      <3>1. rule \in PreferenceRules
        BY InputsAssumption
      <3>2. /\ Len(Append(old, rule)) = Len(old) + 1
            /\ DOMAIN Append(old, rule) = 1..(Len(old) + 1)
            /\ DOMAIN old = 1..Len(old)
        BY <2>1, <3>1
      <3>3. Len(Append(old, rule)) <= MAX_RULES
        BY <2>1, <2>3, <3>2, LimitsAssumption
      <3>4. ASSUME NEW i \in 1..(Len(old) + 1) PROVE UsableRule(Append(old, rule)[i])
        <4>1. CASE i = Len(old) + 1
          BY <2>1, <2>4, <3>1, <4>1
        <4>2. CASE i \in 1..Len(old)
          BY <2>1, <2>3, <3>1, <3>2, <4>2
        <4> QED BY <2>1, <4>1, <4>2
      <3> QED BY <3>2, <3>3, <3>4
    <2>6. UsableProfile(new)
      BY <2>2, <2>5 DEF UsableProfile
    <2> QED BY <1>0, <1>2, <2>6, SaveKeepsLimits DEF AddRule
  <1>3. ASSUME NEW owner \in Owners, NEW index \in 0..MAX_RULES, RemoveRule(owner, index)
        PROVE  LimitsInv'
    <2> DEFINE old == prefs[owner].rules
               new == [prefs[owner] EXCEPT !.rules = RemoveAt(@, index + 1)]
    <2>1. prefs[owner] \in HumanPreferences /\ old \in Seq(PreferenceRules)
      BY <1>0, <1>3 DEF RemoveRule, TypeOK, HumanPreferences
    <2>2. index + 1 \in 1..Len(old)
      BY <1>3, <2>1, LimitsAssumption DEF RemoveRule
    <2>3. new.rules = RemoveAt(old, index + 1)
      BY <2>1 DEF HumanPreferences
    <2>4. Len(old) <= MAX_RULES /\ \A i \in DOMAIN old : UsableRule(old[i])
      BY <1>3 DEF RemoveRule, LimitsInv, UsableProfile
    <2>5. /\ Len(new.rules) = Len(old) - 1
          /\ \A j \in DOMAIN new.rules : \E k \in DOMAIN old : new.rules[j] = old[k]
      BY <2>1, <2>2, <2>3, RemoveAtTyped
    <2> HIDE DEF new, old
    <2>6. Len(new.rules) <= MAX_RULES
      BY <2>1, <2>4, <2>5, LimitsAssumption
    <2>7. UsableProfile(new)
      BY <2>4, <2>5, <2>6 DEF UsableProfile
    <2> USE DEF new
    <2> QED BY <1>0, <1>3, <2>7, SaveKeepsLimits DEF RemoveRule
  <1>4. ASSUME NEW owner \in Owners, NEW pattern \in PatternInputs,
               BlockSender(owner, pattern)
        PROVE  LimitsInv'
    <2>1. /\ IsFiniteSet(blocklist[owner])
          /\ Cardinality(blocklist[owner]) < MAX_BLOCKLIST
      BY <1>4 DEF BlockSender, LimitsInv
    <2>2. /\ IsFiniteSet(blocklist[owner] \cup {pattern})
          /\ Cardinality(blocklist[owner] \cup {pattern}) <= MAX_BLOCKLIST
      <3>1. Cardinality(blocklist[owner]) \in Nat
        BY <2>1, FS_CardinalityType
      <3>2. /\ IsFiniteSet(blocklist[owner] \cup {pattern})
            /\ \/ Cardinality(blocklist[owner] \cup {pattern})
                   = Cardinality(blocklist[owner])
               \/ Cardinality(blocklist[owner] \cup {pattern})
                   = Cardinality(blocklist[owner]) + 1
        BY <2>1, FS_AddElement
      <3> QED BY <2>1, <3>1, <3>2, LimitsAssumption
    <2>3. /\ blocklist' = [blocklist EXCEPT ![owner] = @ \cup {pattern}]
          /\ UNCHANGED prefs
      BY <1>4 DEF BlockSender
    <2> QED BY <1>0, <2>2, <2>3 DEF LimitsInv, TypeOK, UsableProfile
  <1>5. ASSUME NEW owner \in Owners, NEW pattern \in PatternInputs,
               UnblockSender(owner, pattern)
        PROVE  LimitsInv'
    <2>1. /\ IsFiniteSet(blocklist[owner])
          /\ Cardinality(blocklist[owner]) <= MAX_BLOCKLIST
      BY DEF LimitsInv
    <2>2. /\ IsFiniteSet(blocklist[owner] \ {pattern})
          /\ Cardinality(blocklist[owner] \ {pattern}) <= Cardinality(blocklist[owner])
      BY <2>1, FS_Subset
    <2>3. /\ Cardinality(blocklist[owner]) \in Nat
          /\ Cardinality(blocklist[owner] \ {pattern}) \in Nat
      BY <2>1, <2>2, FS_CardinalityType
    <2>4. Cardinality(blocklist[owner] \ {pattern}) <= MAX_BLOCKLIST
      BY <2>1, <2>2, <2>3, LimitsAssumption
    <2>5. /\ blocklist' = [blocklist EXCEPT ![owner] = @ \ {pattern}]
          /\ UNCHANGED prefs
      BY <1>5 DEF UnblockSender
    <2> QED BY <1>0, <2>2, <2>4, <2>5 DEF LimitsInv, TypeOK, UsableProfile
  <1>6. ASSUME NEW owner \in Owners, DeletePreferences(owner)
        PROVE  LimitsInv'
    BY <1>0, <1>6, SaveKeepsLimits DEF DeletePreferences
  <1>7. CASE NextBlock \/ UNCHANGED vars
    BY <1>0, <1>7 DEF NextBlock, vars, LimitsInv, UsableProfile
  <1> QED BY <1>1, <1>2, <1>3, <1>4, <1>5, <1>6, <1>7 DEF Next, Execute

(* Nothing is stored at first.                                             *)
LEMMA InitLimits == Init => LimitsInv
  BY InitTyped, FS_EmptySet, LimitsAssumption DEF Init, LimitsInv

(* No sequence of messages stores more than MAX_RULES rules or             *)
(* MAX_BLOCKLIST patterns for an owner, or a rule with a zero rate limit   *)
(* or a window bound outside the day.                                      *)
THEOREM LimitsKept == Spec => []WithinLimits
  <1>1. LimitsInv => WithinLimits
    BY DEF LimitsInv, WithinLimits, UsableProfile
  <1> QED BY <1>1, InitLimits, NextLimits, PTL DEF Spec

-----------------------------------------------------------------------------
(* The registry implements Consent.  A grant is the conjunction of three   *)
(* facts with one owner's data in each: the profile is there, no global    *)
(* pattern matches the sender, and the rules say yes at the time.          *)

RulesAllow(o, r, t) ==
  ApplyRules(prefs[o], r.sender, r.kind[1], r.kind[2], t).allowed

AnswerAt(o, r, t) == CheckPermissionAt(o, r.sender, r.kind[1], r.kind[2], t)

(* The three parts of a grant, in a state and in the next.                 *)
LEMMA GrantMeans ==
  ASSUME NEW o \in Owners, NEW r \in Requests, NEW t \in 0..MaxTime
  PROVE  /\ r \in Granted[o][t] <=>
               prefs[o] # None /\ r.sender \notin Barred[o] /\ RulesAllow(o, r, t)
         /\ r \in Granted'[o][t] <=>
               prefs'[o] # None /\ r.sender \notin Barred'[o] /\ RulesAllow(o, r, t)'
  <1>1. r.sender \in Senders
    BY DEF Requests
  <1>2. /\ r.sender \in Barred[o] <=> IsGloballyBlocked(o, r.sender)
        /\ r.sender \in Barred'[o] <=> IsGloballyBlocked(o, r.sender)'
    BY <1>1 DEF Barred
  <1>3. r \in Granted[o][t] <=> AnswerAt(o, r, t).allowed
    BY DEF Granted, GrantedAt, AnswerAt
  <1>4. r \in Granted'[o][t] <=> AnswerAt(o, r, t)'.allowed
    BY DEF Granted, GrantedAt, AnswerAt
  <1>5. AnswerAt(o, r, t).allowed <=>
          prefs[o] # None /\ ~IsGloballyBlocked(o, r.sender) /\ RulesAllow(o, r, t)
    <2>1. CASE prefs[o] = None
      BY <2>1 DEF AnswerAt, CheckPermissionAt, Deny
    <2>2. CASE prefs[o] # None /\ IsGloballyBlocked(o, r.sender)
      BY <2>2 DEF AnswerAt, CheckPermissionAt, Deny
    <2>3. CASE prefs[o] # None /\ ~IsGloballyBlocked(o, r.sender)
      BY <2>3 DEF AnswerAt, CheckPermissionAt, RulesAllow
    <2> QED BY <2>1, <2>2, <2>3
  <1>6. AnswerAt(o, r, t)'.allowed <=>
          prefs'[o] # None /\ ~IsGloballyBlocked(o, r.sender)' /\ RulesAllow(o, r, t)'
    <2>1. CASE prefs'[o] = None
      BY <2>1 DEF AnswerAt, CheckPermissionAt, Deny
    <2>2. CASE prefs'[o] # None /\ IsGloballyBlocked(o, r.sender)'
      BY <2>2 DEF AnswerAt, CheckPermissionAt, Deny
    <2>3. CASE prefs'[o] # None /\ ~IsGloballyBlocked(o, r.sender)'
      BY <2>3 DEF AnswerAt, CheckPermissionAt, RulesAllow
    <2> QED BY <2>1, <2>2, <2>3
  <1> QED BY <1>2, <1>3, <1>4, <1>5, <1>6

(* Shapes of the mapped variables.                                         *)
LEMMA MappedTyped ==
  /\ now \in 0..MaxTime => C!TypeOK
  /\ now' \in 0..MaxTime => (C!TypeOK)'
  /\ \A o \in Owners, t \in 0..MaxTime :
       Granted[o][t] \subseteq Requests /\ Granted'[o][t] \subseteq Requests
  <1>1. /\ \A o \in Owners, t \in 0..MaxTime : GrantedAt(o, t) \in SUBSET Requests
        /\ \A o \in Owners, t \in 0..MaxTime : GrantedAt(o, t)' \in SUBSET Requests
    BY DEF GrantedAt
  <1>2. /\ Granted \in [Owners -> [0..MaxTime -> SUBSET Requests]]
        /\ Granted' \in [Owners -> [0..MaxTime -> SUBSET Requests]]
    BY <1>1 DEF Granted
  <1> QED BY <1>2 DEF C!TypeOK, C!Requests, Known, Barred, Requests

(* The promise of Consent holds in every state, by the order of the tests  *)
(* in check_permission.                                                    *)
LEMMA MappedHonoured == \A o \in Owners : (C!Honoured(o))'
  <1> SUFFICES ASSUME NEW o \in Owners PROVE (C!Honoured(o))'
    OBVIOUS
  <1> SUFFICES ASSUME NEW t \in 0..MaxTime
               PROVE  /\ o \notin Known' => Granted'[o][t] = {}
                      /\ Granted'[o][t] \cap (C!From(Barred'[o])) = {}
    BY DEF C!Honoured, C!From, C!Requests
  <1>1. o \notin Known' => Granted'[o][t] = {}
    BY GrantMeans, MappedTyped DEF Known
  <1>2. \A r \in Granted'[o][t] : r.sender \notin Barred'[o]
    BY GrantMeans, MappedTyped
  <1>3. Granted'[o][t] \cap {r \in Requests : r.sender \in Barred'[o]} = {}
    BY <1>2
  <1> QED BY <1>1, <1>3 DEF C!From, C!Requests, Requests

(* The rules of an owner whose profile is untouched say the same of every  *)
(* time.                                                                   *)
LEMMA RulesAllowStable ==
  ASSUME NEW o \in Owners, prefs'[o] = prefs[o], NEW r \in Requests,
         NEW t \in 0..MaxTime
  PROVE  RulesAllow(o, r, t)' = RulesAllow(o, r, t)
  BY DEF RulesAllow, ApplyRules

(* An owner whose profile and patterns are untouched keeps its answers,    *)
(* those of every later time too.                                          *)
LEMMA OwnerUntouched ==
  ASSUME NEW o \in Owners, prefs'[o] = prefs[o], blocklist'[o] = blocklist[o]
  PROVE  /\ Barred'[o] = Barred[o]
         /\ Granted'[o] = Granted[o]
         /\ o \in Known' <=> o \in Known
  <1>1. Barred'[o] = Barred[o]
    BY DEF Barred, IsGloballyBlocked
  <1>2. ASSUME NEW t \in 0..MaxTime
        PROVE  Granted'[o][t] = Granted[o][t]
    <2>1. \A r \in Requests : r \in Granted'[o][t] <=> r \in Granted[o][t]
      BY <1>1, GrantMeans, RulesAllowStable
    <2> QED BY <2>1, MappedTyped
  <1>3. Granted'[o] = Granted[o]
    BY <1>2 DEF Granted
  <1> QED BY <1>1, <1>3 DEF Known

(* A step of `owner' leaves all other owners as they are.                  *)
LEMMA StepIsLocal ==
  ASSUME TypeOK, NEW owner \in Owners, UNCHANGED now,
         \/ \E p : Save(owner, p) /\ UNCHANGED blocklist
         \/ \E P : blocklist' = [blocklist EXCEPT ![owner] = P] /\ UNCHANGED prefs
  PROVE  C!OthersUnchanged(owner)
  <1> SUFFICES ASSUME NEW o \in Owners \ {owner}
               PROVE  /\ Granted'[o] = Granted[o]
                      /\ Barred'[o] = Barred[o]
                      /\ o \in Known' <=> o \in Known
    BY DEF C!OthersUnchanged
  <1>1. prefs'[o] = prefs[o] /\ blocklist'[o] = blocklist[o]
    BY DEF TypeOK, Save
  <1> QED BY <1>1, OwnerUntouched

(* Registering, updating, adding and removing rules: the owner declares    *)
(* what it grants.                                                         *)
LEMMA SaveDeclares ==
  ASSUME TypeOK, NEW owner \in Owners, NEW p, p # None,
         Save(owner, p), UNCHANGED <<blocklist, now>>
  PROVE  C!Declare(owner)
  <1>1. C!OthersUnchanged(owner)
    BY StepIsLocal
  <1>2. owner \in Known'
    BY DEF Save, Known, TypeOK
  <1>3. Barred'[owner] = Barred[owner]
    BY DEF Barred, IsGloballyBlocked
  <1> QED BY <1>1, <1>2, <1>3 DEF C!Declare

(* Deleting: the owner forgets its profile, and only that.                 *)
LEMMA DeleteForgets ==
  ASSUME TypeOK, NEW owner \in Owners, DeletePreferences(owner)
  PROVE  C!Forget(owner)
  <1>1. C!OthersUnchanged(owner)
    BY StepIsLocal DEF DeletePreferences
  <1>2. owner \in Known /\ owner \notin Known'
    BY DEF DeletePreferences, Save, Known, TypeOK
  <1>3. Barred'[owner] = Barred[owner]
    BY DEF DeletePreferences, Barred, IsGloballyBlocked
  <1> QED BY <1>1, <1>2, <1>3 DEF C!Forget

(* Blocking takes away the grants of the senders it bars and no other.     *)
LEMMA BlockBars ==
  ASSUME TypeOK, NEW owner \in Owners, NEW pattern \in PatternInputs,
         BlockSender(owner, pattern)
  PROVE  C!Bar(owner)
  <1>1. /\ blocklist' = [blocklist EXCEPT ![owner] = @ \cup {pattern}]
        /\ prefs' = prefs /\ now' = now
    BY DEF BlockSender
  <1>2. C!OthersUnchanged(owner)
    BY <1>1, StepIsLocal
  <1>3. owner \in Known' <=> owner \in Known
    BY <1>1 DEF Known
  <1>4. Barred[owner] \subseteq Barred'[owner]
    BY <1>1 DEF Barred, IsGloballyBlocked, IsPatternBlocked, TypeOK
  <1>5. ASSUME NEW t \in 0..MaxTime
        PROVE  Granted'[owner][t] = Granted[owner][t] \ C!From(Barred'[owner])
    <2>1. \A r \in Requests :
            r \in Granted'[owner][t] <=>
              r \in Granted[owner][t] /\ r.sender \notin Barred'[owner]
      BY <1>1, <1>4, GrantMeans, RulesAllowStable
    <2> QED BY <2>1, MappedTyped DEF C!From, C!Requests, Requests
  <1> QED BY <1>2, <1>3, <1>4, <1>5 DEF C!Bar

(* Unblocking takes nothing away, and gives only to senders it unbars.     *)
LEMMA UnblockUnbars ==
  ASSUME TypeOK, NEW owner \in Owners, NEW pattern \in PatternInputs,
         UnblockSender(owner, pattern)
  PROVE  C!Unbar(owner)
  <1>1. /\ blocklist' = [blocklist EXCEPT ![owner] = @ \ {pattern}]
        /\ prefs' = prefs /\ now' = now
    BY DEF UnblockSender
  <1>2. C!OthersUnchanged(owner)
    BY <1>1, StepIsLocal
  <1>3. owner \in Known' <=> owner \in Known
    BY <1>1 DEF Known
  <1>4. Barred'[owner] \subseteq Barred[owner]
    BY <1>1 DEF Barred, IsGloballyBlocked, IsPatternBlocked, TypeOK
  <1>5. ASSUME NEW t \in 0..MaxTime
        PROVE  Granted[owner][t] = Granted'[owner][t] \ C!From(Barred[owner])
    <2>1. \A r \in Requests :
            r \in Granted[owner][t] <=>
              r \in Granted'[owner][t] /\ r.sender \notin Barred[owner]
      BY <1>1, <1>4, GrantMeans, RulesAllowStable
    <2> QED BY <2>1, MappedTyped DEF C!From, C!Requests, Requests
  <1> QED BY <1>2, <1>3, <1>4, <1>5 DEF C!Unbar

(* Every step of the contract is a step of Consent or leaves it alone.     *)
LEMMA NextRefines == TypeOK /\ [Next]_vars => [C!Next]_(C!vars)
  <1> SUFFICES ASSUME TypeOK, [Next]_vars PROVE [C!Next]_(C!vars)
    OBVIOUS
  <1>0. now' \in 0..MaxTime
    BY NextTyped DEF TypeOK
  <1>1. ASSUME NEW owner \in Owners,
               C!Declare(owner) \/ C!Forget(owner) \/ C!Bar(owner) \/ C!Unbar(owner)
        PROVE  C!Next
    BY <1>0, <1>1, MappedTyped, MappedHonoured DEF C!Next
  <1>2. ASSUME NEW owner \in Owners, NEW rules \in RuleLists, NEW policy \in Policies,
               NEW url \in UrlInputs \cup {None},
               \/ RegisterPreferences(owner, rules, policy, url)
               \/ UpdatePreferences(owner, rules, policy, url)
        PROVE  C!Next
    <2>1. Profile(rules, policy, url) # None
      BY <1>2, ProfileTyped, NoneAssumption DEF RegisterPreferences, UpdatePreferences
    <2> QED BY <1>1, <1>2, <2>1, SaveDeclares DEF RegisterPreferences, UpdatePreferences
  <1>3. ASSUME NEW owner \in Owners, NEW rule \in RuleInputs, AddRule(owner, rule)
        PROVE  C!Next
    <2> DEFINE new == [prefs[owner] EXCEPT !.rules = Append(@, rule)]
    <2>1. prefs[owner] \in HumanPreferences /\ rule \in PreferenceRules
      BY <1>3, InputsAssumption DEF AddRule, TypeOK
    <2>2. Append(prefs[owner].rules, rule) \in Seq(PreferenceRules)
      BY <2>1 DEF HumanPreferences
    <2>3. new \in HumanPreferences
      BY <2>1, <2>2, RulesReplaced
    <2>4. new # None
      BY <2>3, NoneAssumption
    <2> QED BY <1>1, <1>3, <2>4, SaveDeclares DEF AddRule
  <1>4. ASSUME NEW owner \in Owners, NEW index \in 0..MAX_RULES, RemoveRule(owner, index)
        PROVE  C!Next
    <2> DEFINE new == [prefs[owner] EXCEPT !.rules = RemoveAt(@, index + 1)]
    <2>1. prefs[owner] \in HumanPreferences
      BY <1>4 DEF RemoveRule, TypeOK
    <2>2. /\ prefs[owner].rules \in Seq(PreferenceRules)
          /\ index + 1 \in 1..Len(prefs[owner].rules)
      BY <1>4, <2>1, LimitsAssumption DEF RemoveRule, HumanPreferences
    <2>3. RemoveAt(prefs[owner].rules, index + 1) \in Seq(PreferenceRules)
      BY <2>2, RemoveAtTyped
    <2>4. new \in HumanPreferences
      BY <2>1, <2>3, RulesReplaced
    <2>5. new # None
      BY <2>4, NoneAssumption
    <2> QED BY <1>1, <1>4, <2>5, SaveDeclares DEF RemoveRule
  <1>5. ASSUME NEW owner \in Owners, NEW pattern \in PatternInputs,
               BlockSender(owner, pattern) \/ UnblockSender(owner, pattern)
        PROVE  C!Next
    BY <1>1, <1>5, BlockBars, UnblockUnbars
  <1>6. ASSUME NEW owner \in Owners, DeletePreferences(owner)
        PROVE  C!Next
    BY <1>1, <1>6, DeleteForgets
  <1>7. CASE NextBlock
    <2>1. Known' = Known /\ Barred' = Barred
      BY <1>7 DEF NextBlock, Known, Barred, IsGloballyBlocked
    <2>2. \A o \in Owners : Granted'[o] = Granted[o]
      BY <1>7, OwnerUntouched DEF NextBlock
    <2>3. Granted' = Granted
      BY <2>2 DEF Granted
    <2>4. now' > now
      BY <1>7, LimitsAssumption DEF NextBlock, TypeOK
    <2> QED BY <1>0, <2>1, <2>3, <2>4, MappedTyped, MappedHonoured
            DEF C!Next, C!TimePasses
  <1>8. CASE UNCHANGED vars
    <2>1. \A o \in Owners : prefs'[o] = prefs[o] /\ blocklist'[o] = blocklist[o]
      BY <1>8 DEF vars
    <2>2. \A o \in Owners : Barred'[o] = Barred[o] /\ Granted'[o] = Granted[o]
      BY <1>8, <2>1, OwnerUntouched DEF vars
    <2>3. Known' = Known
      BY <1>8 DEF vars, Known
    <2>4. Barred' = Barred /\ Granted' = Granted
      BY <2>2 DEF Barred, Granted
    <2> QED BY <1>8, <2>3, <2>4 DEF C!vars, vars
  <1> QED BY <1>2, <1>3, <1>4, <1>5, <1>6, <1>7, <1>8 DEF Next, Execute

(* At first nobody is known, nobody is barred and nothing is granted.      *)
LEMMA InitRefines == Init => C!Init
  <1> SUFFICES ASSUME Init PROVE C!Init
    OBVIOUS
  <1>1. Known = {} /\ Barred = [o \in Owners |-> {}]
    BY DEF Init, Known, Barred, IsGloballyBlocked, IsPatternBlocked
  <1>2. \A o \in Owners, t \in 0..MaxTime : Granted[o][t] = {}
    BY GrantMeans, MappedTyped DEF Init
  <1>3. Granted = [o \in Owners |-> [t \in 0..MaxTime |-> {}]]
    BY <1>2 DEF Granted
  <1>4. now \in 0..MaxTime
    BY LimitsAssumption DEF Init
  <1> QED BY <1>1, <1>3, <1>4 DEF C!Init

(* The contract implements the consent record: for every set of owners and *)
(* senders, all rules, patterns and calendars, no call changes another     *)
(* owner's answers of any time, blocks take away exactly the blocked       *)
(* senders' grants, unblocking takes nothing away, a block outlives the    *)
(* profile it was made for, and the clock alone changes no answer.         *)
THEOREM ConsentImplemented == Spec => ConsentKept
  BY InitRefines, NextRefines, TypeCorrect, PTL DEF Spec, ConsentKept, C!Spec

-----------------------------------------------------------------------------
(* Every non-empty set of natural numbers has a least element.             *)
LEMMA LeastNumber ==
  ASSUME NEW T, T \subseteq Nat, T # {}
  PROVE  \E x \in T : \A y \in T : x <= y
  <1>1. PICK x \in T : \A y \in T : ~(<<y, x>> \in OpToRel(<, Nat))
    BY NatLessThanWellFounded, WFMin
  <1>2. ASSUME NEW y \in T PROVE x <= y
    <2>1. x \in Nat /\ y \in Nat
      OBVIOUS
    <2>2. y < x => <<y, x>> \in OpToRel(<, Nat)
      BY <2>1 DEF OpToRel
    <2>3. ~(y < x)
      BY <1>1, <2>2, Zenon
    <2> QED BY <2>1, <2>3
  <1> QED BY <1>2

(* Priorities are numbers.                                                 *)
LEMMA PriorityTyped == \A rule : RulePriority(rule) \in 0..3
  BY DEF RulePriority

(* When some rule matches there is a first one of the best tier.           *)
LEMMA BestRuleExists ==
  ASSUME NEW rules \in Seq(PreferenceRules), NEW type, NEW intent,
         Matching(rules, type, intent) # {}
  PROVE  \E i \in DOMAIN rules : IsBestRule(rules, type, intent, i)
  <1> DEFINE M == Matching(rules, type, intent)
             tiers == {RulePriority(rules[i]) : i \in M}
  <1>1. M \subseteq DOMAIN rules /\ DOMAIN rules \subseteq Nat /\ M # {}
    BY DEF Matching
  <1>2. tiers \subseteq Nat /\ tiers # {}
    BY <1>1, PriorityTyped
  <1>3. PICK best \in tiers : \A t \in tiers : best <= t
    BY <1>2, LeastNumber
  <1> DEFINE inBest == {i \in M : RulePriority(rules[i]) = best}
  <1>4. inBest \subseteq Nat /\ inBest # {}
    BY <1>1, <1>3
  <1>5. PICK i \in inBest : \A j \in inBest : i <= j
    BY <1>4, LeastNumber
  <1>6. ASSUME NEW j \in M
        PROVE  \/ RulePriority(rules[i]) < RulePriority(rules[j])
               \/ RulePriority(rules[i]) = RulePriority(rules[j]) /\ i <= j
    <2>1. /\ RulePriority(rules[i]) = best
          /\ best <= RulePriority(rules[j])
          /\ best \in Nat /\ RulePriority(rules[j]) \in Nat
      BY <1>2, <1>3
    <2>2. RulePriority(rules[j]) = best => i <= j
      BY <1>5
    <2> QED BY <2>1, <2>2
  <1> QED BY <1>1, <1>6 DEF IsBestRule

(* There is only one.                                                      *)
LEMMA BestRuleUnique ==
  ASSUME NEW rules \in Seq(PreferenceRules), NEW type, NEW intent,
         NEW i, NEW j,
         IsBestRule(rules, type, intent, i), IsBestRule(rules, type, intent, j)
  PROVE  i = j
  <1>1. i \in Nat /\ j \in Nat
    BY DEF IsBestRule, Matching
  <1>2. RulePriority(rules[i]) \in Nat /\ RulePriority(rules[j]) \in Nat
    BY PriorityTyped
  <1>3. i <= j /\ j <= i
    BY <1>1, <1>2 DEF IsBestRule
  <1> QED BY <1>1, <1>3

(* What find_best_rule returns is the first rule of the best tier, and any *)
(* such rule is what it returns.                                           *)
LEMMA FoundIsBest ==
  ASSUME NEW rules \in Seq(PreferenceRules), NEW type, NEW intent
  PROVE  /\ Matching(rules, type, intent) # {} =>
              IsBestRule(rules, type, intent, FindBestRule(rules, type, intent))
         /\ \A i : IsBestRule(rules, type, intent, i) =>
              i = FindBestRule(rules, type, intent)
  <1>1. Matching(rules, type, intent) # {} =>
          IsBestRule(rules, type, intent, FindBestRule(rules, type, intent))
    BY BestRuleExists DEF FindBestRule
  <1>2. ASSUME NEW i, IsBestRule(rules, type, intent, i)
        PROVE  i = FindBestRule(rules, type, intent)
    <2>1. Matching(rules, type, intent) # {}
      BY <1>2 DEF IsBestRule
    <2> QED BY <1>1, <1>2, <2>1, BestRuleUnique
  <1> QED BY <1>1, <1>2

-----------------------------------------------------------------------------
(* The loop of find_best_rule, by induction over the rules it has seen.    *)

(* Induction on the natural numbers, by minimal counterexample.            *)
LEMMA Induction ==
  ASSUME NEW T, T \subseteq Nat, 0 \in T, \A n \in T : n + 1 \in T
  PROVE  T = Nat
  <1> DEFINE U == Nat \ T
  <1>1. SUFFICES ASSUME U # {} PROVE FALSE
    OBVIOUS
  <1>2. PICK n \in U : \A m \in U : n <= m
    BY <1>1, LeastNumber
  <1>3. n # 0 /\ n \in Nat
    OBVIOUS
  <1>4. n - 1 \in Nat /\ n - 1 \notin U
    BY <1>2, <1>3
  <1>5. (n - 1) + 1 = n
    BY <1>3
  <1>6. n \in T
    BY <1>4, <1>5
  <1> QED BY <1>2, <1>6

(* g records what the first n iterations of the loop leave as the best.    *)
LoopRun(rules, type, intent, n, g) ==
  g = [i \in 0..n |->
         IF i = 0 THEN 0 ELSE BetterRule(rules, type, intent, g[i - 1], i)]

(* The loop runs, over any number of rules.                                *)
LEMMA LoopRuns ==
  ASSUME NEW rules, NEW type, NEW intent
  PROVE  \A n \in Nat : \E g : LoopRun(rules, type, intent, n, g)
  <1> DEFINE Body(h, i) == IF i = 0 THEN 0
                           ELSE BetterRule(rules, type, intent, h[i - 1], i)
             T == {n \in Nat : \E g : LoopRun(rules, type, intent, n, g)}
  <1>1. 0 \in T
    <2> DEFINE g == [i \in 0..0 |-> 0]
    <2>1. \A i \in 0..0 : i = 0
      OBVIOUS
    <2>2. g = [i \in 0..0 |-> Body(g, i)]
      BY <2>1
    <2> QED BY <2>2 DEF LoopRun
  <1>2. ASSUME NEW n \in T PROVE n + 1 \in T
    <2>1. PICK g : LoopRun(rules, type, intent, n, g)
      OBVIOUS
    <2>2. g = [i \in 0..n |-> Body(g, i)]
      BY <2>1 DEF LoopRun
    <2>3. \A i \in 0..n : g[i] = Body(g, i)
      BY <2>2
    <2> DEFINE h == [i \in 0..(n + 1) |-> Body(g, i)]
    <2> HIDE DEF Body
    <2>4. ASSUME NEW i \in 0..n PROVE h[i] = g[i]
      BY <2>3
    <2>5. ASSUME NEW i \in 0..(n + 1) PROVE Body(g, i) = Body(h, i)
      <3>1. CASE i = 0
        BY <3>1 DEF Body
      <3>2. CASE i # 0
        <4>1. i - 1 \in 0..n
          BY <3>2
        <4>2. h[i - 1] = g[i - 1]
          BY <4>1, <2>4
        <4> QED BY <4>2 DEF Body
      <3> QED BY <3>1, <3>2
    <2>6. h = [i \in 0..(n + 1) |-> Body(h, i)]
      BY <2>5
    <2>7. LoopRun(rules, type, intent, n + 1, h)
      BY <2>6 DEF LoopRun, Body
    <2> QED BY <2>7
  <1>3. T = Nat
    <2> HIDE DEF T
    <2>1. T \subseteq Nat
      BY DEF T
    <2> QED BY <1>1, <1>2, <2>1, Induction
  <1> QED BY <1>3

(* best is 0 when none of the first n rules matches, and else the first    *)
(* rule of the best tier among them.                                       *)
BestSoFar(rules, type, intent, n, best) ==
  \/ /\ best = 0
     /\ \A j \in Matching(rules, type, intent) : n < j
  \/ /\ best \in Matching(rules, type, intent) /\ best <= n
     /\ \A j \in Matching(rules, type, intent) : j <= n =>
          \/ RulePriority(rules[best]) < RulePriority(rules[j])
          \/ RulePriority(rules[best]) = RulePriority(rules[j]) /\ best <= j

(* One iteration of the loop keeps that.                                   *)
LEMMA BetterIsBest ==
  ASSUME NEW rules \in Seq(PreferenceRules), NEW type, NEW intent,
         NEW n \in Nat, n + 1 <= Len(rules), NEW best,
         BestSoFar(rules, type, intent, n, best)
  PROVE  BestSoFar(rules, type, intent, n + 1,
                   BetterRule(rules, type, intent, best, n + 1))
  <1> DEFINE M == Matching(rules, type, intent)
             tier(i) == RulePriority(rules[i])
             new == BetterRule(rules, type, intent, best, n + 1)
  <1>1. \A i : tier(i) \in Nat
    BY PriorityTyped
  <1>2. M \subseteq Nat \ {0}
    BY DEF Matching
  <1>3. n + 1 \in M <=> RuleMatches(rules[n + 1], type, intent)
    BY DEF Matching
  <1>4. \/ best = 0 /\ \A j \in M : n < j
        \/ /\ best \in M /\ best <= n
           /\ \A j \in M : j <= n =>
                \/ tier(best) < tier(j)
                \/ tier(best) = tier(j) /\ best <= j
    BY DEF BestSoFar
  <1>5. new = IF n + 1 \in M /\ (best # 0 => tier(n + 1) < tier(best))
              THEN n + 1 ELSE best
    BY <1>3 DEF BetterRule
  <1> HIDE DEF M, tier, new
  <1>6. \A j \in M : j <= n + 1 => j <= n \/ j = n + 1
    BY <1>2
  <1>7. \/ new = 0 /\ \A j \in M : n + 1 < j
        \/ /\ new \in M /\ new <= n + 1
           /\ \A j \in M : j <= n + 1 =>
                \/ tier(new) < tier(j)
                \/ tier(new) = tier(j) /\ new <= j
    <2>1. CASE n + 1 \in M /\ (best # 0 => tier(n + 1) < tier(best))
      <3>1. new = n + 1 /\ new \in M
        BY <1>5, <2>1
      <3>2. ASSUME NEW j \in M, j <= n + 1
            PROVE  \/ tier(new) < tier(j)
                   \/ tier(new) = tier(j) /\ new <= j
        <4>1. CASE j = n + 1
          BY <3>1, <4>1
        <4>2. CASE j <= n
          <5>1. best # 0 /\ (tier(best) < tier(j) \/ tier(best) = tier(j))
            BY <1>2, <1>4, <4>2
          <5>2. tier(n + 1) < tier(best)
            BY <2>1, <5>1
          <5> QED BY <1>1, <3>1, <5>1, <5>2
        <4> QED BY <1>6, <3>2, <4>1, <4>2
      <3> QED BY <3>1, <3>2
    <2>2. CASE n + 1 \notin M
      BY <1>1, <1>2, <1>4, <1>5, <1>6, <2>2
    <2>3. CASE n + 1 \in M /\ best # 0 /\ ~(tier(n + 1) < tier(best))
      BY <1>1, <1>2, <1>4, <1>5, <1>6, <2>3
    <2> QED BY <2>1, <2>2, <2>3
  <1> QED BY <1>7 DEF BestSoFar, M, tier, new

(* After n iterations the loop holds the best of the first n rules.        *)
LEMMA LoopHoldsBest ==
  ASSUME NEW rules \in Seq(PreferenceRules), NEW type, NEW intent, NEW g,
         LoopRun(rules, type, intent, Len(rules), g)
  PROVE  BestSoFar(rules, type, intent, Len(rules), g[Len(rules)])
  <1> DEFINE T == {n \in Nat : n <= Len(rules) =>
                                  BestSoFar(rules, type, intent, n, g[n])}
  <1>1. Len(rules) \in Nat
    OBVIOUS
  <1>2. \A i \in 0..Len(rules) :
          g[i] = IF i = 0 THEN 0
                 ELSE BetterRule(rules, type, intent, g[i - 1], i)
    <2> DEFINE body(i) == IF i = 0 THEN 0
                          ELSE BetterRule(rules, type, intent, g[i - 1], i)
    <2>1. g = [i \in 0..Len(rules) |-> body(i)]
      BY DEF LoopRun
    <2> HIDE DEF body
    <2>2. \A i \in 0..Len(rules) : g[i] = body(i)
      BY <2>1
    <2> QED BY <2>2 DEF body
  <1>3. 0 \in T
    <2>1. g[0] = 0
      BY <1>1, <1>2
    <2>2. \A j \in Matching(rules, type, intent) : 0 < j
      BY DEF Matching
    <2> QED BY <2>1, <2>2 DEF BestSoFar
  <1>4. ASSUME NEW n \in T PROVE n + 1 \in T
    <2>1. n \in Nat
      OBVIOUS
    <2>2. CASE n + 1 <= Len(rules)
      <3>1. n <= Len(rules) /\ n + 1 \in 0..Len(rules)
            /\ n + 1 # 0 /\ (n + 1) - 1 = n
        BY <1>1, <2>1, <2>2
      <3>2. BestSoFar(rules, type, intent, n, g[n])
        BY <3>1
      <3>3. g[n + 1] = BetterRule(rules, type, intent, g[n], n + 1)
        BY <1>2, <3>1
      <3>4. BestSoFar(rules, type, intent, n + 1, g[n + 1])
        BY <2>1, <2>2, <3>2, <3>3, BetterIsBest
      <3> QED BY <2>1, <3>4
    <2> QED BY <2>1, <2>2
  <1>5. T = Nat
    <2> HIDE DEF T
    <2>1. T \subseteq Nat
      BY DEF T
    <2> QED BY <1>3, <1>4, <2>1, Induction
  <1> QED BY <1>1, <1>5

(* The loop returns 0 when no rule matches, and else the best rule.        *)
LEMMA LoopFinds ==
  ASSUME NEW rules \in Seq(PreferenceRules), NEW type, NEW intent
  PROVE  LET found == FindBestRuleLoop(rules, type, intent)
         IN  IF Matching(rules, type, intent) = {}
             THEN found = 0
             ELSE found # 0 /\ IsBestRule(rules, type, intent, found)
  <1> DEFINE best == CHOOSE g : g = [i \in 0..Len(rules) |->
                       IF i = 0 THEN 0
                       ELSE BetterRule(rules, type, intent, g[i - 1], i)]
  <1>1. FindBestRuleLoop(rules, type, intent) = best[Len(rules)]
    BY DEF FindBestRuleLoop
  <1>2. Len(rules) \in Nat
    OBVIOUS
  <1>3. \E g : LoopRun(rules, type, intent, Len(rules), g)
    BY <1>2, LoopRuns
  <1>4. LoopRun(rules, type, intent, Len(rules), best)
    BY <1>3 DEF LoopRun
  <1> HIDE DEF best
  <1>5. BestSoFar(rules, type, intent, Len(rules), best[Len(rules)])
    BY <1>4, LoopHoldsBest
  <1>6. Matching(rules, type, intent) \subseteq 1..Len(rules)
    BY DEF Matching
  <1>7. \A j \in Matching(rules, type, intent) :
          j <= Len(rules) /\ ~(Len(rules) < j) /\ j # 0
    BY <1>2, <1>6
  <1>8. CASE Matching(rules, type, intent) = {}
    BY <1>1, <1>5, <1>8 DEF BestSoFar
  <1>9. CASE Matching(rules, type, intent) # {}
    <2>1. IsBestRule(rules, type, intent, best[Len(rules)])
      BY <1>5, <1>7, <1>9 DEF BestSoFar, IsBestRule
    <2> QED BY <1>1, <1>7, <1>9, <2>1 DEF IsBestRule
  <1> QED BY <1>8, <1>9

(* The loop of find_best_rule, for every list of rules an owner can store  *)
(* and every sender type and intent, ends with the first rule of the most  *)
(* specific tier that matches, and with none exactly when none matches.    *)
THEOREM LoopFindsBest == Spec => []LoopFindsBestRule
  <1>1. TypeOK => LoopFindsBestRule
    <2> SUFFICES ASSUME TypeOK, NEW o \in Owners, NEW k \in Kinds, prefs[o] # None
                 PROVE  LET rules == prefs[o].rules
                            found == FindBestRuleLoop(rules, k[1], k[2])
                        IN  IF Matching(rules, k[1], k[2]) = {}
                            THEN found = 0
                            ELSE found # 0 /\ IsBestRule(rules, k[1], k[2], found)
      BY DEF LoopFindsBestRule
    <2>1. prefs[o].rules \in Seq(PreferenceRules)
      BY DEF TypeOK, HumanPreferences
    <2> QED BY <2>1, LoopFinds
  <1> QED BY <1>1, TypeCorrect, PTL

-----------------------------------------------------------------------------
(* check_permission against is_blocked.                                    *)

(* A rule that decides is one of the rules of the profile.                 *)
LEMMA FoundIsStored ==
  ASSUME NEW rules \in Seq(PreferenceRules), NEW type, NEW intent,
         Matching(rules, type, intent) # {}
  PROVE  FindBestRule(rules, type, intent) \in DOMAIN rules
  BY FoundIsBest DEF IsBestRule, Matching

(* The two queries agree in every state.                                   *)
LEMMA TypedAgree == TypeOK => QueriesAgree
  <1> SUFFICES ASSUME TypeOK, NEW o \in Owners, NEW r \in Requests
               PROVE  /\ Answer(o, r).reason \in
                           {"SENDER_GLOBALLY_BLOCKED", "SENDER_RULE_BLOCKED"}
                           => QueryIsBlocked(o, r.sender)
                      /\ IsGloballyBlocked(o, r.sender) => ~Answer(o, r).allowed
    BY DEF QueriesAgree
  <1>1. CASE prefs[o] = None
    BY <1>1 DEF Answer, CheckPermission, CheckPermissionAt, Deny
  <1>2. CASE prefs[o] # None /\ IsGloballyBlocked(o, r.sender)
    BY <1>2 DEF Answer, CheckPermission, CheckPermissionAt, Deny, QueryIsBlocked
  <1>3. CASE prefs[o] # None /\ ~IsGloballyBlocked(o, r.sender)
    <2> DEFINE profile == prefs[o]
               found == FindBestRule(profile.rules, r.kind[1], r.kind[2])
    <2>1. profile.rules \in Seq(PreferenceRules)
      BY <1>3 DEF TypeOK, HumanPreferences
    <2>2. Answer(o, r) = ApplyRules(profile, r.sender, r.kind[1], r.kind[2], now)
      BY <1>3 DEF Answer, CheckPermission, CheckPermissionAt
    <2>3. CASE Matching(profile.rules, r.kind[1], r.kind[2]) = {}
      BY <1>3, <2>2, <2>3 DEF ApplyRules, Allow, Deny
    <2>4. CASE Matching(profile.rules, r.kind[1], r.kind[2]) # {}
      <3>1. found \in DOMAIN profile.rules
        BY <2>1, <2>4, FoundIsStored
      <3>2. CASE IsPatternBlocked(r.sender, profile.rules[found].blocklist)
        BY <1>3, <3>1, <3>2 DEF QueryIsBlocked
      <3>3. CASE ~IsPatternBlocked(r.sender, profile.rules[found].blocklist)
        <4>1. Answer(o, r).reason \in {"OUTSIDE_TIME_WINDOW", "none"}
          BY <2>2, <2>4, <3>3 DEF ApplyRules, Allow, Deny
        <4> QED BY <1>3, <4>1
      <3> QED BY <3>2, <3>3
    <2> QED BY <2>3, <2>4
  <1> QED BY <1>1, <1>2, <1>3

(* is_blocked covers every refusal that names a block, and a global block  *)
(* refuses everything, whatever rules, patterns and windows are stored.    *)
THEOREM QueriesAlwaysAgree == Spec => []QueriesAgree
  BY TypeCorrect, TypedAgree, PTL

-----------------------------------------------------------------------------
(* Changing the rules one at a time.                                       *)

(* A change of the rules alone keeps an answer when no rule matched before *)
(* and none does after, or when the rule that decides is the same one,     *)
(* wherever it stands.                                                     *)
LEMMA SameDecision ==
  ASSUME TypeOK, NEW o \in Owners, NEW r \in Requests,
         NEW new \in Seq(PreferenceRules), prefs[o] # None,
         Save(o, [prefs[o] EXCEPT !.rules = new]), UNCHANGED <<blocklist, now>>,
         LET old == prefs[o].rules
             type == r.kind[1]
             intent == r.kind[2]
         IN  \/ Matching(old, type, intent) = {} /\ Matching(new, type, intent) = {}
             \/ \E i, j : /\ IsBestRule(old, type, intent, i)
                          /\ IsBestRule(new, type, intent, j)
                          /\ new[j] = old[i]
  PROVE  Answer(o, r)' = Answer(o, r)
  <1> DEFINE old == prefs[o].rules
             type == r.kind[1]
             intent == r.kind[2]
  <1>1. prefs[o] \in HumanPreferences /\ old \in Seq(PreferenceRules)
    BY DEF TypeOK, HumanPreferences
  <1>2. /\ prefs'[o] \in HumanPreferences
        /\ prefs'[o].rules = new
        /\ prefs'[o].defaultPolicy = prefs[o].defaultPolicy
    BY <1>1 DEF Save, TypeOK, HumanPreferences
  <1>3. prefs'[o] # None
    BY <1>2, NoneAssumption
  <1>4. IsGloballyBlocked(o, r.sender)' = IsGloballyBlocked(o, r.sender)
    BY DEF IsGloballyBlocked
  <1>5. ApplyRules(prefs[o], r.sender, type, intent, now)'
          = ApplyRules(prefs[o], r.sender, type, intent, now)
    <2>1. CASE Matching(old, type, intent) = {} /\ Matching(new, type, intent) = {}
      BY <1>2, <2>1 DEF ApplyRules
    <2>2. ASSUME NEW i, NEW j, IsBestRule(old, type, intent, i),
                 IsBestRule(new, type, intent, j), new[j] = old[i]
          PROVE  ApplyRules(prefs[o], r.sender, type, intent, now)'
                   = ApplyRules(prefs[o], r.sender, type, intent, now)
      <3>1. Matching(old, type, intent) # {} /\ Matching(new, type, intent) # {}
        BY <2>2 DEF IsBestRule
      <3>2. i = FindBestRule(old, type, intent)
        BY <1>1, <2>2, FoundIsBest
      <3>3. j = FindBestRule(new, type, intent)
        BY <2>2, FoundIsBest
      <3>4. new[FindBestRule(new, type, intent)] = old[FindBestRule(old, type, intent)]
        BY <2>2, <3>2, <3>3
      <3> QED BY <1>2, <3>1, <3>4 DEF ApplyRules
    <2> QED BY <2>1, <2>2
  <1> QED BY <1>3, <1>4, <1>5 DEF Answer, CheckPermission, CheckPermissionAt

(* An appended rule decides only what no earlier rule answers as           *)
(* specifically.                                                           *)
LEMMA AddRuleYields ==
  ASSUME TypeOK, NEW o \in Owners, NEW rule \in RuleInputs, AddRule(o, rule),
         NEW r \in Requests,
         NEW old, old = prefs[o].rules, NEW type, type = r.kind[1],
         NEW intent, intent = r.kind[2],
         \/ ~RuleMatches(rule, type, intent)
         \/ \E i \in Matching(old, type, intent) :
              ~(RulePriority(rule) < RulePriority(old[i]))
  PROVE  Answer(o, r)' = Answer(o, r)
  <1> DEFINE new == Append(old, rule)
  <1>1. prefs[o] # None /\ prefs[o] \in HumanPreferences /\ old \in Seq(PreferenceRules)
    BY DEF AddRule, TypeOK, HumanPreferences
  <1>2. rule \in PreferenceRules
    BY InputsAssumption
  <1>3. /\ new \in Seq(PreferenceRules)
        /\ DOMAIN old = 1..Len(old) /\ DOMAIN new = 1..(Len(old) + 1)
        /\ \A i \in 1..Len(old) : new[i] = old[i]
        /\ new[Len(old) + 1] = rule
        /\ Len(old) \in Nat
    BY <1>1, <1>2
  <1>4. Save(o, [prefs[o] EXCEPT !.rules = new]) /\ UNCHANGED <<blocklist, now>>
    BY DEF AddRule
  <1> HIDE DEF new
  <1>5. \A i \in 1..Len(old) :
          i \in Matching(new, type, intent) <=> i \in Matching(old, type, intent)
    BY <1>3 DEF Matching
  <1>6. \A i \in Matching(old, type, intent) : i \in 1..Len(old)
    BY <1>3 DEF Matching
  <1>7. CASE Matching(old, type, intent) = {}
    <2>1. ~RuleMatches(rule, type, intent)
      BY <1>7
    <2>2. ASSUME NEW j \in Matching(new, type, intent) PROVE FALSE
      <3>1. j \in 1..(Len(old) + 1) /\ RuleMatches(new[j], type, intent)
        BY <1>3 DEF Matching
      <3>2. j # Len(old) + 1
        BY <1>3, <2>1, <3>1
      <3>3. j \in 1..Len(old)
        BY <1>3, <3>1, <3>2
      <3> QED BY <1>5, <1>7, <3>3
    <2> QED BY <1>1, <1>3, <1>4, <1>7, <2>2, SameDecision
  <1>8. CASE Matching(old, type, intent) # {}
    <2>1. PICK i \in DOMAIN old : IsBestRule(old, type, intent, i)
      BY <1>1, <1>8, BestRuleExists
    <2>2. i \in Matching(new, type, intent) /\ new[i] = old[i] /\ i \in 1..Len(old)
      BY <1>3, <1>5, <2>1 DEF IsBestRule
    <2>3. ASSUME NEW j \in Matching(new, type, intent)
          PROVE  \/ RulePriority(new[i]) < RulePriority(new[j])
                 \/ RulePriority(new[i]) = RulePriority(new[j]) /\ i <= j
      <3>1. CASE j \in 1..Len(old)
        BY <1>3, <1>5, <2>1, <2>2, <3>1 DEF IsBestRule
      <3>2. CASE j = Len(old) + 1
        <4>1. RuleMatches(rule, type, intent) /\ new[j] = rule
          BY <1>3, <3>2 DEF Matching
        <4>2. PICK k \in Matching(old, type, intent) :
                ~(RulePriority(rule) < RulePriority(old[k]))
          BY <4>1
        <4>3. /\ RulePriority(rule) \in Nat /\ RulePriority(old[k]) \in Nat
              /\ RulePriority(old[i]) \in Nat
          BY PriorityTyped
        <4>4. RulePriority(old[i]) <= RulePriority(old[k])
          BY <2>1, <4>2, <4>3 DEF IsBestRule
        <4>5. i <= j
          BY <1>3, <2>2, <3>2
        <4> QED BY <2>2, <4>1, <4>2, <4>3, <4>4, <4>5
      <3>3. j \in 1..(Len(old) + 1)
        BY <1>3 DEF Matching
      <3> QED BY <1>3, <3>1, <3>2, <3>3
    <2>4. IsBestRule(new, type, intent, i)
      BY <2>2, <2>3 DEF IsBestRule
    <2> QED BY <1>1, <1>3, <1>4, <2>1, <2>2, <2>4, SameDecision
  <1> QED BY <1>7, <1>8

(* For all rules and requests: appending a rule changes only the answers   *)
(* of requests it matches and answers more specifically than every rule    *)
(* before it.                                                              *)
THEOREM AppendedRulesYield == Spec => AppendedRuleYields
  <1> DEFINE Yields ==
        \A o \in Owners, rule \in RuleInputs : AddRule(o, rule) =>
          \A r \in Requests :
            \/ /\ RuleMatches(rule, r.kind[1], r.kind[2])
               /\ \A i \in Matching(prefs[o].rules, r.kind[1], r.kind[2]) :
                    RulePriority(rule) < RulePriority(prefs[o].rules[i])
            \/ Answer(o, r)' = Answer(o, r)
  <1>1. TypeOK => [Yields]_vars
    BY AddRuleYields
  <1> HIDE DEF Yields
  <1>2. Spec => [][Yields]_vars
    BY <1>1, TypeCorrect, PTL
  <1> QED BY <1>2 DEF AppendedRuleYields, Yields

(* Removing a rule that does not decide a request leaves its answer.       *)
LEMMA RemoveRuleLocal ==
  ASSUME TypeOK, NEW o \in Owners, NEW index \in 0..MAX_RULES, RemoveRule(o, index),
         NEW r \in Requests,
         NEW old, old = prefs[o].rules, NEW type, type = r.kind[1],
         NEW intent, intent = r.kind[2],
         ~IsBestRule(old, type, intent, index + 1)
  PROVE  Answer(o, r)' = Answer(o, r)
  <1> DEFINE gone == index + 1
             new == RemoveAt(old, gone)
             was(j) == IF j < gone THEN j ELSE j + 1
  <1>1. prefs[o] # None /\ prefs[o] \in HumanPreferences /\ old \in Seq(PreferenceRules)
    BY DEF RemoveRule, TypeOK, HumanPreferences
  <1>2. gone \in 1..Len(old) /\ Len(old) \in Nat
    BY <1>1, LimitsAssumption DEF RemoveRule
  <1>3. /\ new \in Seq(PreferenceRules) /\ Len(new) = Len(old) - 1
        /\ \A j \in 1..(Len(old) - 1) : new[j] = IF j < gone THEN old[j] ELSE old[j + 1]
    BY <1>1, <1>2, RemoveAtElements
  <1>4. Save(o, [prefs[o] EXCEPT !.rules = new]) /\ UNCHANGED <<blocklist, now>>
    BY DEF RemoveRule
  <1>5. ~IsBestRule(old, type, intent, gone)
    OBVIOUS
  <1> HIDE DEF new, gone
  <1>6. DOMAIN old = 1..Len(old) /\ DOMAIN new = 1..(Len(old) - 1)
    BY <1>1, <1>3
  <1>7. ASSUME NEW j \in Matching(new, type, intent)
        PROVE  /\ j \in 1..(Len(old) - 1) /\ was(j) \in Matching(old, type, intent)
               /\ new[j] = old[was(j)]
    <2>1. j \in 1..(Len(old) - 1) /\ RuleMatches(new[j], type, intent)
      BY <1>6 DEF Matching
    <2>2. was(j) \in 1..Len(old) /\ new[j] = old[was(j)]
      BY <1>2, <1>3, <2>1
    <2> QED BY <1>6, <2>1, <2>2 DEF Matching
  <1>8. CASE Matching(old, type, intent) = {}
    <2>1. Matching(new, type, intent) = {}
      BY <1>7, <1>8
    <2> QED BY <1>1, <1>3, <1>4, <1>8, <2>1, SameDecision
  <1>9. CASE Matching(old, type, intent) # {}
    <2>1. PICK i \in DOMAIN old : IsBestRule(old, type, intent, i)
      BY <1>1, <1>9, BestRuleExists
    <2>2. i \in 1..Len(old) /\ i # gone /\ RuleMatches(old[i], type, intent)
      BY <1>5, <1>6, <2>1 DEF IsBestRule, Matching
    <2>3. PICK k \in 1..(Len(old) - 1) : was(k) = i
      <3>1. CASE i < gone
        BY <1>2, <2>2, <3>1
      <3>2. CASE ~(i < gone)
        <4>1. i - 1 \in 1..(Len(old) - 1) /\ was(i - 1) = i
          BY <1>2, <2>2, <3>2
        <4> QED BY <4>1
      <3> QED BY <3>1, <3>2
    <2>4. new[k] = old[i]
      BY <1>3, <2>3
    <2>5. k \in Matching(new, type, intent)
      BY <1>6, <2>2, <2>4 DEF Matching
    <2>6. ASSUME NEW j \in Matching(new, type, intent)
          PROVE  \/ RulePriority(new[k]) < RulePriority(new[j])
                 \/ RulePriority(new[k]) = RulePriority(new[j]) /\ k <= j
      <3>1. \/ RulePriority(old[i]) < RulePriority(old[was(j)])
            \/ RulePriority(old[i]) = RulePriority(old[was(j)]) /\ i <= was(j)
        BY <1>7, <2>1 DEF IsBestRule
      <3>2. j \in 1..(Len(old) - 1) /\ new[j] = old[was(j)]
        BY <1>7
      <3>3. i <= was(j) => k <= j
        BY <1>2, <2>3, <3>2
      <3> QED BY <2>4, <3>1, <3>2, <3>3
    <2>7. IsBestRule(new, type, intent, k)
      BY <2>5, <2>6 DEF IsBestRule
    <2> QED BY <1>1, <1>3, <1>4, <2>1, <2>4, <2>7, SameDecision
  <1> QED BY <1>8, <1>9

(* For all rules and requests: removing the rule at an index changes only  *)
(* the answers that rule decided, however the later rules move up.         *)
THEOREM RemovalsAreLocal == Spec => RemovalIsLocal
  <1> DEFINE Local ==
        \A o \in Owners, index \in 0..MAX_RULES : RemoveRule(o, index) =>
          \A r \in Requests :
            \/ IsBestRule(prefs[o].rules, r.kind[1], r.kind[2], index + 1)
            \/ Answer(o, r)' = Answer(o, r)
  <1>1. TypeOK => [Local]_vars
    BY RemoveRuleLocal
  <1> HIDE DEF Local
  <1>2. Spec => [][Local]_vars
    BY <1>1, TypeCorrect, PTL
  <1> QED BY <1>2 DEF RemovalIsLocal, Local

-----------------------------------------------------------------------------
(* Time windows.  An answer that depends on the clock turns at the bounds  *)
(* of the deciding rule's window, because a stored bound is a minute of    *)
(* the day (LimitsInv) and the day is a whole number of minutes.           *)

(* The quotient of the code's `now % day'.                                 *)
LEMMA DivisionParts ==
  ASSUME NEW d \in Int, d > 0, NEW t \in Int
  PROVE  t = d * (t \div d) + (t % d) /\ t \div d \in Int /\ t % d \in 0..(d - 1)
  OBVIOUS

(* A remainder is what is left of any multiple.                            *)
LEMMA RemainderOfSum ==
  ASSUME NEW d \in Int, d > 0, NEW q \in Int, NEW x \in 0..(d - 1)
  PROVE  (d * q + x) % d = x
  OBVIOUS

(* The minute after the last of the day is the first of the next.          *)
LEMMA NextMinute ==
  ASSUME NEW d \in Int, d > 0, NEW t \in Int
  PROVE  (t + 1) % d = IF (t % d) + 1 = d THEN 0 ELSE (t % d) + 1
  <1> DEFINE q == t \div d
             x == t % d
  <1>1. t = d * q + x /\ q \in Int /\ x \in 0..(d - 1)
    BY DivisionParts
  <1> HIDE DEF q, x
  <1>2. CASE x + 1 = d
    <2>1. t + 1 = d * (q + 1) + 0
      BY <1>1, <1>2
    <2>2. (d * (q + 1) + 0) % d = 0
      BY <1>1, RemainderOfSum
    <2> QED BY <1>2, <2>1, <2>2 DEF x
  <1>3. CASE x + 1 # d
    <2>1. t + 1 = d * q + (x + 1) /\ x + 1 \in 0..(d - 1)
      BY <1>1, <1>3
    <2>2. (d * q + (x + 1)) % d = x + 1
      BY <1>1, <2>1, RemainderOfSum
    <2> QED BY <1>3, <2>1, <2>2 DEF x
  <1> QED BY <1>2, <1>3

(* A valid hour and minute are a minute of the day.                        *)
LEMMA BoundInDay ==
  ASSUME NEW hour \in Nat, NEW minute \in Nat, hour < HoursPerDay, minute < MinutesPerHour
  PROVE  MinuteOfDay(hour, minute) \in 0..(Day - 1) /\ Day \in Int /\ Day > 0
  <1>1. (HoursPerDay - 1 - hour) * MinutesPerHour >= 0
    BY CalendarAssumption
  <1>2. (HoursPerDay - 1 - hour) * MinutesPerHour
          = HoursPerDay * MinutesPerHour - MinutesPerHour - hour * MinutesPerHour
    BY CalendarAssumption
  <1>3. hour * MinutesPerHour \in Nat /\ HoursPerDay * MinutesPerHour \in Nat
    BY CalendarAssumption
  <1> QED BY <1>1, <1>2, <1>3, CalendarAssumption DEF MinuteOfDay, Day

(* From one minute to the next a window opens at its start and shuts at    *)
(* its end only.                                                           *)
LEMMA WindowTurnsAtBounds ==
  ASSUME NEW t \in Nat, NEW w,
         NEW start \in 0..(Day - 1), NEW end \in 0..(Day - 1), Day \in Int, Day > 0,
         start = MinuteOfDay(w.startHour, w.startMinute),
         end = MinuteOfDay(w.endHour, w.endMinute)
  PROVE  /\ IsWithinTimeWindow(t, w) /\ ~IsWithinTimeWindow(t + 1, w)
              => (t + 1) % Day = end
         /\ ~IsWithinTimeWindow(t, w) /\ IsWithinTimeWindow(t + 1, w)
              => (t + 1) % Day = start
  <1> DEFINE x == t % Day
             y == (t + 1) % Day
             In(m) == IF start <= end THEN start <= m /\ m < end
                                      ELSE start <= m \/ m < end
  <1>1. /\ x \in 0..(Day - 1)
        /\ y = IF x + 1 = Day THEN 0 ELSE x + 1
    <2>1. x \in 0..(Day - 1)
      BY DivisionParts
    <2>2. y = IF x + 1 = Day THEN 0 ELSE x + 1
      <3>1. t \in Int
        OBVIOUS
      <3> QED BY <3>1, NextMinute, Zenon
    <2> QED BY <2>1, <2>2
  <1>2. IsWithinTimeWindow(t, w) <=> In(x)
    BY DEF IsWithinTimeWindow, Day
  <1>3. IsWithinTimeWindow(t + 1, w) <=> In(y)
    BY DEF IsWithinTimeWindow, Day
  <1> HIDE DEF x, y
  <1>4. In(x) /\ ~In(y) => y = end
    BY <1>1
  <1>5. ~In(x) /\ In(y) => y = start
    BY <1>1
  <1> QED BY <1>2, <1>3, <1>4, <1>5 DEF y

(* The window of a stored rule is made of minutes of the day.              *)
LEMMA StoredWindowInDay ==
  ASSUME NEW rule \in PreferenceRules, UsableRule(rule), rule.timeWindow # None,
         NEW w, w = rule.timeWindow
  PROVE  /\ MinuteOfDay(w.startHour, w.startMinute) \in 0..(Day - 1)
         /\ MinuteOfDay(w.endHour, w.endMinute) \in 0..(Day - 1)
         /\ Day \in Int /\ Day > 0
  <1>1. w \in TimeWindows
    BY DEF PreferenceRules
  <1>2. /\ w.startHour \in Nat /\ w.startMinute \in Nat
        /\ w.endHour \in Nat /\ w.endMinute \in Nat
    BY <1>1 DEF TimeWindows
  <1>3. /\ w.startHour < HoursPerDay /\ w.startMinute < MinutesPerHour
        /\ w.endHour < HoursPerDay /\ w.endMinute < MinutesPerHour
    BY DEF UsableRule
  <1> QED BY <1>2, <1>3, BoundInDay

(* An answer that changes although only time passes was given by a rule    *)
(* that has a window, and that window opened or shut.                      *)
LEMMA ChangeIsWindow ==
  ASSUME TypeOK, NextBlock, NEW o \in Owners, NEW r \in Requests,
         Answer(o, r)' # Answer(o, r)
  PROVE  /\ prefs[o] # None
         /\ \E i \in DOMAIN prefs[o].rules :
              LET w == prefs[o].rules[i].timeWindow
              IN  /\ w # None
                  /\ Answer(o, r).allowed <=> IsWithinTimeWindow(now, w)
                  /\ IsWithinTimeWindow(now', w) <=> ~IsWithinTimeWindow(now, w)
  <1> DEFINE rules == prefs[o].rules
             found == FindBestRule(rules, r.kind[1], r.kind[2])
             rule == rules[found]
             w == rule.timeWindow
             blocked == IsPatternBlocked(r.sender, rule.blocklist)
  <1>1. prefs' = prefs /\ blocklist' = blocklist
    BY DEF NextBlock
  <1>2. prefs[o] # None /\ ~IsGloballyBlocked(o, r.sender)
    BY <1>1 DEF Answer, CheckPermission, CheckPermissionAt, IsGloballyBlocked
  <1>3. /\ Answer(o, r) = ApplyRules(prefs[o], r.sender, r.kind[1], r.kind[2], now)
        /\ Answer(o, r)' = ApplyRules(prefs[o], r.sender, r.kind[1], r.kind[2], now)'
    BY <1>1, <1>2 DEF Answer, CheckPermission, CheckPermissionAt, IsGloballyBlocked
  <1>4. Matching(rules, r.kind[1], r.kind[2]) # {}
    BY <1>1, <1>3 DEF ApplyRules
  <1>5. rules \in Seq(PreferenceRules)
    BY <1>2 DEF TypeOK, HumanPreferences
  <1>6. found \in DOMAIN rules
    BY <1>4, <1>5, FoundIsStored
  <1>7. /\ Answer(o, r) =
             CASE blocked -> Deny("SENDER_RULE_BLOCKED")
               [] /\ ~blocked /\ w # None /\ ~IsWithinTimeWindow(now, w) ->
                    Deny("OUTSIDE_TIME_WINDOW")
               [] OTHER -> Allow(rule.allowedChannels, rule.rateLimit)
        /\ Answer(o, r)' =
             CASE blocked -> Deny("SENDER_RULE_BLOCKED")
               [] /\ ~blocked /\ w # None /\ ~IsWithinTimeWindow(now', w) ->
                    Deny("OUTSIDE_TIME_WINDOW")
               [] OTHER -> Allow(rule.allowedChannels, rule.rateLimit)
    BY <1>1, <1>3, <1>4 DEF ApplyRules
  <1> HIDE DEF rules, found, rule, w, blocked
  <1>8. ~blocked /\ w # None
        /\ (IsWithinTimeWindow(now', w) <=> ~IsWithinTimeWindow(now, w))
    BY <1>7
  <1>9. Answer(o, r).allowed <=> IsWithinTimeWindow(now, w)
    BY <1>7, <1>8 DEF Allow, Deny
  <1> QED BY <1>2, <1>6, <1>8, <1>9 DEF rules, found, rule, w

(* Such a change falls on a bound of that window.                          *)
LEMMA ChangeAtBound ==
  ASSUME LimitsInv, NextBlock, NEW o \in Owners, NEW r \in Requests,
         Answer(o, r)' # Answer(o, r)
  PROVE  \E i \in DOMAIN prefs[o].rules :
           LET w == prefs[o].rules[i].timeWindow
           IN  /\ w # None
               /\ now' % Day = IF Answer(o, r).allowed
                               THEN MinuteOfDay(w.endHour, w.endMinute)
                               ELSE MinuteOfDay(w.startHour, w.startMinute)
  <1>1. TypeOK
    BY DEF LimitsInv
  <1>2. prefs[o] # None
    BY <1>1, ChangeIsWindow
  <1>3. PICK i \in DOMAIN prefs[o].rules :
          LET w == prefs[o].rules[i].timeWindow
          IN  /\ w # None
              /\ Answer(o, r).allowed <=> IsWithinTimeWindow(now, w)
              /\ IsWithinTimeWindow(now', w) <=> ~IsWithinTimeWindow(now, w)
    BY <1>1, ChangeIsWindow
  <1> DEFINE w == prefs[o].rules[i].timeWindow
             start == MinuteOfDay(w.startHour, w.startMinute)
             end == MinuteOfDay(w.endHour, w.endMinute)
  <1>4. now \in Nat /\ now' = now + 1
    BY <1>1, LimitsAssumption DEF NextBlock, TypeOK
  <1>5. prefs[o].rules[i] \in PreferenceRules
    BY <1>1, <1>2 DEF TypeOK, HumanPreferences
  <1>6. UsableRule(prefs[o].rules[i])
    BY <1>2 DEF LimitsInv, UsableProfile
  <1>7. start \in 0..(Day - 1) /\ end \in 0..(Day - 1) /\ Day \in Int /\ Day > 0
    BY <1>3, <1>5, <1>6, StoredWindowInDay
  <1>8. /\ IsWithinTimeWindow(now, w) /\ ~IsWithinTimeWindow(now + 1, w)
             => (now + 1) % Day = end
        /\ ~IsWithinTimeWindow(now, w) /\ IsWithinTimeWindow(now + 1, w)
             => (now + 1) % Day = start
    BY <1>4, <1>7, WindowTurnsAtBounds
  <1>9. CASE Answer(o, r).allowed
    <2>1. now' % Day = end
      BY <1>3, <1>4, <1>8, <1>9
    <2> QED BY <1>3, <1>9, <2>1
  <1>10. CASE ~Answer(o, r).allowed
    <2>1. now' % Day = start
      BY <1>3, <1>4, <1>8, <1>10
    <2> QED BY <1>3, <1>10, <2>1
  <1> QED BY <1>9, <1>10

(* For every calendar and every stored window: when only time passes, an   *)
(* answer turns at the bounds of the deciding rule's window and at no      *)
(* other minute of any day.                                                *)
THEOREM AnswersTurnAtBounds == Spec => AnswersChangeAtBounds
  <1> DEFINE Turn ==
        \A o \in Owners, r \in Requests :
          (NextBlock /\ Answer(o, r)' # Answer(o, r)) =>
            \E i \in DOMAIN prefs[o].rules :
              LET w == prefs[o].rules[i].timeWindow
              IN  /\ w # None
                  /\ now' % Day = IF Answer(o, r).allowed
                                  THEN MinuteOfDay(w.endHour, w.endMinute)
                                  ELSE MinuteOfDay(w.startHour, w.startMinute)
  <1>1. LimitsInv => [Turn]_vars
    BY ChangeAtBound
  <1> HIDE DEF Turn
  <1>2. Spec => [][Turn]_vars
    BY <1>1, InitLimits, NextLimits, PTL DEF Spec
  <1> QED BY <1>2 DEF AnswersChangeAtBounds, Turn

-----------------------------------------------------------------------------
(* How long a window is open.                                              *)

(* The minutes from a to just before b are b - a.                          *)
LEMMA SpanLength ==
  ASSUME NEW a \in Int, NEW b \in Int, a <= b
  PROVE  IsFiniteSet(a..(b - 1)) /\ Cardinality(a..(b - 1)) = b - a
  <1>1. /\ IsFiniteSet(a..(b - 1))
        /\ Cardinality(a..(b - 1)) = IF a > b - 1 THEN 0 ELSE (b - 1) - a + 1
    BY FS_Interval
  <1> QED BY <1>1

(* A window is open from start to end, around midnight if need be.         *)
LEMMA OpenMinutes ==
  ASSUME NEW w, NEW start \in 0..(Day - 1), NEW end \in 0..(Day - 1),
         Day \in Int, Day > 0,
         start = MinuteOfDay(w.startHour, w.startMinute),
         end = MinuteOfDay(w.endHour, w.endMinute)
  PROVE  Cardinality({m \in 0..(Day - 1) : IsWithinTimeWindow(m, w)}) = WindowLength(w)
  <1> DEFINE open == {m \in 0..(Day - 1) : IsWithinTimeWindow(m, w)}
  <1>1. ASSUME NEW m \in 0..(Day - 1)
        PROVE  IsWithinTimeWindow(m, w) <=>
                 IF start <= end THEN start <= m /\ m < end ELSE start <= m \/ m < end
    <2>1. Day * 0 + m = m
      OBVIOUS
    <2>2. (Day * 0 + m) % Day = m
      BY RemainderOfSum
    <2>3. m % Day = m
      BY <2>1, <2>2
    <2> QED BY <2>3 DEF IsWithinTimeWindow, Day
  <1>2. CASE start <= end
    <2>1. open = start..(end - 1)
      BY <1>1, <1>2
    <2>2. Cardinality(open) = end - start
      <3>1. Cardinality(start..(end - 1)) = end - start
        BY <1>2, SpanLength
      <3> HIDE DEF open
      <3> QED BY <2>1, <3>1
    <2>3. (Day * 0 + (end - start)) % Day = end - start
      BY <1>2, RemainderOfSum
    <2> QED BY <2>2, <2>3 DEF WindowLength
  <1>3. CASE end < start
    <2>1. open = (0..(end - 1)) \cup (start..(Day - 1))
      BY <1>1, <1>3
    <2>2. (0..(end - 1)) \cap (start..(Day - 1)) = {}
      BY <1>3
    <2>3. /\ IsFiniteSet(0..(end - 1)) /\ Cardinality(0..(end - 1)) = end
          /\ IsFiniteSet(start..(Day - 1)) /\ Cardinality(start..(Day - 1)) = Day - start
      BY SpanLength
    <2>4. Cardinality(open) = end + (Day - start)
      <3> DEFINE early == 0..(end - 1)
                 late == start..(Day - 1)
      <3>1. /\ open = early \cup late /\ early \cap late = {}
            /\ IsFiniteSet(early) /\ IsFiniteSet(late)
            /\ Cardinality(early) = end /\ Cardinality(late) = Day - start
        BY <2>1, <2>2, <2>3
      <3> HIDE DEF open, early, late
      <3>2. Cardinality(early \cap late) = 0
        BY <3>1, FS_EmptySet
      <3>3. Cardinality(early \cup late)
              = Cardinality(early) + Cardinality(late) - Cardinality(early \cap late)
        BY <3>1, FS_Union
      <3> QED BY <3>1, <3>2, <3>3
    <2>5. Day * (-1) + (end + (Day - start)) = end - start
          /\ end + (Day - start) \in 0..(Day - 1)
      BY <1>3
    <2>6. (Day * (-1) + (end + (Day - start))) % Day = end + (Day - start)
      BY <2>5, RemainderOfSum
    <2> QED BY <2>4, <2>5, <2>6 DEF WindowLength
  <1> QED BY <1>2, <1>3

(* For every calendar: a stored window is open for exactly the minutes     *)
(* from its start to its end, around midnight too, and never when they are *)
(* equal.                                                                  *)
THEOREM WindowsOpenAsLong == Spec => []WindowsOpenForTheirLength
  <1>1. LimitsInv => WindowsOpenForTheirLength
    <2> SUFFICES ASSUME LimitsInv, NEW o \in Owners, prefs[o] # None,
                        NEW i \in DOMAIN prefs[o].rules,
                        prefs[o].rules[i].timeWindow # None
                 PROVE  Cardinality({m \in 0..(Day - 1) :
                            IsWithinTimeWindow(m, prefs[o].rules[i].timeWindow)})
                          = WindowLength(prefs[o].rules[i].timeWindow)
      BY DEF WindowsOpenForTheirLength
    <2>1. prefs[o].rules[i] \in PreferenceRules
      BY DEF LimitsInv, TypeOK, HumanPreferences
    <2>2. UsableRule(prefs[o].rules[i])
      BY DEF LimitsInv, UsableProfile
    <2> DEFINE w == prefs[o].rules[i].timeWindow
    <2>3. /\ MinuteOfDay(w.startHour, w.startMinute) \in 0..(Day - 1)
          /\ MinuteOfDay(w.endHour, w.endMinute) \in 0..(Day - 1)
          /\ Day \in Int /\ Day > 0
      BY <2>1, <2>2, StoredWindowInDay
    <2> QED BY <2>3, OpenMinutes
  <1> QED BY <1>1, InitLimits, NextLimits, PTL DEF Spec
=============================================================================
