------------------------------ MODULE MCRegistry ------------------------------
(***************************************************************************)
(* Instances of the registry contract for TLC.                             *)
(***************************************************************************)
EXTENDS RegistryProperties, TLC

MCSpam == <<"did:", "not", "evil", ".", "com">>
MCMail == <<"did:", "mail", ".", "evil", ".", "com">>
MCSenders == {MCSpam, MCMail}

MCExact == MCSpam
MCDomain == <<"*", ".", "evil", ".", "com">>
MCPrefix == <<"did:", "mail", "*">>
MCPatterns == {<<>>, MCExact, MCPrefix}
MCAllPatterns == MCPatterns \cup {<<"*">>, MCDomain}
MCNoPatterns == {<<>>}

MCRule(type, intent, window, patterns) ==
  [senderType |-> type, intent |-> intent, allowedChannels |-> <<"Push">>,
   rateLimit |-> None, timeWindow |-> window, blocklist |-> patterns]

MCWindow(h1, m1, h2, m2) ==
  [startHour |-> h1, startMinute |-> m1, endHour |-> h2, endMinute |-> m2]

(* Two owners: a rule for the whole day, one for part of it that bars a    *)
(* sender itself, and the two kinds of invalid rule.                       *)
MCOpenRule == MCRule("AA", ANY, None, {})
MCDayRule == MCRule(ANY, "Inform", MCWindow(0, 1, 1, 0), {MCExact})
MCZeroRule == [MCOpenRule EXCEPT !.rateLimit = [count |-> 0, period |-> 1]]
MCOwnersRules == {MCOpenRule, MCDayRule, MCZeroRule}
MCOwnersLists ==
  {<<>>, <<MCDayRule>>, <<MCOpenRule, MCZeroRule>>,
   <<MCOpenRule, MCOpenRule, MCDayRule>>}

(* One owner: rules of every tier, and two in each that bar different      *)
(* senders, so that the answer tells which of them decided.                *)
MCTierRules ==
  {MCRule(t, i, None, patterns) :
     t \in {"AA", ANY}, i \in {"Inform", ANY}, patterns \in {{}, {MCExact}}}
MCNoLists == {<<>>}

(* No definition names an owner.                                           *)
MCOwnersAlike == Permutations(Owners)

(* One owner, one rule: every window of the day, and bounds just outside.  *)
MCWindowRules ==
  {MCRule(ANY, ANY, MCWindow(h1, m1, h2, m2), {}) :
     h1 \in 0..HoursPerDay, m1 \in 0..MinutesPerHour,
     h2 \in 0..HoursPerDay, m2 \in 0..MinutesPerHour}
=============================================================================
