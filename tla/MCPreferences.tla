---------------------------- MODULE MCPreferences ----------------------------
(***************************************************************************)
(* An instance of the SDK's preferences for TLC: one person, two rules, a  *)
(* pattern typed with and without white space around it.                   *)
(***************************************************************************)
EXTENDS Preferences

MCSpam == <<"did:", "evil">>
MCSenders == {MCSpam}
MCPatternInputs == {MCSpam, <<Blank>> \o MCSpam \o <<Blank>>, <<Blank>>}

MCRule(intent) ==
  [senderType |-> ANY, intent |-> intent, allowedChannels |-> <<"Push">>,
   rateLimit |-> None, timeWindow |-> None, blocklist |-> {}]
MCRules == {MCRule("Inform"), MCRule(ANY)}
MCRuleLists == {<<>>, <<MCRule("Inform")>>, <<MCRule("Inform"), MCRule(ANY)>>}

MCRegistrations ==
  {Profile(<<MCRule("Inform"), MCRule(ANY)>>, "Allow", "https://owner")}

MCPatches == {Profile(None, "Block", None), Profile(<<>>, None, "https://owner")}

MCCalls == Permutations(Calls)
=============================================================================
