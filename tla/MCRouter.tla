------------------------------- MODULE MCRouter -------------------------------
(***************************************************************************)
(* Instances of a router node for TLC.                                     *)
(***************************************************************************)
EXTENDS RouterProperties, TLC

MCAnswer(allowed, channels, limit) ==
  [allowed |-> allowed, channels |-> channels, limit |-> limit]

MCNo == MCAnswer(FALSE, <<>>, None)
MCYesNo == {MCNo, MCAnswer(TRUE, <<>>, None)}
MCThreeChannels ==
  {MCAnswer(TRUE, <<"other", "webhook", "agent-inbox">>, None)}
MCLimitedUnreachable ==
  {MCAnswer(TRUE, <<"other">>, [count |-> 1, period |-> 2])}
MCLimited == {MCAnswer(TRUE, <<>>, [count |-> 1, period |-> 2])}

(* created_at before, at and after the router's clock.                     *)
MCSkews == {-1, 0, 1}
MCBehind == {-1}
MCBehindOrNot == {-1, 0}

MCSymmetry == Permutations(Handlers) \cup Permutations(MessageIds)
=============================================================================
