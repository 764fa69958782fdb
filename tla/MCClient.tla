------------------------------- MODULE MCClient -------------------------------
(***************************************************************************)
(* An instance of the SDK's client for TLC.                                *)
(***************************************************************************)
EXTENDS Client

MCMe == <<"did", "chi", "me">>
MCParams(sender, type, to, intent, content, ttl, priority) ==
  [senderDid |-> sender, senderType |-> type, recipientDid |-> to, intent |-> intent,
   content |-> content, ttl |-> ttl, priority |-> priority, replyTo |-> None]

(* A good message, and every way one field of it can be off.               *)
MCGood == MCParams(MCMe, "AA", <<"you">>, <<"inform", "news">>, "text", 2, 128)
MCSendParams ==
  {MCGood, [MCGood EXCEPT !.ttl = 1],
   [MCGood EXCEPT !.senderDid = <<"me">>], [MCGood EXCEPT !.senderDid = <<>>],
   [MCGood EXCEPT !.senderType = "XX"],
   [MCGood EXCEPT !.recipientDid = <<"did", "chi", "you">>],
   [MCGood EXCEPT !.recipientDid = <<"did", "cosmos", "hub", "you">>],
   [MCGood EXCEPT !.intent = <<"inform">>], [MCGood EXCEPT !.intent = <<"greet", "news">>],
   [MCGood EXCEPT !.content = None], [MCGood EXCEPT !.content = "structured"],
   [MCGood EXCEPT !.content = "dated"], [MCGood EXCEPT !.content = "not in JSON"],
   [MCGood EXCEPT !.replyTo = "text"], [MCGood EXCEPT !.replyTo = "no text"],
   [MCGood EXCEPT !.recipientDid = <<>>], [MCGood EXCEPT !.priority = NaN],
   [MCGood EXCEPT !.ttl = 0], [MCGood EXCEPT !.ttl = MAX_TTL],
   [MCGood EXCEPT !.ttl = MAX_TTL + 1],
   [MCGood EXCEPT !.priority = -1], [MCGood EXCEPT !.priority = 0],
   [MCGood EXCEPT !.priority = 255], [MCGood EXCEPT !.priority = 256]}

MCSkews == {-1, 0, 2}
MCRecipients == {<<"did", "chi", "you">>, <<"did", "cosmos", "hub", "you">>}
=============================================================================
