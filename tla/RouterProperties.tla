--------------------------- MODULE RouterProperties ---------------------------
(***************************************************************************)
(* What must hold of a router node and the store together, and what the    *)
(* repository's texts say of them that the code does not do.               *)
(***************************************************************************)
EXTENDS Router

Steps ==
  {"permission", "answered", "limit", "threat", "submit", "preferences",
   "preferred", "deliver", "ack"}

(* Type invariant of the router's own state.                               *)
RouterTypeOK ==
  /\ \A h \in Handlers :
       /\ handler[h].pc \in Steps \cup {"idle", "done", "lost"}
       /\ handler[h].pc = "done" <=> handler[h].response \in Responses
       /\ At(h, "deliver") => handler[h].rest # <<>>
       /\ handler[h].source \in {None, "chain", "cache", "unavailable"}
  /\ \A p \in Pairs : permCache[p] # None =>
       permCache[p].answer \in ChainAnswers /\ permCache[p].expires \in Nat
  /\ \A r \in Recipients : prefCache[r] # None =>
       prefCache[r].url \in Urls \cup {None} /\ prefCache[r].expires \in Nat

(* Withdrawn consent is honoured within the life of one cache entry.  When *)
(* the registry answers, no request goes past the permission step on an    *)
(* answer the registry gave up longer ago than CACHE_TTL plus the time a   *)
(* query is under way, although an answer read before the withdrawal may   *)
(* enter the cache after it, and may overwrite a newer denial.             *)
Granted(h) == ~At(h, "limit") /\ At(h, "limit")'

WithdrawalsAreHonoured ==
  [][\A h \in Handlers :
       Granted(h) /\ handler'[h].source \in {"chain", "cache"} =>
         \/ chain[PairOf(h)].allowed
         \/ now - lastAllowed[PairOf(h)] < CACHE_TTL + MaxLatency]_vars

(* registry.ts caches the endpoints apart from the permission.  Delivery   *)
(* never starts with a webhook its recipient gave up longer ago than that, *)
(* and never with another recipient's.                                     *)
Endpointed(h) == ~At(h, "deliver") /\ At(h, "deliver")'

MovedWebhooksAreLeft ==
  [][\A h \in Handlers :
       LET r == handler[h].recipient
           url == handler'[h].url
       IN  Endpointed(h) /\ url # None =>
             url = webhooks[r] \/ now - lastHeld[<<r, url>>] < CACHE_TTL + MaxLatency]_vars

(* send.ts: "a refused send leaves no row".  A message all of whose sends  *)
(* were refused (400, 403 or 429) has no row, no inbox entry and reached   *)
(* no webhook.                                                             *)
RefusedLeavesNoTrace ==
  \A id \in MessageIds :
    (\A h \in Handlers :
       handler[h].id = id => handler[h].response \in {"400", "403", "429"})
    => messages[id] = None /\ inbox[id] = None /\ posts[id] = 0

(* The count and the write of a send are apart, so the limit of a window   *)
(* can be overshot, but only by sends that overlap.  Of the messages that  *)
(* were created since a window began and counted before it ended, with     *)
(* MaxInFlight handlers at a time at most MaxInFlight - 1 are too many.    *)
(* That holds whichever way created_at lies from the router's clock,       *)
(* whatever fails, is applied late or is changed meanwhile, of every limit *)
(* by itself.  Sends that the code lets through without a count (the       *)
(* registry or the store failed) or that it gave up on (an answer came too *)
(* late) are not among them.                                               *)
CountedSince(pair, limit, w) ==
  {id \in MessageIds :
    /\ messages[id] # None
    /\ <<messages[id].sender, messages[id].recipient>> = pair
    /\ messages[id].createdAt >= w * limit.period
    /\ accepted[id].count # None
    /\ accepted[id].count.limit = limit
    /\ accepted[id].count.window <= w}

OvershootIsBounded ==
  \A p \in Pairs, a \in ChainAnswers : a.limit # None /\ a.limit.period # 0 =>
    \A w \in 0..MaxTime :
      Cardinality(CountedSince(p, a.limit, w)) <= a.limit.count + MaxInFlight - 1

(* An ack or a response that says "delivered" is true: the webhook it      *)
(* names took the message, or the inbox holds an entry, whichever calls    *)
(* failed, were applied late or were overtaken by a crash.                 *)
Reached(id, channel) ==
  /\ channel = "webhook" => posts[id] > 0
  /\ channel = "agent-inbox" => inbox[id] # None
  /\ channel \in {"webhook", "agent-inbox"}

DeliveredMeansReached ==
  /\ \A id \in MessageIds : acks[id] # None /\ acks[id].status = "delivered" =>
       Reached(id, acks[id].channel)
  /\ \A h \in Handlers : handler[h].response = "202 delivered" =>
       Reached(handler[h].id, handler[h].result)

-----------------------------------------------------------------------------
(* The router and the store implement the abstract delivery record: see    *)
(* DeliveryRecord.                                                         *)
Refusals == {"400", "403", "429"}
ReachingChannels == {"webhook", "agent-inbox"}

(* A send that has arrived and was not refused.                            *)
TakenOn(h) == handler[h].pc # "idle" /\ handler[h].response \notin Refusals

Sent == {id \in MessageIds : \E h \in Handlers : handler[h].id = id /\ TakenOn(h)}

OnRecord(ack) ==
  IF ack = None THEN "unrecorded"
  ELSE IF ack.status = "delivered" THEN ack.channel ELSE ack.status

Outcomes == [id \in MessageIds |-> OnRecord(acks[id])]

Carried == [id \in MessageIds |-> {c \in ReachingChannels : Reached(id, c)}]

Told ==
  [id \in MessageIds |->
    {c \in ReachingChannels :
      \E h \in Handlers : /\ handler[h].id = id
                          /\ handler[h].response = "202 delivered"
                          /\ handler[h].result = c}]

D == INSTANCE DeliveryRecord
       WITH Channels <- ReachingChannels, sent <- Sent, outcome <- Outcomes,
            carried <- Carried, told <- Told

(* Whatever fails, is retried, crashes or is applied late, every behaviour *)
(* of router and store is one of DeliveryRecord: no step acts on more than *)
(* one message except the sweep, a record opens once and never turns       *)
(* pending again, a call that is applied late belongs to a send that was   *)
(* not refused, and no record or response names a channel before the       *)
(* message went there.                                                     *)
DeliveryKept == D!Spec

(* A handler neither hangs nor waits for another: every request that is    *)
(* received is answered, unless the process dies.                          *)
EveryRequestIsAnswered ==
  \A h \in Handlers : Running(h) ~> handler[h].pc \in {"done", "lost"}

(* No recorded message stays pending for ever: the handler acks it, or,    *)
(* when its ack is lost or the process dies, the sweep closes it.          *)
EveryMessageIsSettled ==
  \A id \in MessageIds :
    messages[id] # None ~> (acks[id] # None /\ acks[id].status # "pending")

-----------------------------------------------------------------------------
(* spacetime.ts: the count is of the messages "this sender has already had *)
(* accepted for this recipient inside the current fixed rate-limit         *)
(* window", so the messages accepted in a window stay within the limit.    *)
AcceptedInWindow(pair, period, w) ==
  {id \in MessageIds :
    /\ accepted[id] # None
    /\ <<messages[id].sender, messages[id].recipient>> = pair
    /\ accepted[id].at \div period = w}

AcceptedWithinLimit ==
  \A p \in Pairs : chain[p].limit # None =>
    \A w \in 0..MaxTime :
      Cardinality(AcceptedInWindow(p, chain[p].limit.period, w)) <= chain[p].limit.count

=============================================================================
