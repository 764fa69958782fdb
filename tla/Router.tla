-------------------------------- MODULE Router --------------------------------
(***************************************************************************)
(* A router node: the POST /v1/send handler and the services it awaits     *)
(* (router/router-node/src), composed with the federation store and with   *)
(* the registry as the router sees it.                                     *)
(*                                                                         *)
(* Handlers run concurrently in one process: a handler keeps the processor *)
(* from one await to the next, so an action is the code between two        *)
(* awaits, together with what the awaited service did.  A registry query   *)
(* is read by the chain in one step and used by the handler in a later     *)
(* one; a reducer call that throws (8 s timeout, connection lost) may      *)
(* still be applied by the store at any later time.                        *)
(*                                                                         *)
(* The registry is the abstract one of Consent: an answer per sender and   *)
(* recipient that the recipient may change at any time.  One sender type   *)
(* and one intent stand for all: they are parts of the cache key, as the   *)
(* sender is.                                                              *)
(***************************************************************************)
EXTENDS Store, Sequences

CONSTANTS
  Handlers,        \* the requests of a behaviour, one handler run each
  Skews,           \* how far created_at lies from the router's clock
  Ttls,            \* ttl_seconds of the envelopes
  MAX_SKEW,        \* five minutes: how far created_at may be in the future
  Urls,            \* webhook URLs
  ChainAnswers,    \* answers of check_permission on the chain
  CACHE_TTL,       \* five minutes: life of a cached registry answer
  MaxChanges,      \* bound on changes the recipients make on the chain
  MaxInFlight,     \* bound on handlers running at a time
  MaxLatency,      \* bound on the time a registry query is under way
  MaxCrashes,      \* bound on router crashes
  RegistryFails,   \* TRUE: registry queries may fail
  StoreFails,      \* TRUE: reducer calls may throw
  CountsFail,      \* TRUE: the query that counts messages may throw
  WebhookFails,    \* TRUE: webhook calls may fail or time out
  ThreatHits,      \* TRUE: the threat feed may list a sender
  Bystanders       \* TRUE: heartbeats and inbox readers take part

ChannelNames == {"webhook", "agent-inbox", "other"}
Pairs == Senders \X Recipients
Node == CHOOSE n \in Nodes : TRUE      \* config.node_id
Responses == {"400", "403", "429", "503", "202 delivered", "202 pending", "200 yes", "200 no"}

ASSUME RouterAssumption ==
  /\ Skews \subseteq Int /\ Ttls \subseteq Nat \ {0} /\ MAX_SKEW \in Nat
  /\ CACHE_TTL \in Nat \ {0} /\ MaxChanges \in Nat /\ MaxInFlight \in Nat \ {0}
  /\ MaxLatency \in Nat /\ MaxCrashes \in Nat
  /\ {RegistryFails, StoreFails, CountsFail, WebhookFails, ThreatHits, Bystanders}
       \subseteq BOOLEAN
  /\ Nodes # {} /\ ChannelNames \subseteq CallChannels
  /\ "DELIVERY_ERROR" \in CallErrors /\ None \notin Responses
  /\ \A a \in ChainAnswers :
       /\ a.allowed \in BOOLEAN /\ a.channels \in Seq(ChannelNames)
       /\ a.limit # None => a.limit.count \in Nat /\ a.limit.period \in Nat

VARIABLES
  chain,       \* the registry: <<sender, recipient>> -> its answer
  webhooks,    \* the registry: recipient -> webhook_url, or None
  changes,     \* how often the two have changed
  lastAllowed, \* ghost: last time the registry allowed the pair
  lastHeld,    \* ghost: last time the recipient's webhook was that URL
  permCache,   \* permCache of registry.ts: pair -> answer and expiry
  prefCache,   \* prefCache of registry.ts: recipient -> webhook and expiry
  handler,     \* the handler runs
  late,        \* reducer calls whose caller gave up, still under way
  accepted,    \* ghost: message -> when its row was written, and by what count
  posts,       \* ghost: message -> webhook deliveries the recipient got
  crashes

registryVars == <<chain, webhooks, changes, lastAllowed, lastHeld>>
routerVars == <<permCache, prefCache, handler>>
ghostVars == <<accepted, posts, crashes>>
vars == <<storeVars, registryVars, routerVars, late, ghostVars>>

(* What a handler knows.  `id' is None in a run of check-permission, `url' *)
(* is the endpoint getPreferences returned, `rest' the channels to try;    *)
(* `count' is a ghost: the limit and the window its send was counted in.   *)
NoHandler ==
  [pc |-> "idle", id |-> None, sender |-> None, recipient |-> None,
   createdAt |-> 0, expiresAt |-> 0, answer |-> None, asked |-> 0, count |-> None,
   url |-> None, rest |-> <<>>, result |-> None, source |-> None, response |-> None]

PairOf(h) == <<handler[h].sender, handler[h].recipient>>
Running(h) == handler[h].pc \notin {"idle", "done", "lost"}

Go(h, rec) == handler' = [handler EXCEPT ![h] = rec]
At(h, pc) == handler[h].pc = pc
Move(h, pc) == Go(h, [handler[h] EXCEPT !.pc = pc])

(* The handler returns; its locals are gone.                               *)
Respond(h, code) ==
  Go(h, [NoHandler EXCEPT !.pc = "done", !.response = code, !.id = handler[h].id,
           !.sender = handler[h].sender, !.recipient = handler[h].recipient,
           !.source = handler[h].source, !.result = handler[h].result])

Init ==
  /\ StoreInit
  /\ chain \in [Pairs -> ChainAnswers]
  /\ webhooks \in [Recipients -> Urls \cup {None}]
  /\ changes = 0
  /\ lastAllowed = [p \in Pairs |-> 0]
  /\ lastHeld = [p \in Recipients \X Urls |-> 0]
  /\ permCache = [p \in Pairs |-> None]
  /\ prefCache = [r \in Recipients |-> None]
  /\ handler = [h \in Handlers |-> NoHandler]
  /\ late = {}
  /\ accepted = [id \in MessageIds |-> None]
  /\ posts = [id \in MessageIds |-> 0]
  /\ crashes = 0

-----------------------------------------------------------------------------
(* The request arrives; middleware/validate.ts.  Structural checks are one *)
(* outcome; the two checks against the clock are the code's.               *)

TooLate(created, ttl) == created + ttl <= now
TooEarly(created) == created > now + MAX_SKEW

Receive(h, id, sender, recipient, skew, ttl) ==
  LET created == now + skew
      request == [NoHandler EXCEPT
                    !.id = id, !.sender = sender, !.recipient = recipient,
                    !.createdAt = created, !.expiresAt = created + ttl]
  IN /\ At(h, "idle")
     /\ Cardinality({g \in Handlers : Running(g)}) < MaxInFlight
     /\ TooEarly(created) \/ created + ttl < MaxTime   \* bound: it can run out in time
     /\ IF TooLate(created, ttl) \/ TooEarly(created)
        THEN Go(h, [request EXCEPT !.pc = "done", !.response = "400"])
        ELSE Go(h, [request EXCEPT !.pc = "permission"])
     /\ UNCHANGED <<storeVars, registryVars, permCache, prefCache, late, ghostVars>>

(* POST /v1/check-permission: the first steps of a send, and no more.      *)
CheckArrives(h, pair) ==
  /\ At(h, "idle")
  /\ Cardinality({g \in Handlers : Running(g)}) < MaxInFlight
  /\ Go(h, [NoHandler EXCEPT !.pc = "permission", !.sender = pair[1],
                             !.recipient = pair[2]])
  /\ UNCHANGED <<storeVars, registryVars, permCache, prefCache, late, ghostVars>>

ReceiveMalformed(h) ==
  /\ At(h, "idle")
  /\ Respond(h, "400")
  /\ UNCHANGED <<storeVars, registryVars, permCache, prefCache, late, ghostVars>>

-----------------------------------------------------------------------------
(* Step 4 and 5: registry.ts checkPermission, and the 403 of send.ts.      *)

(* Mutated form: the expiry of a cache entry is not looked at.             *)
FreshForEver(entry) == entry # None

Fresh(entry) == entry # None /\ now < entry.expires

(* Mutated form: an empty list of channels is passed on as it is.          *)
MapChannelsAsTheyAre(channels) == channels

(* mapChannels: an empty list means the agent inbox.                       *)
MapChannels(channels) == IF channels = <<>> THEN <<"agent-inbox">> ELSE channels

Decide(h, answer, source) ==
  IF answer.allowed
  THEN Go(h, [handler[h] EXCEPT
                !.pc = "limit", !.answer = answer, !.source = source, !.asked = 0,
                !.rest = MapChannels(answer.channels)])
  ELSE Respond(h, IF handler[h].id = None THEN "200 no" ELSE "403")

PermissionCached(h) ==
  /\ At(h, "permission")
  /\ Fresh(permCache[PairOf(h)])
  /\ Decide(h, permCache[PairOf(h)].answer, "cache")
  /\ UNCHANGED <<storeVars, registryVars, permCache, prefCache, late, ghostVars>>

(* The chain evaluates the query.                                          *)
AskRegistry(h) ==
  /\ At(h, "permission")
  /\ ~Fresh(permCache[PairOf(h)])
  /\ Go(h, [handler[h] EXCEPT !.pc = "answered", !.answer = chain[PairOf(h)],
                              !.asked = now])
  /\ UNCHANGED <<storeVars, registryVars, permCache, prefCache, late, ghostVars>>

(* The response is back: it is cached from now on, then acted upon.        *)
RegistryAnswers(h) ==
  /\ At(h, "answered")
  /\ permCache' = [permCache EXCEPT ![PairOf(h)] =
                     [answer |-> handler[h].answer, expires |-> now + CACHE_TTL]]
  /\ Decide(h, handler[h].answer, "chain")
  /\ UNCHANGED <<storeVars, registryVars, prefCache, late, ghostVars>>

(* The query fails: the catch block grants, with neither channels nor      *)
(* limit, and caches nothing.                                              *)
UnavailableAnswer == [allowed |-> TRUE, channels |-> <<>>, limit |-> None]

RegistryUnavailable(h) ==
  /\ RegistryFails
  /\ At(h, "permission")
  /\ ~Fresh(permCache[PairOf(h)])
  /\ Decide(h, UnavailableAnswer, "unavailable")
  /\ UNCHANGED <<storeVars, registryVars, permCache, prefCache, late, ghostVars>>

-----------------------------------------------------------------------------
(* Step 5b: rateLimit.ts enforceRateLimit over countMessagesInWindow.      *)

WindowStart(period) == (now \div period) * period

CountInWindow(sender, recipient, period) ==
  Cardinality({id \in MessageIds :
    /\ messages[id] # None
    /\ messages[id].sender = sender /\ messages[id].recipient = recipient
    /\ messages[id].createdAt >= WindowStart(period)})

(* The send goes on, counted against a limit or not (None).                *)
Passes(h, count) ==
  IF handler[h].id = None
  THEN Respond(h, "200 yes")
  ELSE Go(h, [handler[h] EXCEPT !.pc = "threat", !.count = count])

Exceeds(h) == Respond(h, IF handler[h].id = None THEN "200 no" ELSE "429")

CountAgainst(limit) ==
  IF limit = None THEN None ELSE [limit |-> limit, window |-> now \div limit.period]

(* Mutated form: the message that reaches the limit is let through.        *)
EnforceRateLimitOffByOne(h) ==
  LET limit == handler[h].answer.limit
      used == CountInWindow(handler[h].sender, handler[h].recipient, limit.period)
  IN /\ At(h, "limit")
     /\ IF limit = None \/ used <= limit.count
        THEN Passes(h, CountAgainst(limit))
        ELSE Exceeds(h)
     /\ UNCHANGED <<storeVars, registryVars, permCache, prefCache, late, ghostVars>>

EnforceRateLimit(h) ==
  LET limit == handler[h].answer.limit
      malformed == limit.count = 0 \/ limit.period = 0
      used == CountInWindow(handler[h].sender, handler[h].recipient, limit.period)
  IN /\ At(h, "limit")
     /\ IF limit = None \/ (~malformed /\ used < limit.count)
        THEN Passes(h, CountAgainst(limit))
        ELSE Exceeds(h)
     /\ UNCHANGED <<storeVars, registryVars, permCache, prefCache, late, ghostVars>>

(* The count query throws: the send goes on.                               *)
CountFails(h) ==
  /\ CountsFail
  /\ At(h, "limit")
  /\ handler[h].answer.limit # None
  /\ handler[h].answer.limit.count # 0 /\ handler[h].answer.limit.period # 0
  /\ Passes(h, None)
  /\ UNCHANGED <<storeVars, registryVars, permCache, prefCache, late, ghostVars>>

-----------------------------------------------------------------------------
(* Step 6: nullcone.ts checkSender, as send.ts sees it.  Without a feed,   *)
(* and when the feed fails, the sender counts as clean.                    *)

SenderClean(h) ==
  /\ At(h, "threat")
  /\ Move(h, "submit")
  /\ UNCHANGED <<storeVars, registryVars, permCache, prefCache, late, ghostVars>>

(* Mutated form: the threat feed is asked after the message is written.    *)
SenderListedTooLate(h) ==
  /\ ThreatHits
  /\ At(h, "preferences")
  /\ Respond(h, "403")
  /\ UNCHANGED <<storeVars, registryVars, permCache, prefCache, late, ghostVars>>

SenderListed(h) ==
  /\ ThreatHits
  /\ At(h, "threat")
  /\ Respond(h, "403")
  /\ UNCHANGED <<storeVars, registryVars, permCache, prefCache, late, ghostVars>>

-----------------------------------------------------------------------------
(* Step 8: spacetime.ts submitMessage.                                     *)

Row(h) ==
  [sender |-> handler[h].sender, recipient |-> handler[h].recipient,
   createdAt |-> handler[h].createdAt, expiresAt |-> handler[h].expiresAt,
   node |-> Node]

Accepted(id, row, count) ==
  /\ accepted' = IF Accepts(id, row)
                 THEN [accepted EXCEPT ![id] = [at |-> now, count |-> count]]
                 ELSE accepted
  /\ UNCHANGED <<posts, crashes>>

SubmitReturns(h) ==
  /\ At(h, "submit")
  /\ SubmitMessage(handler[h].id, Row(h), None)
  /\ Accepted(handler[h].id, Row(h), handler[h].count)
  /\ Move(h, "preferences")
  /\ UNCHANGED <<registryVars, permCache, prefCache, late>>

SubmitThrows(h) ==
  /\ StoreFails
  /\ At(h, "submit")
  /\ late' = late \cup {[call |-> "submit_message", id |-> handler[h].id, row |-> Row(h)]}
  /\ Respond(h, "503")
  /\ UNCHANGED <<storeVars, registryVars, permCache, prefCache, ghostVars>>

-----------------------------------------------------------------------------
(* registry.ts getPreferences: the endpoints for delivery.  A recipient    *)
(* without a profile is cached as one without a webhook.                   *)

PreferencesCached(h) ==
  /\ At(h, "preferences")
  /\ Fresh(prefCache[handler[h].recipient])
  /\ Go(h, [handler[h] EXCEPT !.pc = "deliver",
                              !.url = prefCache[handler[h].recipient].url])
  /\ UNCHANGED <<storeVars, registryVars, permCache, prefCache, late, ghostVars>>

AskPreferences(h) ==
  /\ At(h, "preferences")
  /\ ~Fresh(prefCache[handler[h].recipient])
  /\ Go(h, [handler[h] EXCEPT !.pc = "preferred", !.asked = now,
                              !.url = webhooks[handler[h].recipient]])
  /\ UNCHANGED <<storeVars, registryVars, permCache, prefCache, late, ghostVars>>

PreferencesAnswer(h) ==
  /\ At(h, "preferred")
  /\ prefCache' = [prefCache EXCEPT ![handler[h].recipient] =
                     [url |-> handler[h].url, expires |-> now + CACHE_TTL]]
  /\ Go(h, [handler[h] EXCEPT !.pc = "deliver", !.asked = 0])
  /\ UNCHANGED <<storeVars, registryVars, permCache, late, ghostVars>>

PreferencesFail(h) ==
  /\ RegistryFails
  /\ At(h, "preferences")
  /\ ~Fresh(prefCache[handler[h].recipient])
  /\ Move(h, "deliver")
  /\ UNCHANGED <<storeVars, registryVars, permCache, prefCache, late, ghostVars>>

-----------------------------------------------------------------------------
(* Step 9: delivery.ts deliver, one channel at a time until one succeeds.  *)

Delivering(h, channel) ==
  At(h, "deliver") /\ handler[h].rest # <<>> /\ Head(handler[h].rest) = channel

Succeed(h, channel) ==
  Go(h, [handler[h] EXCEPT !.pc = "ack", !.result = channel, !.rest = <<>>])

(* Mutated form: nothing ends the loop after the last channel.             *)
TryNextWithoutEnd(h) == Go(h, [handler[h] EXCEPT !.rest = Tail(@)])

(* The next channel, or after the last one the failure of the last one.    *)
TryNext(h) ==
  Go(h, [handler[h] EXCEPT
           !.rest = Tail(@),
           !.pc = IF Tail(handler[h].rest) = <<>> THEN "ack" ELSE "deliver"])

(* push, sms and email have no endpoint in what the contract returns, and  *)
(* in-app has no case; a webhook may be unset.                             *)
NoEndpoint(h) ==
  /\ \/ Delivering(h, "other")
     \/ Delivering(h, "webhook") /\ handler[h].url = None
  /\ TryNext(h)
  /\ UNCHANGED <<storeVars, registryVars, permCache, prefCache, late, ghostVars>>

Posted(id) ==
  posts' = [posts EXCEPT ![id] = @ + 1] /\ UNCHANGED <<accepted, crashes>>

WebhookOk(h) ==
  /\ Delivering(h, "webhook") /\ handler[h].url # None
  /\ Posted(handler[h].id)
  /\ Succeed(h, "webhook")
  /\ UNCHANGED <<storeVars, registryVars, permCache, prefCache, late>>

(* Mutated form: the status of the webhook's answer is not looked at.      *)
WebhookFailedUnnoticed(h) ==
  /\ WebhookFails
  /\ Delivering(h, "webhook") /\ handler[h].url # None
  /\ Posted(handler[h].id) \/ UNCHANGED ghostVars
  /\ Succeed(h, "webhook")
  /\ UNCHANGED <<storeVars, registryVars, permCache, prefCache, late>>

(* An error status or a timeout: the recipient may have got it.            *)
WebhookFailed(h) ==
  /\ WebhookFails
  /\ Delivering(h, "webhook") /\ handler[h].url # None
  /\ Posted(handler[h].id) \/ UNCHANGED ghostVars
  /\ TryNext(h)
  /\ UNCHANGED <<storeVars, registryVars, permCache, prefCache, late>>

InboxOk(h) ==
  /\ Delivering(h, "agent-inbox")
  /\ WriteAgentInbox(handler[h].id, handler[h].recipient, handler[h].sender)
  /\ Succeed(h, "agent-inbox")
  /\ UNCHANGED <<registryVars, permCache, prefCache, late, ghostVars>>

InboxThrows(h) ==
  /\ StoreFails
  /\ Delivering(h, "agent-inbox")
  /\ late' = late \cup {[call |-> "write_agent_inbox", id |-> handler[h].id, row |-> Row(h)]}
  /\ TryNext(h)
  /\ UNCHANGED <<storeVars, registryVars, permCache, prefCache, ghostVars>>

-----------------------------------------------------------------------------
(* Step 10 and 11: the ack, and the response.                              *)

NewStatus(h) == IF handler[h].result = None THEN "failed" ELSE "delivered"
NewError(h) == IF handler[h].result = None THEN "DELIVERY_ERROR" ELSE None
FinalResponse(h) ==
  IF handler[h].result = None THEN "202 pending" ELSE "202 delivered"

AckReturns(h) ==
  /\ At(h, "ack")
  /\ UpdateAck(handler[h].id, NewStatus(h), handler[h].result, NewError(h))
  /\ Respond(h, FinalResponse(h))
  /\ UNCHANGED <<registryVars, permCache, prefCache, late, ghostVars>>

AckThrows(h) ==
  /\ StoreFails
  /\ At(h, "ack")
  /\ late' = late \cup {[call |-> "update_ack", id |-> handler[h].id,
                         status |-> NewStatus(h), channel |-> handler[h].result,
                         error |-> NewError(h)]}
  /\ Respond(h, FinalResponse(h))
  /\ UNCHANGED <<storeVars, registryVars, permCache, prefCache, ghostVars>>

-----------------------------------------------------------------------------
(* Calls the handlers gave up on reach the store after all.                *)

LateCall(c) ==
  /\ c \in late
  /\ late' = late \ {c}
  /\ \/ /\ c.call = "submit_message"
        /\ SubmitMessage(c.id, c.row, None)
        /\ Accepted(c.id, c.row, None)
     \/ /\ c.call = "write_agent_inbox"
        /\ WriteAgentInbox(c.id, c.row.recipient, c.row.sender)
        /\ UNCHANGED ghostVars
     \/ /\ c.call = "update_ack"
        /\ UpdateAck(c.id, c.status, c.channel, c.error)
        /\ UNCHANGED ghostVars
  /\ UNCHANGED <<registryVars, routerVars>>

(* The background timers of spacetime.ts, and the recipient's agent.       *)
Heartbeat ==
  /\ Bystanders
  /\ RegisterNode(Node)
  /\ UNCHANGED <<registryVars, routerVars, late, ghostVars>>

AgentReads(id) ==
  /\ Bystanders
  /\ MarkInboxRead(id)
  /\ UNCHANGED <<registryVars, routerVars, late, ghostVars>>

Sweep == ExpireMessages /\ UNCHANGED <<registryVars, routerVars, late, ghostVars>>

(* The router process dies and is started again: the handlers are gone,    *)
(* and with them the caches.                                               *)
Crash ==
  /\ crashes < MaxCrashes
  /\ crashes' = crashes + 1
  /\ handler' = [h \in Handlers |->
                   IF Running(h) THEN [handler[h] EXCEPT !.pc = "lost"] ELSE handler[h]]
  /\ permCache' = [p \in Pairs |-> None]
  /\ prefCache' = [r \in Recipients |-> None]
  /\ UNCHANGED <<storeVars, registryVars, late, accepted, posts>>

(* The recipient changes its mind, or its rules change with the hour.      *)
ChangeAnswer(pair, answer) ==
  /\ changes < MaxChanges
  /\ answer # chain[pair]
  /\ changes' = changes + 1
  /\ chain' = [chain EXCEPT ![pair] = answer]
  /\ lastAllowed' = [lastAllowed EXCEPT ![pair] = IF chain[pair].allowed THEN now ELSE @]
  /\ UNCHANGED <<storeVars, webhooks, lastHeld, routerVars, late, ghostVars>>

ChangeWebhook(recipient, url) ==
  /\ changes < MaxChanges
  /\ url # webhooks[recipient]
  /\ changes' = changes + 1
  /\ webhooks' = [webhooks EXCEPT ![recipient] = url]
  /\ lastHeld' = [p \in Recipients \X Urls |->
                    IF p = <<recipient, webhooks[recipient]>> THEN now ELSE lastHeld[p]]
  /\ UNCHANGED <<storeVars, chain, lastAllowed, routerVars, late, ghostVars>>

(* Time passes, but no registry query is under way for ever.               *)
Clock ==
  /\ Tick
  /\ \A h \in Handlers :
       handler[h].pc \in {"answered", "preferred"} => now - handler[h].asked < MaxLatency
  /\ UNCHANGED <<registryVars, routerVars, late, ghostVars>>

-----------------------------------------------------------------------------
Handle(h) ==
  \/ PermissionCached(h) \/ AskRegistry(h) \/ RegistryAnswers(h)
  \/ RegistryUnavailable(h)
  \/ EnforceRateLimit(h) \/ CountFails(h)
  \/ SenderClean(h) \/ SenderListed(h)
  \/ SubmitReturns(h) \/ SubmitThrows(h)
  \/ PreferencesCached(h) \/ AskPreferences(h) \/ PreferencesAnswer(h)
  \/ PreferencesFail(h)
  \/ NoEndpoint(h) \/ WebhookOk(h) \/ WebhookFailed(h) \/ InboxOk(h) \/ InboxThrows(h)
  \/ AckReturns(h) \/ AckThrows(h)

Arrive(h) ==
  \/ \E id \in MessageIds, pair \in Pairs, skew \in Skews, ttl \in Ttls :
       Receive(h, id, pair[1], pair[2], skew, ttl)
  \/ \E pair \in Pairs : CheckArrives(h, pair)
  \/ ReceiveMalformed(h)

Environment ==
  \/ \E c \in late : LateCall(c)
  \/ \E id \in MessageIds : AgentReads(id)
  \/ \E pair \in Pairs, answer \in ChainAnswers : ChangeAnswer(pair, answer)
  \/ \E r \in Recipients, url \in Urls \cup {None} : ChangeWebhook(r, url)
  \/ Heartbeat \/ Sweep \/ Crash \/ Clock

Next == (\E h \in Handlers : Arrive(h) \/ Handle(h)) \/ Environment

Spec == Init /\ [][Next]_vars

(* Every await ends: the store, the threat feed and the webhook are called *)
(* with a timeout, and the registry query, which has none in the code, is  *)
(* assumed to be answered or broken off by the RPC node.  The sweep timer  *)
(* fires for ever, and time goes on.  Nothing is assumed of senders,       *)
(* recipients, late calls or crashes.                                      *)
FairSpec ==
  /\ Spec
  /\ \A h \in Handlers : WF_vars(Handle(h))
  /\ WF_vars(Sweep) /\ WF_vars(Clock)
=============================================================================
