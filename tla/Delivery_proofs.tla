---------------------------- MODULE Delivery_proofs ----------------------------
(***************************************************************************)
(* Proofs about what a send leaves behind, for any number of handlers and  *)
(* messages, any failing services, any calls applied late or never and any *)
(* crashes: a refused send leaves nothing, "delivered" is true, and every  *)
(* behaviour is one of the abstract delivery record.                       *)
(***************************************************************************)
EXTENDS Router_proofs, Store_proofs

-----------------------------------------------------------------------------
(* The store and the calls under way, as the router leaves them.           *)

WriteCalls ==
  [call : {"submit_message", "write_agent_inbox"}, id : MessageIds, row : Messages]
AckCalls ==
  [call : {"update_ack"}, id : MessageIds, status : {"failed", "delivered"},
   channel : Plus(ChannelNames), error : {"DELIVERY_ERROR", None}]

DeliveryTyped ==
  /\ StoreTypeOK
  /\ late \subseteq WriteCalls \cup AckCalls
  /\ posts \in [MessageIds -> Nat]

(* What the router says of a message when it says "delivered".             *)
TrueOf(id, status, channel) == status = "delivered" => Reached(id, channel)

OutcomeKept(h) ==
  /\ handler[h].result # None =>
       handler[h].id \in MessageIds /\ Reached(handler[h].id, handler[h].result)
  /\ handler[h].response = "202 delivered" => handler[h].result # None

(* Every claim of a delivery, wherever it is kept, is true: in a row of    *)
(* acks, in a handler, in a response, in a call that may be applied later. *)
ClaimsTrue ==
  /\ \A id \in MessageIds :
       acks[id] # None => TrueOf(id, acks[id].status, acks[id].channel)
  /\ \A h \in Handlers : OutcomeKept(h)
  /\ \A c \in late : c.call = "update_ack" => TrueOf(c.id, c.status, c.channel)

(* A handler that writes knows its message and the row of it.              *)
LEMMA WriterKnows ==
  ASSUME RouterTyped, NEW h \in Handlers,
         handler[h].pc \in {"submit", "deliver", "ack"}
  PROVE  /\ handler[h].id \in MessageIds /\ Row(h) \in Messages
         /\ handler[h].sender \in Senders /\ handler[h].recipient \in Recipients
         /\ handler[h].result \in Plus(ChannelNames)
  <1>1. handler[h] \in HandlerStates /\ Coherent(handler[h])
    BY Known
  <1>2. handler[h].sender \in Senders /\ handler[h].recipient \in Recipients
    BY PairKnown DEF Steps
  <1>3. handler[h].id \in MessageIds
    BY <1>1 DEF Coherent
  <1>4. Node \in Nodes
    BY RouterAssumption DEF Node
  <1>5. /\ handler[h].createdAt \in Int /\ handler[h].expiresAt \in Int
        /\ handler[h].result \in Plus(ChannelNames)
    BY <1>1 DEF HandlerStates
  <1> QED BY <1>2, <1>3, <1>4, <1>5 DEF Row, Messages

(* The outcome that a handler puts into its ack is true.                   *)
LEMMA OutcomeTrue ==
  ASSUME RouterTyped, ClaimsTrue, NEW h \in Handlers, handler[h].pc = "ack"
  PROVE  /\ NewStatus(h) \in {"failed", "delivered"}
         /\ NewError(h) \in {"DELIVERY_ERROR", None}
         /\ TrueOf(handler[h].id, NewStatus(h), handler[h].result)
  BY DEF NewStatus, NewError, ClaimsTrue, OutcomeKept, TrueOf

-----------------------------------------------------------------------------
(* A step of the router as the store sees it.                              *)

TrueAck ==
  \E id \in MessageIds, status \in {"failed", "delivered"},
     channel \in Plus(ChannelNames), error \in {"DELIVERY_ERROR", None} :
    UpdateAck(id, status, channel, error) /\ TrueOf(id, status, channel)

InboxCall ==
  \E id \in MessageIds :
    \/ \E r \in Recipients, s \in Senders : WriteAgentInbox(id, r, s)
    \/ MarkInboxRead(id)

StoreStep ==
  \/ UNCHANGED storeVars
  \/ \E id \in MessageIds, m \in Messages : InsertMessage(id, m, None)
  \/ TrueAck
  \/ InboxCall
  \/ RegisterNode(Node)
  \/ ExpireMessages
  \/ Tick

LEMMA HandlerStoreStep ==
  ASSUME RouterTyped, ClaimsTrue, NEW h \in Handlers, Arrive(h) \/ Handle(h)
  PROVE  StoreStep
  <1>1. CASE Arrive(h)
    BY <1>1 DEF Arrive, Receive, CheckArrives, ReceiveMalformed, StoreStep
  <1>2. CASE \/ PermissionCached(h) \/ AskRegistry(h) \/ RegistryAnswers(h)
             \/ RegistryUnavailable(h) \/ EnforceRateLimit(h) \/ CountFails(h)
             \/ SenderClean(h) \/ SenderListed(h)
    BY <1>2 DEF PermissionCached, AskRegistry, RegistryAnswers, RegistryUnavailable,
                EnforceRateLimit, CountFails, SenderClean, SenderListed, StoreStep
  <1>3. CASE \/ SubmitThrows(h) \/ PreferencesCached(h)
             \/ AskPreferences(h) \/ PreferencesAnswer(h) \/ PreferencesFail(h)
    BY <1>3 DEF SubmitThrows, PreferencesCached, AskPreferences, PreferencesAnswer,
                PreferencesFail, StoreStep
  <1>4. CASE NoEndpoint(h) \/ WebhookOk(h) \/ WebhookFailed(h) \/ InboxThrows(h) \/ AckThrows(h)
    BY <1>4 DEF NoEndpoint, WebhookOk, WebhookFailed, InboxThrows, AckThrows, StoreStep
  <1>5. CASE SubmitReturns(h)
    <2>1. handler[h].id \in MessageIds /\ Row(h) \in Messages
      BY <1>5, WriterKnows DEF SubmitReturns, At
    <2> QED BY <1>5, <2>1 DEF SubmitReturns, SubmitMessage, StoreStep
  <1>6. CASE InboxOk(h)
    <2>1. /\ handler[h].id \in MessageIds
          /\ handler[h].sender \in Senders /\ handler[h].recipient \in Recipients
      BY <1>6, WriterKnows DEF InboxOk, Delivering, At
    <2> QED BY <1>6, <2>1 DEF InboxOk, InboxCall, StoreStep
  <1>7. CASE AckReturns(h)
    <2>1. handler[h].id \in MessageIds /\ handler[h].result \in Plus(ChannelNames)
      BY <1>7, WriterKnows DEF AckReturns, At
    <2>2. UpdateAck(handler[h].id, NewStatus(h), handler[h].result, NewError(h))
      BY <1>7 DEF AckReturns
    <2>3. /\ NewStatus(h) \in {"failed", "delivered"}
          /\ NewError(h) \in {"DELIVERY_ERROR", None}
          /\ TrueOf(handler[h].id, NewStatus(h), handler[h].result)
      BY <1>7, OutcomeTrue DEF AckReturns, At
    <2> QED BY <2>1, <2>2, <2>3 DEF TrueAck, StoreStep
  <1> QED BY <1>1, <1>2, <1>3, <1>4, <1>5, <1>6, <1>7 DEF Handle

LEMMA LateStoreStep ==
  ASSUME DeliveryTyped, ClaimsTrue, NEW c \in late, LateCall(c)
  PROVE  StoreStep
  <1>1. c \in WriteCalls \cup AckCalls
    BY DEF DeliveryTyped
  <1>2. CASE c.call = "submit_message"
    <2>1. c \in WriteCalls
      BY <1>1, <1>2 DEF AckCalls
    <2>2. c.id \in MessageIds /\ c.row \in Messages
      BY <2>1 DEF WriteCalls
    <2>3. SubmitMessage(c.id, c.row, None)
      BY <1>2 DEF LateCall
    <2> QED BY <2>2, <2>3 DEF SubmitMessage, StoreStep
  <1>3. CASE c.call = "write_agent_inbox"
    <2>1. c \in WriteCalls
      BY <1>1, <1>3 DEF AckCalls
    <2>2. c.id \in MessageIds /\ c.row.recipient \in Recipients /\ c.row.sender \in Senders
      BY <2>1 DEF WriteCalls, Messages
    <2>3. WriteAgentInbox(c.id, c.row.recipient, c.row.sender)
      BY <1>3 DEF LateCall
    <2> QED BY <2>2, <2>3 DEF InboxCall, StoreStep
  <1>4. CASE c.call = "update_ack"
    <2>1. c \in AckCalls
      BY <1>1, <1>4 DEF WriteCalls
    <2>2. /\ c.id \in MessageIds /\ c.status \in {"failed", "delivered"}
          /\ c.channel \in Plus(ChannelNames) /\ c.error \in {"DELIVERY_ERROR", None}
      BY <2>1 DEF AckCalls
    <2>3. UpdateAck(c.id, c.status, c.channel, c.error) /\ TrueOf(c.id, c.status, c.channel)
      BY <1>4 DEF LateCall, ClaimsTrue
    <2> QED BY <2>2, <2>3 DEF TrueAck, StoreStep
  <1> QED BY <1>2, <1>3, <1>4 DEF LateCall

LEMMA AnyStoreStep ==
  ASSUME RouterTyped, DeliveryTyped, ClaimsTrue, [Next]_vars
  PROVE  StoreStep
  <1>1. CASE UNCHANGED vars
    BY <1>1 DEF vars, StoreStep
  <1>2. ASSUME NEW c \in late, LateCall(c) PROVE StoreStep
    BY <1>2, LateStoreStep
  <1>3. CASE \/ \E pair \in Pairs, answer \in ChainAnswers : ChangeAnswer(pair, answer)
             \/ \E r \in Recipients, url \in Urls \cup {None} : ChangeWebhook(r, url)
             \/ Crash
    BY <1>3 DEF ChangeAnswer, ChangeWebhook, Crash, StoreStep
  <1>4. CASE (\E id \in MessageIds : AgentReads(id)) \/ Heartbeat \/ Sweep \/ Clock
    BY <1>4 DEF AgentReads, Heartbeat, Sweep, Clock, InboxCall, StoreStep
  <1>5. CASE Environment
    BY <1>2, <1>3, <1>4, <1>5 DEF Environment
  <1> QED BY <1>1, <1>5, HandlerStoreStep DEF Next

-----------------------------------------------------------------------------
(* The store's types, in the router's steps.                               *)

LEMMA StoreStepTyped ==
  ASSUME StoreTypeOK, StoreStep
  PROVE  StoreTypeOK'
  <1>1. CASE UNCHANGED storeVars
    BY <1>1 DEF StoreTypeOK, storeVars, tables
  <1>2. ASSUME NEW id \in MessageIds, NEW m \in Messages, InsertMessage(id, m, None)
        PROVE  StoreTypeOK'
    BY <1>2, InsertTyped
  <1>3. CASE TrueAck
    <2>1. PICK id \in MessageIds, status \in {"failed", "delivered"},
               channel \in Plus(ChannelNames), error \in {"DELIVERY_ERROR", None} :
            UpdateAck(id, status, channel, error)
      BY <1>3 DEF TrueAck
    <2>2. channel \in CallChannels \cup {None} /\ error \in CallErrors \cup {None}
      BY RouterAssumption DEF Plus
    <2> QED BY <2>1, <2>2, UpdateAckTyped
  <1>4. CASE InboxCall
    BY <1>4, SmallReducersTyped DEF InboxCall, AnyInboxCall
  <1>5. CASE RegisterNode(Node)
    <2>1. Node \in Nodes
      BY RouterAssumption DEF Node
    <2> QED BY <1>5, <2>1, SmallReducersTyped
  <1>6. CASE ExpireMessages
    BY <1>6, ExpireTyped
  <1>7. CASE Tick
    BY <1>7, SmallReducersTyped
  <1> QED BY <1>1, <1>2, <1>3, <1>4, <1>5, <1>6, <1>7 DEF StoreStep

(* No message leaves the table, no entry the inbox.                        *)
LEMMA RowsStay ==
  ASSUME StoreTypeOK, StoreStep, NEW id \in MessageIds
  PROVE  /\ messages[id] # None => messages'[id] # None
         /\ inbox[id] # None => inbox'[id] # None
  <1>1. CASE UNCHANGED storeVars \/ ExpireMessages \/ RegisterNode(Node) \/ Tick \/ TrueAck
    BY <1>1 DEF storeVars, tables, ExpireMessages, RegisterNode, Tick, TrueAck, UpdateAck
  <1>2. ASSUME NEW i \in MessageIds, NEW m \in Messages, InsertMessage(i, m, None)
        PROVE  /\ messages[id] # None => messages'[id] # None
               /\ inbox[id] # None => inbox'[id] # None
    BY <1>2 DEF InsertMessage, Accepts, StoreTypeOK
  <1>3. CASE InboxCall
    <2>1. messages' = messages
      BY <1>3 DEF InboxCall, WriteAgentInbox, MarkInboxRead
    <2>2. inbox' \in [MessageIds -> InboxEntries \cup {None}] /\ None \notin InboxEntries
      BY StoreStepTyped, StoreAssumption DEF StoreTypeOK
    <2>3. ASSUME NEW i \in MessageIds, NEW r \in Recipients, NEW s \in Senders,
                 WriteAgentInbox(i, r, s), inbox[id] # None
          PROVE  inbox'[id] # None
      BY <2>3 DEF WriteAgentInbox, StoreTypeOK
    <2>4. ASSUME NEW i \in MessageIds, MarkInboxRead(i), inbox[id] # None
          PROVE  inbox'[id] # None
      <3>1. [inbox[i] EXCEPT !.read = TRUE] \in InboxEntries
        BY <2>4 DEF MarkInboxRead, StoreTypeOK, InboxEntries
      <3> QED BY <2>2, <2>4, <3>1 DEF MarkInboxRead, StoreTypeOK
    <2> QED BY <1>3, <2>1, <2>3, <2>4 DEF InboxCall
  <1> QED BY <1>1, <1>2, <1>3 DEF StoreStep

-----------------------------------------------------------------------------
(* What a handler's step does to its own outcome and to what others see.   *)

(* The calls under way after a step of h: one more, of h's own message.    *)
LateFrame(h) ==
  \/ late' = late
  \/ /\ SubmitThrows(h) \/ InboxThrows(h)
     /\ \E c \in WriteCalls : c.id = handler[h].id /\ late' = late \cup {c}
  \/ /\ AckThrows(h)
     /\ \E c \in AckCalls :
          /\ c.id = handler[h].id /\ late' = late \cup {c}
          /\ TrueOf(c.id, c.status, c.channel)

PostFrame(h) ==
  \/ posts' = posts
  \/ /\ WebhookOk(h) \/ WebhookFailed(h)
     /\ posts' = [posts EXCEPT ![handler[h].id] = @ + 1]

LEMMA LateFrames ==
  ASSUME RouterTyped, ClaimsTrue, NEW h \in Handlers, Arrive(h) \/ Handle(h)
  PROVE  LateFrame(h)
  <1>1. CASE Arrive(h)
    BY <1>1 DEF Arrive, Receive, CheckArrives, ReceiveMalformed, LateFrame
  <1>2. CASE \/ PermissionCached(h) \/ AskRegistry(h) \/ RegistryAnswers(h)
             \/ RegistryUnavailable(h) \/ EnforceRateLimit(h) \/ CountFails(h)
             \/ SenderClean(h) \/ SenderListed(h)
    BY <1>2 DEF PermissionCached, AskRegistry, RegistryAnswers, RegistryUnavailable,
                EnforceRateLimit, CountFails, SenderClean, SenderListed, LateFrame
  <1>3. CASE \/ SubmitReturns(h) \/ PreferencesCached(h) \/ AskPreferences(h)
             \/ PreferencesAnswer(h) \/ PreferencesFail(h)
    BY <1>3 DEF SubmitReturns, PreferencesCached, AskPreferences, PreferencesAnswer,
                PreferencesFail, LateFrame
  <1>4. CASE NoEndpoint(h) \/ WebhookOk(h) \/ WebhookFailed(h) \/ InboxOk(h) \/ AckReturns(h)
    BY <1>4 DEF NoEndpoint, WebhookOk, WebhookFailed, InboxOk, AckReturns, LateFrame
  <1>5. CASE SubmitThrows(h)
    <2> DEFINE c == [call |-> "submit_message", id |-> handler[h].id, row |-> Row(h)]
    <2>1. handler[h].id \in MessageIds /\ Row(h) \in Messages
      BY <1>5, WriterKnows DEF SubmitThrows, At
    <2>2. c \in WriteCalls /\ c.id = handler[h].id
      BY <2>1 DEF WriteCalls
    <2>3. late' = late \cup {c}
      BY <1>5 DEF SubmitThrows
    <2> HIDE DEF c
    <2> QED BY <1>5, <2>2, <2>3 DEF LateFrame
  <1>6. CASE InboxThrows(h)
    <2> DEFINE c == [call |-> "write_agent_inbox", id |-> handler[h].id, row |-> Row(h)]
    <2>1. handler[h].id \in MessageIds /\ Row(h) \in Messages
      BY <1>6, WriterKnows DEF InboxThrows, Delivering, At
    <2>2. c \in WriteCalls /\ c.id = handler[h].id
      BY <2>1 DEF WriteCalls
    <2>3. late' = late \cup {c}
      BY <1>6 DEF InboxThrows
    <2> HIDE DEF c
    <2> QED BY <1>6, <2>2, <2>3 DEF LateFrame
  <1>7. CASE AckThrows(h)
    <2> DEFINE c == [call |-> "update_ack", id |-> handler[h].id,
                     status |-> NewStatus(h), channel |-> handler[h].result,
                     error |-> NewError(h)]
    <2>1. handler[h].id \in MessageIds /\ handler[h].result \in Plus(ChannelNames)
      BY <1>7, WriterKnows DEF AckThrows, At
    <2>2. /\ NewStatus(h) \in {"failed", "delivered"}
          /\ NewError(h) \in {"DELIVERY_ERROR", None}
          /\ TrueOf(handler[h].id, NewStatus(h), handler[h].result)
      BY <1>7, OutcomeTrue DEF AckThrows, At
    <2>3. c \in AckCalls /\ c.id = handler[h].id
      BY <2>1, <2>2 DEF AckCalls
    <2>4. TrueOf(c.id, c.status, c.channel)
      BY <2>2
    <2>5. late' = late \cup {c}
      BY <1>7 DEF AckThrows
    <2> HIDE DEF c
    <2> QED BY <1>7, <2>3, <2>4, <2>5 DEF LateFrame
  <1> QED BY <1>1, <1>2, <1>3, <1>4, <1>5, <1>6, <1>7 DEF Handle

LEMMA PostFrames ==
  ASSUME NEW h \in Handlers, Arrive(h) \/ Handle(h)
  PROVE  PostFrame(h)
  <1> USE DEF ghostVars
  <1>1. CASE Arrive(h)
    BY <1>1 DEF Arrive, Receive, CheckArrives, ReceiveMalformed, PostFrame
  <1>2. CASE \/ PermissionCached(h) \/ AskRegistry(h) \/ RegistryAnswers(h)
             \/ RegistryUnavailable(h) \/ EnforceRateLimit(h) \/ CountFails(h)
             \/ SenderClean(h) \/ SenderListed(h)
    BY <1>2 DEF PermissionCached, AskRegistry, RegistryAnswers, RegistryUnavailable,
                EnforceRateLimit, CountFails, SenderClean, SenderListed, PostFrame
  <1>3. CASE \/ SubmitReturns(h) \/ SubmitThrows(h) \/ PreferencesCached(h)
             \/ AskPreferences(h) \/ PreferencesAnswer(h) \/ PreferencesFail(h)
    BY <1>3 DEF SubmitReturns, SubmitThrows, PreferencesCached, AskPreferences,
                PreferencesAnswer, PreferencesFail, Accepted, PostFrame
  <1>4. CASE WebhookOk(h) \/ WebhookFailed(h)
    BY <1>4 DEF WebhookOk, WebhookFailed, Posted, PostFrame
  <1>5. CASE NoEndpoint(h) \/ InboxOk(h) \/ InboxThrows(h) \/ AckReturns(h) \/ AckThrows(h)
    BY <1>5 DEF NoEndpoint, InboxOk, InboxThrows, AckReturns, AckThrows, PostFrame
  <1> QED BY <1>1, <1>2, <1>3, <1>4, <1>5 DEF Handle

(* The others neither start a call nor reach a webhook.                    *)
LEMMA OthersFrame ==
  ASSUME Environment
  PROVE  late' \subseteq late /\ posts' = posts
  <1> USE DEF ghostVars
  <1>1. ASSUME NEW c \in late, LateCall(c) PROVE late' \subseteq late /\ posts' = posts
    BY <1>1 DEF LateCall, Accepted
  <1>2. CASE \/ \E pair \in Pairs, answer \in ChainAnswers : ChangeAnswer(pair, answer)
             \/ \E r \in Recipients, url \in Urls \cup {None} : ChangeWebhook(r, url)
             \/ Crash
    BY <1>2 DEF ChangeAnswer, ChangeWebhook, Crash
  <1>3. CASE (\E id \in MessageIds : AgentReads(id)) \/ Heartbeat \/ Sweep \/ Clock
    BY <1>3 DEF AgentReads, Heartbeat, Sweep, Clock
  <1> QED BY <1>1, <1>2, <1>3 DEF Environment

LEMMA DeliveryStepTyped ==
  ASSUME RouterTyped, DeliveryTyped, ClaimsTrue, [Next]_vars
  PROVE  DeliveryTyped'
  <1>1. StoreTypeOK'
    BY AnyStoreStep, StoreStepTyped DEF DeliveryTyped
  <1>2. late' \subseteq WriteCalls \cup AckCalls /\ posts' \in [MessageIds -> Nat]
    <2>1. CASE UNCHANGED vars
      BY <2>1 DEF vars, ghostVars, DeliveryTyped
    <2>2. CASE Environment
      BY <2>2, OthersFrame DEF DeliveryTyped
    <2>3. ASSUME NEW h \in Handlers, Arrive(h) \/ Handle(h)
          PROVE  late' \subseteq WriteCalls \cup AckCalls /\ posts' \in [MessageIds -> Nat]
      <3>1. late' \subseteq WriteCalls \cup AckCalls
        BY <2>3, LateFrames DEF LateFrame, DeliveryTyped
      <3>2. posts' \in [MessageIds -> Nat]
        BY <2>3, PostFrames DEF PostFrame, DeliveryTyped
      <3> QED BY <3>1, <3>2
    <2> QED BY <2>1, <2>2, <2>3 DEF Next
  <1> QED BY <1>1, <1>2 DEF DeliveryTyped

(* What is true of a delivery stays true.                                  *)
LEMMA ReachedStays ==
  ASSUME RouterTyped, DeliveryTyped, ClaimsTrue, [Next]_vars,
         NEW id \in MessageIds, NEW channel, Reached(id, channel)
  PROVE  Reached(id, channel)'
  <1>1. inbox[id] # None => inbox'[id] # None
    BY AnyStoreStep, RowsStay DEF DeliveryTyped
  <1>2. posts[id] > 0 => posts'[id] > 0
    <2>1. CASE UNCHANGED vars \/ Environment
      BY <2>1, OthersFrame DEF vars, ghostVars
    <2>2. ASSUME NEW h \in Handlers, Arrive(h) \/ Handle(h)
          PROVE  posts[id] > 0 => posts'[id] > 0
      BY <2>2, PostFrames DEF PostFrame, DeliveryTyped
    <2> QED BY <2>1, <2>2 DEF Next
  <1> QED BY <1>1, <1>2 DEF Reached

-----------------------------------------------------------------------------
(* A step of a handler and the outcome it knows.                           *)

(* A send past the write: it is being delivered, was lost after it, or was *)
(* answered with neither 400, 403 nor 429.                                 *)
Wrote(h) ==
  \/ handler[h].pc \in {"preferences", "preferred", "deliver", "ack", "lost"}
  \/ handler[h].pc = "done" /\ handler[h].response \notin Refusals

Outcome(h) ==
  /\ \A g \in Handlers \ {h} : handler'[g] = handler[g]
  /\ handler'[h].id = handler[h].id
  /\ \/ handler'[h].result = handler[h].result
     \/ WebhookOk(h) /\ handler'[h].result = "webhook"
     \/ InboxOk(h) /\ handler'[h].result = "agent-inbox"
  /\ handler'[h].response = "202 delivered" =>
       handler[h].response = "202 delivered" \/ handler'[h].result # None
  /\ handler[h].pc \in {"submit", "preferences", "preferred", "deliver", "ack"} => Wrote(h)'

LEMMA HandleOutcome ==
  ASSUME RouterTyped, NEW h \in Handlers, Handle(h)
  PROVE  Outcome(h)
  <1>0. handler[h] \in HandlerStates
    BY Known
  <1>1. CASE PermissionCached(h) \/ RegistryAnswers(h) \/ RegistryUnavailable(h)
    <2>1. handler[h].pc \in {"permission", "answered"}
      BY <1>1 DEF PermissionCached, RegistryAnswers, RegistryUnavailable, At
    <2>2. \E answer, source : Decide(h, answer, source)
      BY <1>1 DEF PermissionCached, RegistryAnswers, RegistryUnavailable
    <2> QED BY <2>1, <2>2, DecideMeans DEF Outcome
  <1>2. CASE AskRegistry(h)
    <2> DEFINE rec == [handler[h] EXCEPT !.pc = "answered", !.answer = chain[PairOf(h)],
                                         !.asked = now]
    <2>1. /\ rec.id = handler[h].id /\ rec.result = handler[h].result
          /\ rec.response = handler[h].response
      BY <1>0 DEF HandlerStates
    <2> HIDE DEF rec
    <2>2. handler'[h] = rec /\ \A g \in Handlers \ {h} : handler'[g] = handler[g]
      BY <1>2, GoMeans DEF AskRegistry, rec
    <2>3. handler[h].pc = "permission"
      BY <1>2 DEF AskRegistry, At
    <2> QED BY <2>1, <2>2, <2>3 DEF Outcome
  <1>3. CASE SenderClean(h) \/ SenderListed(h)
    <2>1. Respond(h, "403") \/ Move(h, "submit")
      BY <1>3 DEF SenderClean, SenderListed
    <2>2. handler[h].pc = "threat"
      BY <1>3 DEF SenderClean, SenderListed, At
    <2> QED BY <2>1, <2>2, RespondMeans, MoveMeans DEF Outcome
  <1>11. CASE EnforceRateLimit(h) \/ CountFails(h)
    <2>1. handler[h].pc = "limit"
      BY <1>11, LimitPasses DEF At
    <2>2. ASSUME NEW code \in {"200 yes", "200 no", "429"}, Respond(h, code)
          PROVE  Outcome(h)
      BY <2>1, <2>2, RespondMeans DEF Outcome
    <2>3. ASSUME NEW count, Passes(h, count) PROVE Outcome(h)
      BY <2>1, <2>2, <2>3, PassesMeans DEF PassedLimit, Outcome
    <2> QED BY <1>11, <2>2, <2>3, LimitPasses DEF Exceeds
  <1>4. CASE SubmitReturns(h)
    BY <1>4, MoveMeans DEF SubmitReturns, Outcome, Wrote
  <1>5. CASE SubmitThrows(h)
    <2>1. Respond(h, "503")
      BY <1>5 DEF SubmitThrows
    <2>2. /\ \A g \in Handlers \ {h} : handler'[g] = handler[g]
          /\ handler'[h].id = handler[h].id /\ handler'[h].result = handler[h].result
          /\ handler'[h].response = "503" /\ handler'[h].pc = "done"
      BY <2>1, RespondMeans
    <2> QED BY <2>2 DEF Outcome, Wrote, Refusals
  <1>6. CASE \/ PreferencesCached(h) \/ AskPreferences(h) \/ PreferencesAnswer(h)
             \/ PreferencesFail(h)
    <2>1. /\ \A g \in Handlers \ {h} : handler'[g] = handler[g]
          /\ handler'[h].id = handler[h].id /\ handler'[h].result = handler[h].result
          /\ handler'[h].response = handler[h].response
          /\ handler'[h].pc \in {"deliver", "preferred"}
      BY <1>6, PreferencesMean
    <2> QED BY <2>1 DEF Outcome, Wrote
  <1>7. CASE NoEndpoint(h) \/ WebhookFailed(h) \/ InboxThrows(h)
    BY <1>7, TryNextMeans DEF NoEndpoint, WebhookFailed, InboxThrows, Outcome, Wrote
  <1>8. CASE WebhookOk(h)
    BY <1>8, SucceedMeans DEF WebhookOk, Outcome, Wrote
  <1>9. CASE InboxOk(h)
    BY <1>9, SucceedMeans DEF InboxOk, Outcome, Wrote
  <1>10. CASE AckReturns(h) \/ AckThrows(h)
    <2>1. Respond(h, FinalResponse(h))
      BY <1>10 DEF AckReturns, AckThrows
    <2>2. /\ FinalResponse(h) \notin Refusals
          /\ FinalResponse(h) = "202 delivered" => handler[h].result # None
      BY DEF FinalResponse, Refusals
    <2> QED BY <2>1, <2>2, RespondMeans DEF Outcome, Wrote
  <1> QED BY <1>1, <1>2, <1>3, <1>4, <1>5, <1>6, <1>7, <1>8, <1>9, <1>10, <1>11 DEF Handle

(* A request that arrives finds a handler that has done nothing, and that  *)
(* claims nothing.                                                         *)
LEMMA ArriveOutcome ==
  ASSUME RouterTyped, NEW h \in Handlers, Arrive(h)
  PROVE  /\ \A g \in Handlers \ {h} : handler'[g] = handler[g]
         /\ handler[h].pc = "idle"
         /\ \/ handler'[h].result = None
            \/ handler'[h].id = handler[h].id /\ handler'[h].result = handler[h].result
         /\ handler'[h].response # "202 delivered"
  <1>0. NoHandler \in HandlerStates /\ NoHandler.result = None /\ NoHandler.response = None
    BY NoHandlerTyped DEF HandlerRecords, NoHandler
  <1>00. None # "202 delivered"
    BY RouterAssumption DEF Responses
  <1>1. ASSUME NEW id \in MessageIds, NEW pair \in Pairs, NEW skew \in Skews,
               NEW ttl \in Ttls, Receive(h, id, pair[1], pair[2], skew, ttl)
        PROVE  /\ \A g \in Handlers \ {h} : handler'[g] = handler[g]
               /\ handler'[h].result = None /\ handler'[h].response # "202 delivered"
    <2> DEFINE created == now + skew
               late0 == created + ttl
               request == [NoHandler EXCEPT
                    !.id = id, !.sender = pair[1], !.recipient = pair[2],
                    !.createdAt = created, !.expiresAt = late0]
    <2> HIDE DEF created, late0
    <2>1. /\ [request EXCEPT !.pc = "permission"].result = None
          /\ [request EXCEPT !.pc = "permission"].response = None
          /\ [request EXCEPT !.pc = "done", !.response = "400"].result = None
          /\ [request EXCEPT !.pc = "done", !.response = "400"].response = "400"
      BY <1>0 DEF HandlerStates
    <2>2. \/ Go(h, [request EXCEPT !.pc = "permission"])
          \/ Go(h, [request EXCEPT !.pc = "done", !.response = "400"])
      BY <1>1 DEF Receive, created, late0
    <2> HIDE DEF request
    <2> QED BY <1>00, <2>1, <2>2, GoMeans
  <1>2. ASSUME NEW pair \in Pairs, CheckArrives(h, pair)
        PROVE  /\ \A g \in Handlers \ {h} : handler'[g] = handler[g]
               /\ handler'[h].result = None /\ handler'[h].response # "202 delivered"
    <2> DEFINE rec == [NoHandler EXCEPT !.pc = "permission", !.sender = pair[1],
                                        !.recipient = pair[2]]
    <2>1. rec.result = None /\ rec.response = None
      BY <1>0 DEF HandlerStates
    <2> HIDE DEF rec
    <2> QED BY <1>00, <1>2, <2>1, GoMeans DEF CheckArrives, rec
  <1>3. CASE ReceiveMalformed(h)
    BY <1>3, RespondMeans DEF ReceiveMalformed, At
  <1>4. handler[h].pc = "idle"
    BY DEF Arrive, Receive, CheckArrives, ReceiveMalformed, At
  <1> QED BY <1>1, <1>2, <1>3, <1>4 DEF Arrive

-----------------------------------------------------------------------------
(* "Delivered" is true.                                                    *)

LEMMA HandlerClaims ==
  ASSUME RouterTyped, DeliveryTyped, ClaimsTrue, NEW h \in Handlers, Arrive(h) \/ Handle(h),
         NEW g \in Handlers
  PROVE  OutcomeKept(g)'
  <1>0. [Next]_vars
    BY DEF Next
  <1>1. handler[g].result # None =>
          /\ handler[g].id \in MessageIds
          /\ \A id, channel : id = handler[g].id /\ channel = handler[g].result
               => Reached(id, channel)'
    BY <1>0, ReachedStays DEF ClaimsTrue, OutcomeKept
  <1>2. handler[g].response = "202 delivered" => handler[g].result # None
    BY DEF ClaimsTrue, OutcomeKept
  <1>3. ASSUME /\ handler'[g].id = handler[g].id /\ handler'[g].result = handler[g].result
               /\ \/ handler'[g].response = handler[g].response
                  \/ handler'[g].response = "202 delivered" => handler'[g].result # None
        PROVE  OutcomeKept(g)'
    BY <1>1, <1>2, <1>3 DEF OutcomeKept, Reached
  <1>4. CASE g # h
    <2>1. handler'[g] = handler[g]
      BY <1>4, ArriveOutcome, HandleOutcome DEF Outcome
    <2> QED BY <1>3, <2>1
  <1>5. CASE g = h /\ Arrive(h)
    BY <1>3, <1>5, ArriveOutcome DEF OutcomeKept
  <1>6. CASE g = h /\ Handle(h) /\ handler'[h].result = handler[h].result
    BY <1>2, <1>3, <1>6, HandleOutcome DEF Outcome
  <1>7. CASE g = h /\ Handle(h) /\ handler'[h].result # handler[h].result
    <2>1. /\ handler'[h].id = handler[h].id
          /\ \/ WebhookOk(h) /\ handler'[h].result = "webhook"
             \/ InboxOk(h) /\ handler'[h].result = "agent-inbox"
      BY <1>7, HandleOutcome DEF Outcome
    <2>2. /\ handler[h].id \in MessageIds
          /\ handler[h].sender \in Senders /\ handler[h].recipient \in Recipients
      BY <2>1, WriterKnows DEF WebhookOk, InboxOk, Delivering, At
    <2>3. "webhook" # None /\ "agent-inbox" # None
      BY RouterAssumption, StoreAssumption DEF ChannelNames
    <2>4. CASE WebhookOk(h) /\ handler'[h].result = "webhook"
      <3>1. posts' = [posts EXCEPT ![handler[h].id] = @ + 1]
        BY <2>4 DEF WebhookOk, Posted
      <3>2. posts'[handler[h].id] > 0
        BY <2>2, <3>1 DEF DeliveryTyped
      <3> QED BY <1>7, <2>1, <2>2, <2>3, <2>4, <3>2 DEF OutcomeKept, Reached
    <2>5. CASE InboxOk(h) /\ handler'[h].result = "agent-inbox"
      <3>1. inbox'[handler[h].id] # None
        <4>1. WriteAgentInbox(handler[h].id, handler[h].recipient, handler[h].sender)
          BY <2>5 DEF InboxOk
        <4>2. CASE inbox[handler[h].id] # None
          BY <4>1, <4>2 DEF WriteAgentInbox
        <4>3. CASE inbox[handler[h].id] = None
          <5>1. [recipient |-> handler[h].recipient, sender |-> handler[h].sender,
                 read |-> FALSE] \in InboxEntries
            BY <2>2 DEF InboxEntries
          <5> QED BY <2>2, <4>1, <4>3, <5>1, StoreAssumption
                  DEF WriteAgentInbox, DeliveryTyped, StoreTypeOK
        <4> QED BY <4>2, <4>3
      <3> QED BY <1>7, <2>1, <2>2, <2>3, <2>5, <3>1 DEF OutcomeKept, Reached
    <2> QED BY <2>1, <2>4, <2>5
  <1> QED BY <1>4, <1>5, <1>6, <1>7

LEMMA StepClaims ==
  RouterTyped /\ DeliveryTyped /\ ClaimsTrue /\ [Next]_vars => ClaimsTrue'
  <1> SUFFICES ASSUME RouterTyped, DeliveryTyped, ClaimsTrue, [Next]_vars PROVE ClaimsTrue'
    OBVIOUS
  <1>1. ASSUME NEW id \in MessageIds, NEW status, NEW channel, TrueOf(id, status, channel)
        PROVE  TrueOf(id, status, channel)'
    BY <1>1, ReachedStays DEF TrueOf
  <1>2. ASSUME NEW id \in MessageIds, acks'[id] # None
        PROVE  TrueOf(id, acks[id].status, acks[id].channel)'
    <2>1. CASE acks'[id] = acks[id]
      <3>1. TrueOf(id, acks[id].status, acks[id].channel)
        BY <1>2, <2>1 DEF ClaimsTrue
      <3>2. \A status, channel : TrueOf(id, status, channel) => TrueOf(id, status, channel)'
        BY <1>1
      <3> QED BY <2>1, <3>1, <3>2 DEF TrueOf, Reached
    <2>2. CASE acks'[id] # acks[id]
      <3>1. \/ \E i \in MessageIds, m \in Messages : InsertMessage(i, m, None)
            \/ TrueAck \/ ExpireMessages
        BY <2>2, AnyStoreStep DEF StoreStep, storeVars, tables, InboxCall, WriteAgentInbox,
                                  MarkInboxRead, RegisterNode, Tick
      <3>2. CASE \E i \in MessageIds, m \in Messages : InsertMessage(i, m, None)
        <4>1. acks'[id] = PendingAck
          BY <2>2, <3>2 DEF InsertMessage, DeliveryTyped, StoreTypeOK
        <4> QED BY <4>1 DEF PendingAck, TrueOf
      <3>3. CASE ExpireMessages
        <4>1. acks[id] \in Acks /\ acks'[id] = [acks[id] EXCEPT !.status = "expired",
                                                                !.error = "TTL_ELAPSED"]
          BY <2>2, <3>3 DEF ExpireMessages, Overdue, DeliveryTyped, StoreTypeOK
        <4>2. acks'[id].status = "expired"
          BY <4>1, ExpiryTyped
        <4> QED BY <4>2 DEF TrueOf
      <3>4. CASE TrueAck
        <4>1. PICK i \in MessageIds, status \in {"failed", "delivered"},
                   channel \in Plus(ChannelNames), error \in {"DELIVERY_ERROR", None} :
                UpdateAck(i, status, channel, error) /\ TrueOf(i, status, channel)
          BY <3>4 DEF TrueAck
        <4>2. /\ i = id /\ acks[id] \in Acks
              /\ acks'[id] = Stamp(acks[id], status, channel, error)
          BY <2>2, <4>1 DEF UpdateAck, storeVars, tables, DeliveryTyped, StoreTypeOK
        <4>3. /\ acks'[id].status = status
              /\ status = "delivered" /\ channel # None => acks'[id].channel = channel
          BY <4>2 DEF Stamp, Acks
        <4>4. TrueOf(id, status, channel)'
          BY <1>1, <4>1, <4>2
        <4>5. status = "delivered" => channel # None
          BY <4>1, <4>2, RouterAssumption, StoreAssumption DEF TrueOf, Reached, ChannelNames
        <4> QED BY <4>3, <4>4, <4>5 DEF TrueOf, Reached
      <3> QED BY <3>1, <3>2, <3>3, <3>4
    <2> QED BY <2>1, <2>2
  <1>3. ASSUME NEW g \in Handlers PROVE OutcomeKept(g)'
    <2>1. ASSUME handler'[g].id = handler[g].id, handler'[g].result = handler[g].result,
                 handler'[g].response = handler[g].response
          PROVE  OutcomeKept(g)'
      <3>1. OutcomeKept(g)
        BY DEF ClaimsTrue
      <3>2. handler[g].result # None =>
              \A id, channel : id = handler[g].id /\ channel = handler[g].result
                => Reached(id, channel)'
        BY <3>1, ReachedStays DEF OutcomeKept
      <3> QED BY <2>1, <3>1, <3>2 DEF OutcomeKept, Reached
    <2>2. CASE Crash
      <3>1. handler[g] \in HandlerStates
        BY Known
      <3>2. /\ handler'[g].id = handler[g].id /\ handler'[g].result = handler[g].result
            /\ handler'[g].response = handler[g].response
        BY <2>2, <3>1 DEF Crash, HandlerStates
      <3> QED BY <2>1, <3>2
    <2>3. CASE UNCHANGED vars \/ (Environment /\ ~Crash)
      <3>1. handler' = handler
        BY <2>3, EnvironmentFrame DEF vars, routerVars, Clock, ChangeAnswer, ChangeWebhook
      <3> QED BY <2>1, <3>1
    <2> QED BY <2>2, <2>3, HandlerClaims DEF Next
  <1>4. ASSUME NEW c \in late', c.call = "update_ack"
        PROVE  TrueOf(c.id, c.status, c.channel)'
    <2>1. c \in AckCalls
      <3>1. c \in WriteCalls \cup AckCalls
        BY DeliveryStepTyped DEF DeliveryTyped
      <3> QED BY <1>4, <3>1 DEF WriteCalls
    <2>2. c.id \in MessageIds
      BY <2>1 DEF AckCalls
    <2>3. TrueOf(c.id, c.status, c.channel)
      <3>1. CASE c \in late
        BY <1>4, <3>1 DEF ClaimsTrue
      <3>2. CASE c \notin late
        <4>1. PICK h \in Handlers : Arrive(h) \/ Handle(h)
          BY <3>2, OthersFrame DEF Next, vars
        <4>2. CASE \E d \in WriteCalls : late' = late \cup {d}
          BY <1>4, <3>2, <4>2 DEF WriteCalls
        <4> QED BY <3>2, <4>1, <4>2, LateFrames DEF LateFrame
      <3> QED BY <3>1, <3>2
    <2> QED BY <1>1, <2>2, <2>3
  <1> QED BY <1>2, <1>3, <1>4 DEF ClaimsTrue

LEMMA InitDelivery == Init => DeliveryTyped /\ ClaimsTrue
  <1> SUFFICES ASSUME Init PROVE DeliveryTyped /\ ClaimsTrue
    OBVIOUS
  <1>1. DeliveryTyped
    BY StoreAssumption DEF Init, StoreInit, DeliveryTyped, StoreTypeOK, Times
  <1>2. ClaimsTrue
    <2>1. None # "202 delivered"
      BY RouterAssumption DEF Responses
    <2> QED BY <2>1 DEF Init, StoreInit, NoHandler, ClaimsTrue, OutcomeKept
  <1> QED BY <1>1, <1>2

(* The tables stay well formed under the router's calls, late ones too.    *)
THEOREM TablesTyped == Spec => []StoreTypeOK
  <1>1. DeliveryTyped => StoreTypeOK
    BY DEF DeliveryTyped
  <1> QED BY <1>1, RouterInitTyped, RouterStepTyped, InitDelivery, DeliveryStepTyped,
             StepClaims, PTL DEF Spec

(* An ack or a response that says "delivered" is true, whichever calls     *)
(* failed, were applied late or were overtaken by a crash.                 *)
THEOREM DeliveredIsReached == Spec => []DeliveredMeansReached
  <1>1. ClaimsTrue => DeliveredMeansReached
    BY DEF ClaimsTrue, OutcomeKept, TrueOf, DeliveredMeansReached
  <1> QED BY <1>1, RouterInitTyped, RouterStepTyped, InitDelivery, DeliveryStepTyped,
             StepClaims, PTL DEF Spec

-----------------------------------------------------------------------------
(* A refused send leaves no trace.                                         *)

(* What there can be of a message, the calls under way included.           *)
Trace(id) ==
  \/ messages[id] # None \/ inbox[id] # None \/ posts[id] # 0
  \/ \E c \in late : c.id = id

(* Everything there is of a message was left by a send of it that is past  *)
(* the write, and so will never be answered as refused.                    *)
TracesOwned ==
  \A id \in MessageIds :
    Trace(id) => \E h \in Handlers : handler[h].id = id /\ Wrote(h)

(* A send that wrote stays one.                                            *)
LEMMA WroteStays ==
  ASSUME RouterTyped, [Next]_vars, NEW h \in Handlers, Wrote(h)
  PROVE  Wrote(h)' /\ handler'[h].id = handler[h].id
  <1>1. CASE UNCHANGED vars \/ (Environment /\ ~Crash)
    <2>1. handler' = handler
      BY <1>1, EnvironmentFrame DEF vars, routerVars, Clock, ChangeAnswer, ChangeWebhook
    <2> QED BY <2>1 DEF Wrote
  <1>2. CASE Crash
    <2>1. handler[h] \in HandlerStates
      BY Known
    <2>2. CASE Running(h)
      <3>1. handler'[h] = [handler[h] EXCEPT !.pc = "lost"]
        BY <1>2, <2>2 DEF Crash
      <3> QED BY <2>1, <3>1 DEF HandlerStates, Wrote
    <2>3. CASE ~Running(h)
      <3>1. handler'[h] = handler[h]
        BY <1>2, <2>3 DEF Crash
      <3> QED BY <3>1 DEF Wrote
    <2> QED BY <2>2, <2>3
  <1>3. ASSUME NEW g \in Handlers, Arrive(g) \/ Handle(g), g # h
        PROVE  Wrote(h)' /\ handler'[h].id = handler[h].id
    <2>1. handler'[h] = handler[h]
      BY <1>3, ArriveOutcome, HandleOutcome DEF Outcome
    <2> QED BY <2>1 DEF Wrote
  <1>4. CASE Arrive(h)
    BY <1>4, ArriveOutcome DEF Wrote
  <1>5. CASE Handle(h)
    <2>1. handler[h].pc \in Steps
      BY <1>5 DEF Handle, PermissionCached, AskRegistry, RegistryAnswers,
                  RegistryUnavailable, EnforceRateLimit, CountFails, SenderClean,
                  SenderListed, SubmitReturns, SubmitThrows, PreferencesCached,
                  AskPreferences, PreferencesAnswer, PreferencesFail, NoEndpoint, WebhookOk,
                  WebhookFailed, InboxOk, InboxThrows, AckReturns, AckThrows, Delivering,
                  At, Steps
    <2>2. handler[h].pc \in {"preferences", "preferred", "deliver", "ack"}
      BY <2>1 DEF Steps, Wrote
    <2> QED BY <1>5, <2>2, HandleOutcome DEF Outcome
  <1> QED BY <1>1, <1>2, <1>3, <1>4, <1>5 DEF Next

(* Whoever leaves the first trace of a message is a send of it that writes.*)
LEMMA FirstTrace ==
  ASSUME RouterTyped, DeliveryTyped, ClaimsTrue, [Next]_vars, NEW id \in MessageIds,
         ~Trace(id), Trace(id)'
  PROVE  \E h \in Handlers : handler'[h].id = id /\ Wrote(h)'
  <1>1. CASE UNCHANGED vars
    BY <1>1 DEF Trace, vars, storeVars, tables, ghostVars
  <1>2. CASE Environment
    <2>1. late' \subseteq late /\ posts' = posts
      BY <1>2, OthersFrame
    <2>2. messages'[id] # None \/ inbox'[id] # None
      BY <2>1 DEF Trace
    <2>3. ~(\E c \in late : c.id = id)
      BY DEF Trace
    <2>4. ASSUME NEW c \in late, LateCall(c) PROVE FALSE
      <3>1. c.id # id
        BY <2>3
      <3>2. messages'[id] = messages[id] /\ inbox'[id] = inbox[id]
        <4> USE DEF DeliveryTyped, StoreTypeOK
        <4>1. CASE c.call = "submit_message" /\ SubmitMessage(c.id, c.row, None)
          BY <3>1, <4>1 DEF SubmitMessage, InsertMessage, storeVars, tables
        <4>2. CASE WriteAgentInbox(c.id, c.row.recipient, c.row.sender)
          BY <3>1, <4>2 DEF WriteAgentInbox
        <4>3. CASE UpdateAck(c.id, c.status, c.channel, c.error)
          BY <4>3 DEF UpdateAck, storeVars, tables
        <4> QED BY <2>4, <4>1, <4>2, <4>3 DEF LateCall
      <3> QED BY <2>2, <3>2 DEF Trace
    <2>5. CASE \/ \E pair \in Pairs, answer \in ChainAnswers : ChangeAnswer(pair, answer)
               \/ \E r \in Recipients, url \in Urls \cup {None} : ChangeWebhook(r, url)
               \/ Crash
      BY <2>2, <2>5 DEF ChangeAnswer, ChangeWebhook, Crash, storeVars, tables, Trace
    <2>6. ASSUME NEW i \in MessageIds, AgentReads(i) PROVE FALSE
      <3>1. messages' = messages /\ inbox[i] # None
            /\ inbox' = [inbox EXCEPT ![i].read = TRUE]
        BY <2>6 DEF AgentReads, MarkInboxRead
      <3>2. inbox[id] = None
        BY DEF Trace
      <3>3. i # id /\ inbox'[id] = inbox[id]
        BY <3>1, <3>2 DEF DeliveryTyped, StoreTypeOK
      <3> QED BY <2>2, <3>1, <3>3 DEF Trace
    <2>7. CASE Heartbeat \/ Sweep \/ Clock
      BY <2>2, <2>7 DEF Heartbeat, RegisterNode, Sweep, ExpireMessages, Clock, Tick, tables,
                        Trace
    <2> QED BY <1>2, <2>4, <2>5, <2>6, <2>7 DEF Environment
  <1>3. ASSUME NEW h \in Handlers, Arrive(h)
        PROVE  FALSE
    <2>1. UNCHANGED <<storeVars, late, ghostVars>>
      BY <1>3 DEF Arrive, Receive, CheckArrives, ReceiveMalformed
    <2> QED BY <2>1 DEF Trace, storeVars, tables, ghostVars
  <1>4. ASSUME NEW h \in Handlers, Handle(h)
        PROVE  \E g \in Handlers : handler'[g].id = id /\ Wrote(g)'
    <2>1. SUFFICES handler[h].id = id /\ handler[h].pc \in {"submit", "deliver", "ack"}
      BY <1>4, HandleOutcome DEF Outcome
    <2>2. CASE \E c \in late' : c.id = id
      <3>1. /\ handler[h].id = id
            /\ SubmitThrows(h) \/ InboxThrows(h) \/ AckThrows(h)
        BY <1>4, <2>2, LateFrames DEF LateFrame, Trace
      <3> QED BY <3>1 DEF SubmitThrows, InboxThrows, AckThrows, Delivering, At
    <2>3. CASE posts'[id] # 0
      <3>1. posts[id] = 0
        BY DEF Trace
      <3>2. /\ WebhookOk(h) \/ WebhookFailed(h)
            /\ posts' = [posts EXCEPT ![handler[h].id] = @ + 1]
        BY <1>4, <2>3, <3>1, PostFrames DEF PostFrame
      <3>3. handler[h].id = id
        BY <2>3, <3>1, <3>2 DEF DeliveryTyped
      <3> QED BY <3>2, <3>3 DEF WebhookOk, WebhookFailed, Delivering, At
    <2>4. CASE messages'[id] # None \/ inbox'[id] # None
      <3>0. messages[id] = None /\ inbox[id] = None
        BY DEF Trace
      <3>1. SubmitReturns(h) \/ InboxOk(h)
        <4>1. UNCHANGED <<messages, inbox>> => FALSE
          BY <2>4, <3>0
        <4>2. UNCHANGED storeVars => FALSE
          BY <4>1 DEF storeVars, tables
        <4>3. ~(AckReturns(h) \/ AckThrows(h) \/ SubmitThrows(h))
          BY <4>1, <4>2 DEF AckReturns, AckThrows, SubmitThrows, UpdateAck
        <4>4. ~(\/ PermissionCached(h) \/ AskRegistry(h) \/ RegistryAnswers(h)
                \/ RegistryUnavailable(h) \/ EnforceRateLimit(h) \/ CountFails(h)
                \/ SenderClean(h) \/ SenderListed(h))
          BY <4>2 DEF PermissionCached, AskRegistry, RegistryAnswers, RegistryUnavailable,
                      EnforceRateLimit, CountFails, SenderClean, SenderListed
        <4>5. ~(\/ PreferencesCached(h) \/ AskPreferences(h) \/ PreferencesAnswer(h)
                \/ PreferencesFail(h) \/ NoEndpoint(h) \/ WebhookOk(h) \/ WebhookFailed(h)
                \/ InboxThrows(h))
          BY <4>2 DEF PreferencesCached, AskPreferences, PreferencesAnswer, PreferencesFail,
                      NoEndpoint, WebhookOk, WebhookFailed, InboxThrows
        <4> QED BY <1>4, <4>3, <4>4, <4>5 DEF Handle
      <3>2. CASE SubmitReturns(h)
        <4>1. SubmitMessage(handler[h].id, Row(h), None)
          BY <3>2 DEF SubmitReturns
        <4>2. handler[h].id = id
          BY <2>4, <3>0, <4>1 DEF SubmitMessage, InsertMessage, storeVars, tables,
                                  DeliveryTyped, StoreTypeOK
        <4> QED BY <3>2, <4>2 DEF SubmitReturns, At
      <3>3. CASE InboxOk(h)
        <4>1. WriteAgentInbox(handler[h].id, handler[h].recipient, handler[h].sender)
          BY <3>3 DEF InboxOk
        <4>2. handler[h].id = id
          BY <2>4, <3>0, <4>1 DEF WriteAgentInbox, DeliveryTyped, StoreTypeOK
        <4> QED BY <3>3, <4>2 DEF InboxOk, Delivering, At
      <3> QED BY <3>1, <3>2, <3>3
    <2> QED BY <2>2, <2>3, <2>4 DEF Trace
  <1> QED BY <1>1, <1>2, <1>3, <1>4 DEF Next

LEMMA StepTraces ==
  RouterTyped /\ DeliveryTyped /\ ClaimsTrue /\ TracesOwned /\ [Next]_vars => TracesOwned'
  <1> SUFFICES ASSUME RouterTyped, DeliveryTyped, ClaimsTrue, TracesOwned, [Next]_vars,
                      NEW id \in MessageIds, Trace(id)'
               PROVE  \E h \in Handlers : handler'[h].id = id /\ Wrote(h)'
    BY DEF TracesOwned
  <1>1. CASE Trace(id)
    <2>1. PICK h \in Handlers : handler[h].id = id /\ Wrote(h)
      BY <1>1 DEF TracesOwned
    <2>2. Wrote(h)' /\ handler'[h].id = id
      BY <2>1, WroteStays
    <2> QED BY <2>2
  <1> QED BY <1>1, FirstTrace

(* A message all of whose sends were refused has no row and no inbox entry *)
(* and reached no webhook, now or by a call that is still under way.       *)
THEOREM RefusedLeftNothing == Spec => []RefusedLeavesNoTrace
  <1>1. Init => TracesOwned
    BY DEF Init, StoreInit, TracesOwned, Trace
  <1>2. RouterTyped /\ TracesOwned => RefusedLeavesNoTrace
    <2> SUFFICES ASSUME RouterTyped, TracesOwned, NEW id \in MessageIds,
                        \A h \in Handlers : handler[h].id = id => handler[h].response \in Refusals
                 PROVE  ~Trace(id)
      BY DEF RefusedLeavesNoTrace, Trace, Refusals
    <2>1. None \notin Refusals
      BY RouterAssumption DEF Responses, Refusals
    <2>2. ASSUME NEW h \in Handlers, handler[h].id = id PROVE ~Wrote(h)
      <3>1. handler[h].response \in Refusals /\ handler[h].pc = "done"
        BY <2>1, <2>2, Known DEF Coherent
      <3> QED BY <3>1 DEF Wrote
    <2> QED BY <2>2 DEF TracesOwned
  <1> QED BY <1>1, <1>2, RouterInitTyped, RouterStepTyped, InitDelivery, DeliveryStepTyped,
             StepClaims, StepTraces, PTL DEF Spec
-----------------------------------------------------------------------------
(* The router and the store implement the delivery record.                 *)

(* A row and its ack stay together under the router's calls too.           *)
LEMMA TogetherStays ==
  ASSUME StoreTypeOK, RowsTogether, StoreStep
  PROVE  RowsTogether'
  <1> SUFFICES ASSUME NEW id \in MessageIds
               PROVE  /\ messages'[id] # None <=> acks'[id] # None
                      /\ threads'[id] # None => messages'[id] # None
    BY DEF RowsTogether
  <1>0. /\ messages[id] # None <=> acks[id] # None
        /\ threads[id] # None => messages[id] # None
    BY DEF RowsTogether
  <1>1. CASE \/ UNCHANGED storeVars \/ InboxCall \/ RegisterNode(Node) \/ Tick
    BY <1>0, <1>1 DEF storeVars, tables, InboxCall, WriteAgentInbox, MarkInboxRead,
                      RegisterNode, Tick
  <1>2. ASSUME NEW i \in MessageIds, NEW m \in Messages, InsertMessage(i, m, None)
        PROVE  /\ messages'[id] # None <=> acks'[id] # None
               /\ threads'[id] # None => messages'[id] # None
    <2>1. m # None /\ PendingAck # None
      <3>1. PendingAck \in Acks
        BY DEF PendingAck, Acks, Statuses
      <3> QED BY <3>1, StoreAssumption
    <2> QED BY <1>0, <1>2, <2>1 DEF InsertMessage, StoreTypeOK
  <1>3. ASSUME acks'[id] # None <=> acks[id] # None, messages' = messages, threads' = threads
        PROVE  /\ messages'[id] # None <=> acks'[id] # None
               /\ threads'[id] # None => messages'[id] # None
    BY <1>0, <1>3
  <1>4. acks' \in [MessageIds -> Acks \cup {None}] /\ None \notin Acks
    BY StoreStepTyped, StoreAssumption DEF StoreTypeOK
  <1>5. CASE ExpireMessages
    <2>1. acks[id] # None => acks'[id] # None
      <3>1. ASSUME acks[id] # None PROVE acks'[id] \in Acks
        <4>1. acks[id] \in Acks
          BY <3>1 DEF StoreTypeOK
        <4> QED BY <1>5, <4>1, ExpiryTyped DEF ExpireMessages
      <3> QED BY <1>4, <3>1
    <2>2. acks[id] = None => acks'[id] = None
      BY <1>5 DEF ExpireMessages, Overdue
    <2> QED BY <1>3, <1>5, <2>1, <2>2 DEF ExpireMessages
  <1>6. CASE TrueAck
    <2>1. PICK i \in MessageIds, status \in {"failed", "delivered"},
               channel \in Plus(ChannelNames), error \in {"DELIVERY_ERROR", None} :
            UpdateAck(i, status, channel, error)
      BY <1>6 DEF TrueAck
    <2>2. messages' = messages /\ threads' = threads
      BY <2>1 DEF UpdateAck, storeVars, tables
    <2>3. CASE acks' = acks
      BY <1>3, <2>2, <2>3
    <2>4. CASE /\ acks[i] # None
               /\ acks' = [acks EXCEPT ![i] = Stamp(@, status, channel, error)]
      <3>1. Stamp(acks[i], status, channel, error) \in Acks
        <4>1. /\ acks[i] \in Acks /\ status \in Statuses /\ now \in Times
              /\ channel \in CallChannels \cup {None} /\ error \in CallErrors \cup {None}
          BY <2>4, RouterAssumption DEF StoreTypeOK, Statuses, Plus
        <4> QED BY <4>1, StampTyped
      <3>2. acks'[id] # None <=> acks[id] # None
        BY <1>4, <2>4, <3>1 DEF StoreTypeOK
      <3> QED BY <1>3, <2>2, <3>2
    <2> QED BY <2>1, <2>3, <2>4 DEF UpdateAck, storeVars, tables
  <1> QED BY <1>1, <1>2, <1>5, <1>6 DEF StoreStep

(* A function that differs from another in one place.                      *)
LEMMA OnePlace ==
  ASSUME NEW F, NEW G, NEW S, NEW x \in S, NEW v,
         F = [y \in S |-> F[y]], G = [y \in S |-> G[y]],
         \A y \in S : G[y] = IF y = x THEN v ELSE F[y]
  PROVE  G = [F EXCEPT ![x] = v]
  OBVIOUS

(* Shapes of the mapped variables.                                         *)
LEMMA RecordShapes ==
  /\ Outcomes = [id \in MessageIds |-> Outcomes[id]]
  /\ Carried = [id \in MessageIds |-> Carried[id]]
  /\ Told = [id \in MessageIds |-> Told[id]]
  /\ Outcomes' = [id \in MessageIds |-> Outcomes'[id]]
  /\ Carried' = [id \in MessageIds |-> Carried'[id]]
  /\ Told' = [id \in MessageIds |-> Told'[id]]
  BY DEF Outcomes, Carried, Told

(* A step that leaves the handlers' messages and responses alone leaves    *)
(* alone what was sent and told.                                           *)
LEMMA HandlersStay ==
  ASSUME \A g \in Handlers :
           /\ handler'[g].id = handler[g].id /\ handler'[g].result = handler[g].result
           /\ handler'[g].response = handler[g].response
           /\ handler'[g].pc = "idle" <=> handler[g].pc = "idle"
  PROVE  Sent' = Sent /\ Told' = Told
  BY DEF Sent, TakenOn, Told

(* A handler that keeps its message and is not refused keeps it sent.      *)
LEMMA SentStays ==
  ASSUME NEW h \in Handlers, \A g \in Handlers \ {h} : handler'[g] = handler[g],
         handler'[h].id = handler[h].id, TakenOn(h), TakenOn(h)'
  PROVE  Sent' = Sent
  <1>1. ASSUME NEW g \in Handlers, NEW id \in MessageIds
        PROVE  handler'[g].id = id /\ TakenOn(g)' <=> handler[g].id = id /\ TakenOn(g)
    <2>1. CASE g = h
      BY <2>1
    <2>2. CASE g # h
      BY <2>2 DEF TakenOn
    <2> QED BY <2>1, <2>2
  <1> QED BY <1>1 DEF Sent

(* The response of a handler, and the channels of a message it tells of.   *)
Tells(h, id, c) ==
  /\ handler[h].id = id /\ handler[h].response = "202 delivered"
  /\ handler[h].result = c

LEMMA ToldMeans ==
  ASSUME NEW id \in MessageIds, NEW c \in ReachingChannels
  PROVE  /\ c \in Told[id] <=> \E h \in Handlers : Tells(h, id, c)
         /\ c \in Told'[id] <=> \E h \in Handlers : Tells(h, id, c)'
  BY DEF Told, Tells

LEMMA ToldWithin ==
  ASSUME NEW id \in MessageIds
  PROVE  Told[id] \subseteq ReachingChannels /\ Told'[id] \subseteq ReachingChannels
  BY DEF Told

(* No response that says "delivered" comes or goes: nothing is told.       *)
LEMMA ToldStays ==
  ASSUME NEW h \in Handlers, \A g \in Handlers \ {h} : handler'[g] = handler[g],
         handler[h].response # "202 delivered", handler'[h].response # "202 delivered"
  PROVE  Told' = Told
  <1>1. ASSUME NEW g \in Handlers, NEW id \in MessageIds, NEW c
        PROVE  Tells(g, id, c)' <=> Tells(g, id, c)
    <2>1. CASE g = h
      BY <2>1 DEF Tells
    <2>2. CASE g # h
      BY <2>2 DEF Tells
    <2> QED BY <2>1, <2>2
  <1>2. ASSUME NEW id \in MessageIds, NEW c \in ReachingChannels
        PROVE  c \in Told'[id] <=> c \in Told[id]
    BY <1>1, ToldMeans
  <1>3. ASSUME NEW id \in MessageIds PROVE Told'[id] = Told[id]
    BY <1>2, ToldWithin
  <1> QED BY <1>3, RecordShapes

(* A response that says "delivered" tells of the channel it names.         *)
LEMMA ToldGrows ==
  ASSUME NEW h \in Handlers, \A g \in Handlers \ {h} : handler'[g] = handler[g],
         handler[h].response # "202 delivered", handler'[h].response = "202 delivered",
         NEW id \in MessageIds, handler'[h].id = id,
         NEW channel \in ReachingChannels, handler'[h].result = channel
  PROVE  Told' = [Told EXCEPT ![id] = @ \cup {channel}]
  <1>1. ASSUME NEW g \in Handlers, NEW i \in MessageIds, NEW c
        PROVE  Tells(g, i, c)' <=> Tells(g, i, c) \/ (g = h /\ i = id /\ c = channel)
    <2>1. CASE g = h
      BY <2>1 DEF Tells
    <2>2. CASE g # h
      BY <2>2 DEF Tells
    <2> QED BY <2>1, <2>2
  <1>2. ASSUME NEW i \in MessageIds, NEW c \in ReachingChannels
        PROVE  c \in Told'[i] <=> c \in Told[i] \/ (i = id /\ c = channel)
    BY <1>1, ToldMeans
  <1>3. ASSUME NEW i \in MessageIds
        PROVE  Told'[i] = IF i = id THEN Told[id] \cup {channel} ELSE Told[i]
    <2>1. CASE i = id
      BY <1>2, <2>1, ToldWithin
    <2>2. CASE i # id
      BY <1>2, <2>2, ToldWithin
    <2> QED BY <2>1, <2>2
  <1> QED BY <1>3, RecordShapes, OnePlace

(* What reached a recipient, and what is added by a webhook or an inbox.   *)
LEMMA CarriedStays ==
  ASSUME posts' = posts, \A id \in MessageIds : inbox'[id] # None <=> inbox[id] # None
  PROVE  Carried' = Carried
  BY DEF Carried, Reached

LEMMA NothingCarried ==
  ASSUME NEW id \in MessageIds, inbox[id] = None, posts[id] = 0
  PROVE  Carried[id] = {}
  <1>1. Carried[id] = {c \in ReachingChannels : Reached(id, c)}
    BY DEF Carried
  <1>2. ~(posts[id] > 0)
    OBVIOUS
  <1>3. \A c \in ReachingChannels : ~Reached(id, c)
    BY <1>2 DEF Reached, ReachingChannels
  <1> QED BY <1>1, <1>3

LEMMA PostCarries ==
  ASSUME DeliveryTyped, NEW id \in MessageIds, posts' = [posts EXCEPT ![id] = @ + 1],
         inbox' = inbox
  PROVE  Carried' = [Carried EXCEPT ![id] = @ \cup {"webhook"}]
  <1>1. ASSUME NEW i \in MessageIds
        PROVE  posts[i] \in Nat /\ posts'[i] = IF i = id THEN posts[i] + 1 ELSE posts[i]
    BY DEF DeliveryTyped
  <1>2. ASSUME NEW i \in MessageIds, NEW c \in ReachingChannels
        PROVE  Reached(i, c)' <=> Reached(i, c) \/ (i = id /\ c = "webhook")
    BY <1>1 DEF Reached, ReachingChannels
  <1>3. \A i \in MessageIds :
          /\ Carried[i] = {c \in ReachingChannels : Reached(i, c)}
          /\ Carried'[i] = {c \in ReachingChannels : Reached(i, c)'}
    BY DEF Carried
  <1>4. ASSUME NEW i \in MessageIds
        PROVE  Carried'[i] = IF i = id THEN Carried[id] \cup {"webhook"} ELSE Carried[i]
    <2>1. "webhook" \in ReachingChannels
      BY DEF ReachingChannels
    <2> QED BY <1>2, <1>3, <2>1
  <1> QED BY <1>4, RecordShapes, OnePlace

LEMMA InboxCarries ==
  ASSUME DeliveryTyped, NEW id \in MessageIds, NEW r \in Recipients, NEW s \in Senders,
         WriteAgentInbox(id, r, s), posts' = posts
  PROVE  Carried' = [Carried EXCEPT ![id] = @ \cup {"agent-inbox"}]
  <1>1. ASSUME NEW i \in MessageIds
        PROVE  inbox'[i] # None <=> inbox[i] # None \/ i = id
    <2>1. [recipient |-> r, sender |-> s, read |-> FALSE] \in InboxEntries
      BY DEF InboxEntries
    <2> QED BY <2>1, StoreAssumption DEF WriteAgentInbox, DeliveryTyped, StoreTypeOK
  <1>2. ASSUME NEW i \in MessageIds, NEW c \in ReachingChannels
        PROVE  Reached(i, c)' <=> Reached(i, c) \/ (i = id /\ c = "agent-inbox")
    BY <1>1 DEF Reached, ReachingChannels
  <1>3. \A i \in MessageIds :
          /\ Carried[i] = {c \in ReachingChannels : Reached(i, c)}
          /\ Carried'[i] = {c \in ReachingChannels : Reached(i, c)'}
    BY DEF Carried
  <1>4. ASSUME NEW i \in MessageIds
        PROVE  Carried'[i] = IF i = id THEN Carried[id] \cup {"agent-inbox"} ELSE Carried[i]
    <2>1. "agent-inbox" \in ReachingChannels
      BY DEF ReachingChannels
    <2> QED BY <1>2, <1>3, <2>1
  <1> QED BY <1>4, RecordShapes, OnePlace

(* The record follows the ack.                                             *)
LEMMA OutcomesStay ==
  ASSUME acks' = acks
  PROVE  Outcomes' = Outcomes
  BY DEF Outcomes, OnRecord

LEMMA OutcomeOpens ==
  ASSUME StoreTypeOK, RowsTogether, NEW id \in MessageIds, NEW m \in Messages,
         InsertMessage(id, m, None)
  PROVE  /\ Outcomes[id] = "unrecorded"
         /\ Outcomes' = [Outcomes EXCEPT ![id] = "pending"]
  <1>1. acks[id] = None
    BY DEF InsertMessage, Accepts, RowsTogether
  <1>2. PendingAck \in Acks /\ PendingAck # None /\ PendingAck.status = "pending"
    <2>1. PendingAck \in Acks /\ PendingAck.status = "pending"
      BY DEF PendingAck, Acks, Statuses
    <2> QED BY <2>1, StoreAssumption
  <1>3. \A i \in MessageIds : acks'[i] = IF i = id THEN PendingAck ELSE acks[i]
    BY DEF InsertMessage, StoreTypeOK
  <1>4. \A i \in MessageIds :
          Outcomes[i] = OnRecord(acks[i]) /\ Outcomes'[i] = OnRecord(acks'[i])
    BY DEF Outcomes, OnRecord
  <1>5. OnRecord(PendingAck) = "pending" /\ OnRecord(None) = "unrecorded"
    BY <1>2 DEF OnRecord
  <1>6. \A i \in MessageIds : Outcomes'[i] = IF i = id THEN "pending" ELSE Outcomes[i]
    BY <1>3, <1>4, <1>5
  <1> QED BY <1>1, <1>4, <1>5, <1>6, RecordShapes, OnePlace

(* What an ack puts on record: the channel, or a failure.                  *)
Result(status, channel) == IF status = "delivered" THEN channel ELSE "failed"

LEMMA OutcomeCloses ==
  ASSUME StoreTypeOK, ClaimsTrue, NEW id \in MessageIds,
         NEW status \in {"failed", "delivered"}, NEW channel \in Plus(ChannelNames),
         NEW error \in {"DELIVERY_ERROR", None},
         UpdateAck(id, status, channel, error), TrueOf(id, status, channel)
  PROVE  /\ Result(status, channel) \in Carried[id] \cup {"failed"}
         /\ \/ Outcomes' = Outcomes
            \/ /\ Outcomes[id] # "unrecorded"
               /\ Outcomes' = [Outcomes EXCEPT ![id] = Result(status, channel)]
  <1> DEFINE result == Result(status, channel)
  <1>1. status = "delivered" => channel \in ReachingChannels /\ Reached(id, channel)
    BY DEF TrueOf, Reached, ReachingChannels
  <1>2. result \in Carried[id] \cup {"failed"}
    BY <1>1 DEF Carried, Result
  <1>3. CASE acks' = acks
    BY <1>2, <1>3, OutcomesStay
  <1>4. CASE /\ acks[id] # None
             /\ acks' = [acks EXCEPT ![id] = Stamp(@, status, channel, error)]
    <2> DEFINE new == Stamp(acks[id], status, channel, error)
    <2>1. acks[id] \in Acks /\ None \notin Acks
      BY <1>4, StoreAssumption DEF StoreTypeOK
    <2>2. new \in Acks
      <3>1. /\ status \in Statuses /\ now \in Times
            /\ channel \in CallChannels \cup {None} /\ error \in CallErrors \cup {None}
        BY RouterAssumption DEF StoreTypeOK, Statuses, Plus
      <3> QED BY <2>1, <3>1, StampTyped
    <2>3. /\ new.status = status
          /\ status = "delivered" /\ channel # None => new.channel = channel
      BY <2>1 DEF Stamp, Acks
    <2>4. status = "delivered" => channel # None
      BY <1>1, RouterAssumption, StoreAssumption DEF ReachingChannels, ChannelNames
    <2>5. \A i \in MessageIds : acks'[i] = IF i = id THEN new ELSE acks[i]
      BY <1>4 DEF StoreTypeOK
    <2> HIDE DEF new
    <2>6. OnRecord(new) = result
      BY <2>1, <2>2, <2>3, <2>4 DEF OnRecord, Result
    <2>7. \A i \in MessageIds :
            Outcomes[i] = OnRecord(acks[i]) /\ Outcomes'[i] = OnRecord(acks'[i])
      BY DEF Outcomes, OnRecord
    <2>8. OnRecord(acks[id]) # "unrecorded"
      <3>1. acks[id].status = "delivered" => acks[id].channel \in {"webhook", "agent-inbox"}
        BY <1>4 DEF ClaimsTrue, TrueOf, Reached
      <3>2. acks[id].status \in Statuses
        BY <2>1 DEF Acks
      <3> QED BY <1>4, <3>1, <3>2 DEF OnRecord, Statuses
    <2>9. \A i \in MessageIds : Outcomes'[i] = IF i = id THEN result ELSE Outcomes[i]
      BY <2>5, <2>6, <2>7
    <2> HIDE DEF result
    <2>10. Outcomes' = [Outcomes EXCEPT ![id] = result]
      BY <2>9, RecordShapes, OnePlace
    <2> QED BY <1>2, <2>7, <2>8, <2>10 DEF result
  <1> QED BY <1>3, <1>4 DEF UpdateAck, storeVars, tables

LEMMA OutcomesExpire ==
  ASSUME StoreTypeOK, ClaimsTrue, ExpireMessages
  PROVE  LET ids == {id \in MessageIds : Overdue(id)}
         IN  /\ \A id \in ids : Outcomes[id] \in ReachingChannels \cup {"pending"}
             /\ Outcomes' = [id \in MessageIds |->
                               IF id \in ids THEN "expired" ELSE Outcomes[id]]
  <1> DEFINE ids == {id \in MessageIds : Overdue(id)}
  <1>1. \A i \in MessageIds :
          Outcomes[i] = OnRecord(acks[i]) /\ Outcomes'[i] = OnRecord(acks'[i])
    BY DEF Outcomes, OnRecord
  <1>2. ASSUME NEW id \in ids
        PROVE  Outcomes[id] \in ReachingChannels \cup {"pending"} /\ Outcomes'[id] = "expired"
    <2> DEFINE new == [acks[id] EXCEPT !.status = "expired", !.error = "TTL_ELAPSED"]
    <2>1. /\ acks[id] # None /\ acks[id] \in Acks /\ None \notin Acks
          /\ acks[id].status \in {"pending", "delivered"}
      BY StoreAssumption DEF Overdue, StoreTypeOK
    <2>2. acks[id].status = "delivered" => acks[id].channel \in {"webhook", "agent-inbox"}
      BY <2>1 DEF ClaimsTrue, TrueOf, Reached
    <2>3. acks'[id] = new /\ new \in Acks /\ new.status = "expired"
      BY <2>1, ExpiryTyped DEF ExpireMessages, Acks
    <2> HIDE DEF new
    <2>4. OnRecord(acks[id]) \in ReachingChannels \cup {"pending"}
      BY <2>1, <2>2 DEF OnRecord, ReachingChannels
    <2>5. OnRecord(acks'[id]) = "expired"
      BY <2>1, <2>3 DEF OnRecord
    <2> QED BY <1>1, <2>4, <2>5
  <1>3. ASSUME NEW id \in MessageIds, id \notin ids PROVE Outcomes'[id] = Outcomes[id]
    <2>1. acks'[id] = acks[id]
      BY <1>3 DEF ExpireMessages
    <2> QED BY <1>1, <2>1
  <1> HIDE DEF ids
  <1>4. Outcomes' = [id \in MessageIds |-> IF id \in ids THEN "expired" ELSE Outcomes[id]]
    BY <1>2, <1>3, RecordShapes
  <1> QED BY <1>2, <1>4 DEF ids

(* A message that left something behind was sent, and cannot be refused.   *)
LEMMA WrittenTakenOn ==
  ASSUME RouterTyped, NEW h \in Handlers, Wrote(h)
  PROVE  TakenOn(h)
  <1>1. Coherent(handler[h]) /\ None \notin Refusals
    BY Known, RouterAssumption DEF Responses, Refusals
  <1> QED BY <1>1 DEF Wrote, TakenOn, Coherent

LEMMA TracesSent ==
  ASSUME RouterTyped, TracesOwned, NEW id \in MessageIds, Trace(id)
  PROVE  id \in Sent
  BY WrittenTakenOn DEF TracesOwned, Sent

(* The inductive invariant of the refinement: what the tables hold is      *)
(* typed, no claim is false, no trace is without a send that owns it, and  *)
(* a row has its ack.                                                      *)
DeliveryInv ==
  RouterTyped /\ DeliveryTyped /\ ClaimsTrue /\ TracesOwned /\ RowsTogether

(* The steps of the record, from what they change.                         *)
LEMMA RecordSteps ==
  /\ UNCHANGED <<Sent, Outcomes, Carried, Told>> => [D!Next]_(D!vars)
  /\ \A id \in MessageIds :
       \/ D!Send(id) \/ D!Refuse(id) \/ D!Record(id)
       \/ \E channel \in ReachingChannels : D!Reach(id, channel)
       \/ \E result \in ReachingChannels \cup {"failed"} : D!Close(id, result)
       => [D!Next]_(D!vars)
  /\ \A ids \in SUBSET MessageIds : D!Expire(ids) => [D!Next]_(D!vars)
  BY DEF D!Next, D!vars

(* The same after the step: what is left behind then belongs to a send     *)
(* that is not refused then.                                               *)
LEMMA TracesSentNext ==
  ASSUME RouterTyped', TracesOwned', NEW id \in MessageIds, Trace(id)'
  PROVE  id \in Sent'
  <1>1. PICK g \in Handlers : handler'[g].id = id /\ Wrote(g)'
    BY DEF TracesOwned
  <1>2. handler'[g] \in HandlerRecords
    BY DEF RouterTyped
  <1>3. Coherent(handler'[g]) /\ None \notin Refusals
    BY <1>2, RouterAssumption DEF HandlerRecords, Responses, Refusals
  <1>4. TakenOn(g)'
    BY <1>1, <1>3 DEF Wrote, TakenOn, Coherent
  <1> QED BY <1>1, <1>4 DEF Sent

(* A handler at work holds a send that was not refused, yet.               *)
LEMMA AtWork ==
  ASSUME RouterTyped, NEW h \in Handlers, Handle(h)
  PROVE  /\ TakenOn(h) /\ handler[h].response = None
         /\ handler[h].response # "202 delivered"
  <1>1. handler[h].pc \in Steps
    BY DEF Handle, PermissionCached, AskRegistry, RegistryAnswers,
           RegistryUnavailable, EnforceRateLimit, CountFails, SenderClean,
           SenderListed, SubmitReturns, SubmitThrows, PreferencesCached,
           AskPreferences, PreferencesAnswer, PreferencesFail, NoEndpoint, WebhookOk,
           WebhookFailed, InboxOk, InboxThrows, AckReturns, AckThrows, Delivering,
           At, Steps
  <1>2. handler[h].response = None
    BY <1>1, Known DEF Coherent, Steps
  <1>3. None # "202 delivered" /\ None \notin Refusals
    BY RouterAssumption DEF Responses, Refusals
  <1> QED BY <1>1, <1>2, <1>3 DEF TakenOn, Steps

(* A handler that takes on a message adds at most that one.                *)
LEMMA SentGrows ==
  ASSUME NEW h \in Handlers, \A g \in Handlers \ {h} : handler'[g] = handler[g],
         handler[h].pc = "idle"
  PROVE  Sent' = Sent \/ (handler'[h].id \in MessageIds /\ Sent' = Sent \cup {handler'[h].id})
  <1>1. ~TakenOn(h)
    BY DEF TakenOn
  <1>2. \A g \in Handlers \ {h} : TakenOn(g)' <=> TakenOn(g)
    BY DEF TakenOn
  <1>3. ASSUME NEW id \in MessageIds
        PROVE  id \in Sent' <=> id \in Sent \/ (TakenOn(h)' /\ handler'[h].id = id)
    BY <1>1, <1>2 DEF Sent
  <1>4. Sent \subseteq MessageIds /\ Sent' \subseteq MessageIds
    BY DEF Sent
  <1>5. CASE TakenOn(h)' /\ handler'[h].id \in MessageIds
    BY <1>3, <1>4, <1>5
  <1>6. CASE ~(TakenOn(h)' /\ handler'[h].id \in MessageIds)
    BY <1>3, <1>4, <1>6
  <1> QED BY <1>5, <1>6

(* A handler that ends drops at most the one it had, and then no other     *)
(* handler has it.                                                         *)
LEMMA SentShrinks ==
  ASSUME NEW h \in Handlers, \A g \in Handlers \ {h} : handler'[g] = handler[g],
         handler'[h].id = handler[h].id, TakenOn(h)
  PROVE  \/ Sent' = Sent
         \/ /\ handler[h].id \in MessageIds /\ handler[h].id \notin Sent'
            /\ Sent' = Sent \ {handler[h].id}
  <1>1. CASE TakenOn(h)'
    BY <1>1, SentStays
  <1>2. CASE ~TakenOn(h)'
    <2>1. \A g \in Handlers \ {h} : TakenOn(g)' <=> TakenOn(g)
      BY DEF TakenOn
    <2>2. ASSUME NEW id \in MessageIds, id # handler[h].id
          PROVE  id \in Sent' <=> id \in Sent
      BY <1>2, <2>1, <2>2 DEF Sent
    <2>3. ASSUME NEW id \in MessageIds
          PROVE  id \in Sent' => id \in Sent
      BY <1>2, <2>1 DEF Sent
    <2>4. Sent \subseteq MessageIds /\ Sent' \subseteq MessageIds
      BY DEF Sent
    <2>5. CASE handler[h].id \in Sent'
      BY <2>2, <2>3, <2>4, <2>5
    <2>6. CASE handler[h].id \notin Sent' /\ handler[h].id \in MessageIds
      BY <2>2, <2>3, <2>4, <2>6
    <2>7. CASE handler[h].id \notin MessageIds
      BY <2>2, <2>4, <2>7
    <2> QED BY <2>5, <2>6, <2>7
  <1> QED BY <1>1, <1>2

(* A step that touches neither store nor webhook sends or refuses.         *)
LEMMA QuietRecords ==
  ASSUME DeliveryInv, RouterTyped', TracesOwned',
         UNCHANGED <<messages, acks, inbox, posts>>,
         NEW h \in Handlers, \A g \in Handlers \ {h} : handler'[g] = handler[g],
         handler[h].response # "202 delivered", handler'[h].response # "202 delivered",
         handler[h].pc = "idle" \/ (TakenOn(h) /\ handler'[h].id = handler[h].id)
  PROVE  [D!Next]_(D!vars)
  <1>1. Outcomes' = Outcomes /\ Carried' = Carried /\ Told' = Told
    BY OutcomesStay, CarriedStays, ToldStays
  <1>2. CASE Sent' = Sent
    BY <1>1, <1>2, RecordSteps
  <1>3. CASE handler'[h].id \in MessageIds /\ Sent' = Sent \cup {handler'[h].id}
    <2>1. D!Send(handler'[h].id)
      BY <1>1, <1>3 DEF D!Send
    <2> QED BY <1>3, <2>1, RecordSteps
  <1>4. CASE /\ handler[h].id \in MessageIds /\ handler[h].id \notin Sent'
             /\ Sent' = Sent \ {handler[h].id}
    <2>0. PICK id \in MessageIds : id = handler[h].id
      BY <1>4
    <2>1. ~Trace(id)'
      BY <1>4, <2>0, TracesSentNext
    <2>2. messages[id] = None /\ inbox[id] = None /\ posts[id] = 0
      BY <2>1 DEF Trace
    <2>3. acks[id] = None
      BY <1>4, <2>2 DEF DeliveryInv, RowsTogether
    <2>4. Outcomes[id] = "unrecorded"
      BY <1>4, <2>3 DEF Outcomes, OnRecord
    <2>5. Carried[id] = {}
      BY <2>2, NothingCarried
    <2>6. D!Refuse(id)
      BY <1>1, <1>4, <2>0, <2>4, <2>5 DEF D!Refuse
    <2> QED BY <2>6, RecordSteps
  <1> QED BY <1>2, <1>3, <1>4, SentGrows, SentShrinks

(* A request that arrives is sent, refused at once, or asks for no more    *)
(* than the permission.                                                    *)
LEMMA ArriveRecords ==
  ASSUME DeliveryInv, RouterTyped', TracesOwned', NEW h \in Handlers, Arrive(h)
  PROVE  [D!Next]_(D!vars)
  <1> USE DEF DeliveryInv
  <1>1. UNCHANGED <<messages, acks, inbox, posts>>
    BY DEF Arrive, Receive, CheckArrives, ReceiveMalformed, storeVars, tables, ghostVars
  <1>2. /\ \A g \in Handlers \ {h} : handler'[g] = handler[g]
        /\ handler[h].pc = "idle" /\ handler'[h].response # "202 delivered"
    BY ArriveOutcome
  <1>3. handler[h].response # "202 delivered"
    <2>1. handler[h].response = None
      BY <1>2, Known DEF Coherent
    <2> QED BY <2>1, RouterAssumption DEF Responses
  <1> QED BY <1>1, <1>2, <1>3, QuietRecords

(* The steps of a handler that call neither the store nor a webhook, or    *)
(* give up on the call.                                                    *)
Quiet(h) ==
  \/ PermissionCached(h) \/ AskRegistry(h) \/ RegistryAnswers(h)
  \/ RegistryUnavailable(h) \/ EnforceRateLimit(h) \/ CountFails(h)
  \/ SenderClean(h) \/ SenderListed(h) \/ SubmitThrows(h)
  \/ PreferencesCached(h) \/ AskPreferences(h) \/ PreferencesAnswer(h)
  \/ PreferencesFail(h) \/ NoEndpoint(h) \/ InboxThrows(h)

LEMMA QuietMeans ==
  ASSUME RouterTyped, NEW h \in Handlers, Quiet(h)
  PROVE  /\ UNCHANGED <<messages, acks, inbox, posts>>
         /\ handler'[h].response # "202 delivered"
  <1>0. Handle(h)
    BY DEF Quiet, Handle
  <1>1. handler[h].response # "202 delivered"
    BY <1>0, AtWork
  <1>2. UNCHANGED <<storeVars, posts>>
    <2>1. CASE \/ PermissionCached(h) \/ AskRegistry(h) \/ RegistryAnswers(h)
               \/ RegistryUnavailable(h) \/ EnforceRateLimit(h) \/ CountFails(h)
               \/ SenderClean(h) \/ SenderListed(h)
      BY <2>1 DEF PermissionCached, AskRegistry, RegistryAnswers, RegistryUnavailable,
                  EnforceRateLimit, CountFails, SenderClean, SenderListed, ghostVars
    <2>2. CASE \/ SubmitThrows(h) \/ PreferencesCached(h) \/ AskPreferences(h)
               \/ PreferencesAnswer(h) \/ PreferencesFail(h) \/ NoEndpoint(h)
               \/ InboxThrows(h)
      BY <2>2 DEF SubmitThrows, PreferencesCached, AskPreferences, PreferencesAnswer,
                  PreferencesFail, NoEndpoint, InboxThrows, ghostVars
    <2> QED BY <2>1, <2>2 DEF Quiet
  <1>3. handler'[h].response # "202 delivered"
    <2>1. CASE PermissionCached(h) \/ RegistryAnswers(h) \/ RegistryUnavailable(h)
      <3>1. \E answer, source : Decide(h, answer, source)
        BY <2>1 DEF PermissionCached, RegistryAnswers, RegistryUnavailable
      <3> QED BY <1>1, <3>1, DecideMeans
    <2>2. CASE AskRegistry(h)
      <3> DEFINE rec == [handler[h] EXCEPT !.pc = "answered", !.answer = chain[PairOf(h)],
                                           !.asked = now]
      <3>1. rec.response = handler[h].response
        BY Known DEF HandlerStates
      <3> HIDE DEF rec
      <3> QED BY <1>1, <2>2, <3>1, GoMeans DEF AskRegistry, rec
    <2>3. CASE SenderClean(h) \/ SenderListed(h) \/ SubmitThrows(h)
      <3>1. \/ \E code \in {"403", "503"} : Respond(h, code)
            \/ \E pc : Move(h, pc)
        BY <2>3 DEF SenderClean, SenderListed, SubmitThrows
      <3> QED BY <1>1, <3>1, RespondMeans, MoveMeans
    <2>6. CASE EnforceRateLimit(h) \/ CountFails(h)
      <3>1. ASSUME NEW code \in {"200 yes", "200 no", "429"}, Respond(h, code)
            PROVE  handler'[h].response # "202 delivered"
        BY <3>1, RespondMeans
      <3>2. ASSUME NEW count, Passes(h, count)
            PROVE  handler'[h].response # "202 delivered"
        BY <1>1, <3>1, <3>2, PassesMeans DEF PassedLimit
      <3> QED BY <2>6, <3>1, <3>2, LimitPasses DEF Exceeds
    <2>4. CASE \/ PreferencesCached(h) \/ AskPreferences(h) \/ PreferencesAnswer(h)
               \/ PreferencesFail(h)
      BY <1>1, <2>4, PreferencesMean
    <2>5. CASE NoEndpoint(h) \/ InboxThrows(h)
      BY <1>1, <2>5, TryNextMeans DEF NoEndpoint, InboxThrows
    <2> QED BY <2>1, <2>2, <2>3, <2>4, <2>5, <2>6 DEF Quiet
  <1> QED BY <1>2, <1>3 DEF storeVars, tables

(* A handler that goes on working on its message leaves it sent, and tells *)
(* its sender nothing.                                                     *)
LEMMA WorkGoesOn ==
  ASSUME RouterTyped, NEW h \in Handlers, Handle(h),
         \A g \in Handlers \ {h} : handler'[g] = handler[g],
         handler'[h].id = handler[h].id, handler'[h].response = handler[h].response,
         handler'[h].pc # "idle"
  PROVE  Sent' = Sent /\ Told' = Told
  <1>1. TakenOn(h) /\ handler[h].response # "202 delivered"
    BY AtWork
  <1>2. TakenOn(h)'
    BY <1>1 DEF TakenOn
  <1> QED BY <1>1, <1>2, SentStays, ToldStays

LEMMA OwnSent ==
  ASSUME RouterTyped, NEW h \in Handlers, Handle(h),
         handler[h].pc \in {"submit", "deliver", "ack"}
  PROVE  handler[h].id \in MessageIds /\ handler[h].id \in Sent
  BY AtWork, WriterKnows DEF Sent

(* The message is written, unless it is known or too late.                 *)
LEMMA SubmitRecords ==
  ASSUME DeliveryInv, NEW h \in Handlers, SubmitReturns(h)
  PROVE  [D!Next]_(D!vars)
  <1> USE DEF DeliveryInv
  <1> DEFINE id == handler[h].id
             m == Row(h)
  <1>1. id \in MessageIds /\ id \in Sent /\ m \in Messages
    BY OwnSent, WriterKnows DEF SubmitReturns, At, Handle
  <1>2. Sent' = Sent /\ Told' = Told
    BY MoveMeans, WorkGoesOn DEF SubmitReturns, Handle
  <1>3. posts' = posts
    BY DEF SubmitReturns, Accepted
  <1>4. SubmitMessage(id, m, None)
    BY DEF SubmitReturns
  <1> HIDE DEF id, m
  <1>5. CASE InsertMessage(id, m, None)
    <2>1. /\ Outcomes[id] = "unrecorded"
          /\ Outcomes' = [Outcomes EXCEPT ![id] = "pending"]
      BY <1>1, <1>5, OutcomeOpens DEF DeliveryTyped
    <2>2. Carried' = Carried
      BY <1>3, <1>5, CarriedStays DEF InsertMessage
    <2>3. D!Record(id)
      BY <1>1, <1>2, <2>1, <2>2 DEF D!Record
    <2> QED BY <1>1, <2>3, RecordSteps
  <1>6. CASE UNCHANGED storeVars
    <2>1. acks' = acks /\ inbox' = inbox
      BY <1>6 DEF storeVars, tables
    <2> QED BY <1>2, <1>3, <2>1, CarriedStays, OutcomesStay, RecordSteps
  <1> QED BY <1>4, <1>5, <1>6 DEF SubmitMessage

(* A webhook that was called may have taken the message, whatever it       *)
(* answered; the inbox holds it once the store's call returns.             *)
LEMMA WebhookRecords ==
  ASSUME DeliveryInv, NEW h \in Handlers, WebhookOk(h) \/ WebhookFailed(h)
  PROVE  [D!Next]_(D!vars)
  <1> USE DEF DeliveryInv
  <1> DEFINE id == handler[h].id
  <1>1. id \in MessageIds /\ id \in Sent
    BY OwnSent DEF WebhookOk, WebhookFailed, Delivering, At, Handle
  <1>2. Sent' = Sent /\ Told' = Told
    BY SucceedMeans, TryNextMeans, WorkGoesOn DEF WebhookOk, WebhookFailed, Handle
  <1>3. acks' = acks /\ inbox' = inbox
    BY DEF WebhookOk, WebhookFailed, storeVars, tables
  <1>4. posts' = posts \/ posts' = [posts EXCEPT ![id] = @ + 1]
    BY PostFrames DEF Handle, PostFrame
  <1> HIDE DEF id
  <1>5. Outcomes' = Outcomes
    BY <1>3, OutcomesStay
  <1>6. CASE posts' = posts
    BY <1>2, <1>3, <1>5, <1>6, CarriedStays, RecordSteps
  <1>7. CASE posts' = [posts EXCEPT ![id] = @ + 1]
    <2>1. D!Reach(id, "webhook")
      BY <1>1, <1>2, <1>3, <1>5, <1>7, PostCarries DEF D!Reach
    <2> QED BY <1>1, <2>1, RecordSteps DEF ReachingChannels
  <1> QED BY <1>4, <1>6, <1>7

LEMMA InboxRecords ==
  ASSUME DeliveryInv, NEW h \in Handlers, InboxOk(h)
  PROVE  [D!Next]_(D!vars)
  <1> USE DEF DeliveryInv
  <1> DEFINE id == handler[h].id
             r == handler[h].recipient
             s == handler[h].sender
  <1>1. id \in MessageIds /\ id \in Sent /\ r \in Recipients /\ s \in Senders
    BY OwnSent, WriterKnows DEF InboxOk, Delivering, At, Handle
  <1>2. Sent' = Sent /\ Told' = Told
    BY SucceedMeans, WorkGoesOn DEF InboxOk, Handle
  <1>3. WriteAgentInbox(id, r, s) /\ posts' = posts
    BY DEF InboxOk, ghostVars
  <1> HIDE DEF id, r, s
  <1>4. Outcomes' = Outcomes
    BY <1>3, OutcomesStay DEF WriteAgentInbox
  <1>5. D!Reach(id, "agent-inbox")
    BY <1>1, <1>2, <1>3, <1>4, InboxCarries DEF D!Reach
  <1> QED BY <1>1, <1>5, RecordSteps DEF ReachingChannels

(* The delivery ends: what the ack and the response say is where the       *)
(* message went, whether the ack reaches the store or not.                 *)
LEMMA AckRecords ==
  ASSUME DeliveryInv, NEW h \in Handlers, AckReturns(h) \/ AckThrows(h)
  PROVE  [D!Next]_(D!vars)
  <1> USE DEF DeliveryInv
  <1> DEFINE id == handler[h].id
             channel == handler[h].result
             result == Result(NewStatus(h), channel)
  <1>1. /\ id \in MessageIds /\ id \in Sent /\ channel \in Plus(ChannelNames)
        /\ TakenOn(h) /\ handler[h].response # "202 delivered" /\ handler[h].pc = "ack"
    BY OwnSent, WriterKnows, AtWork DEF AckReturns, AckThrows, At, Handle
  <1>2. /\ NewStatus(h) \in {"failed", "delivered"}
        /\ NewError(h) \in {"DELIVERY_ERROR", None}
        /\ TrueOf(id, NewStatus(h), channel)
    BY <1>1, OutcomeTrue
  <1>3. result = "failed" \/ (channel # None /\ result = channel /\ channel \in Carried[id])
    <2>1. CASE channel = None
      BY <2>1 DEF NewStatus, Result
    <2>2. CASE channel # None
      <3>1. NewStatus(h) = "delivered" /\ result = channel /\ Reached(id, channel)
        BY <1>2, <2>2 DEF NewStatus, Result, TrueOf
      <3>2. channel \in ReachingChannels
        BY <3>1 DEF Reached, ReachingChannels
      <3>3. Carried[id] = {c \in ReachingChannels : Reached(id, c)}
        BY <1>1 DEF Carried
      <3> QED BY <2>2, <3>1, <3>2, <3>3
    <2> QED BY <2>1, <2>2
  <1>4. Carried[id] \subseteq ReachingChannels /\ "failed" \notin ReachingChannels
    BY <1>1 DEF Carried, ReachingChannels
  <1>5. Sent' = Sent
    <2>1. Respond(h, FinalResponse(h))
      BY DEF AckReturns, AckThrows
    <2>2. /\ \A g \in Handlers \ {h} : handler'[g] = handler[g]
          /\ handler'[h].id = handler[h].id /\ handler'[h].pc = "done"
          /\ handler'[h].response \in {"202 pending", "202 delivered"}
      BY <2>1, RespondMeans DEF FinalResponse
    <2>3. TakenOn(h)'
      BY <2>2 DEF TakenOn, Refusals
    <2> QED BY <1>1, <2>2, <2>3, SentStays
  <1>6. \/ Told' = Told
        \/ result # "failed" /\ Told' = [Told EXCEPT ![id] = @ \cup {result}]
    <2>1. /\ \A g \in Handlers \ {h} : handler'[g] = handler[g]
          /\ handler'[h].id = id /\ handler'[h].result = channel
          /\ handler'[h].response = FinalResponse(h)
      BY RespondMeans DEF AckReturns, AckThrows
    <2>2. CASE channel = None
      <3>1. handler'[h].response # "202 delivered"
        BY <2>1, <2>2 DEF FinalResponse
      <3> QED BY <1>1, <2>1, <3>1, ToldStays
    <2>3. CASE channel # None
      <3>1. handler'[h].response = "202 delivered" /\ result = channel
        BY <2>1, <2>3 DEF FinalResponse, NewStatus, Result
      <3>2. channel \in ReachingChannels
        BY <1>2, <2>3 DEF NewStatus, TrueOf, Reached, ReachingChannels
      <3>3. Told' = [Told EXCEPT ![id] = @ \cup {channel}]
        <4>1. PICK i \in MessageIds, c \in ReachingChannels : i = id /\ c = channel
          BY <1>1, <3>2
        <4>2. Told' = [Told EXCEPT ![i] = @ \cup {c}]
          BY <1>1, <2>1, <3>1, <4>1, ToldGrows
        <4> QED BY <4>1, <4>2
      <3> QED BY <1>4, <3>1, <3>2, <3>3
    <2> QED BY <2>2, <2>3
  <1>7. Carried' = Carried
    BY CarriedStays DEF AckReturns, AckThrows, UpdateAck, storeVars, tables, ghostVars
  <1>8. \/ Outcomes' = Outcomes
        \/ Outcomes[id] # "unrecorded" /\ Outcomes' = [Outcomes EXCEPT ![id] = result]
    <2>1. CASE AckReturns(h)
      <3>1. PICK i \in MessageIds, status \in {"failed", "delivered"},
                 c \in Plus(ChannelNames), error \in {"DELIVERY_ERROR", None} :
              i = id /\ status = NewStatus(h) /\ c = channel /\ error = NewError(h)
        BY <1>1, <1>2
      <3>2. UpdateAck(i, status, c, error) /\ TrueOf(i, status, c)
        BY <1>2, <2>1, <3>1 DEF AckReturns
      <3>3. \/ Outcomes' = Outcomes
            \/ /\ Outcomes[i] # "unrecorded"
               /\ Outcomes' = [Outcomes EXCEPT ![i] = Result(status, c)]
        BY <3>2, OutcomeCloses DEF DeliveryTyped
      <3> QED BY <3>1, <3>3
    <2>2. CASE AckThrows(h)
      BY <2>2, OutcomesStay DEF AckThrows, storeVars, tables
    <2> QED BY <2>1, <2>2
  <1>9. D!Close(id, result) /\ result \in ReachingChannels \cup {"failed"}
    <2> HIDE DEF id, result
    <2> QED BY <1>1, <1>3, <1>4, <1>5, <1>6, <1>7, <1>8 DEF D!Close
  <1> QED BY <1>1, <1>9, RecordSteps

(* A call that is applied late belongs to a message that was sent.         *)
LEMMA LateRecords ==
  ASSUME DeliveryInv, NEW c \in late, LateCall(c)
  PROVE  [D!Next]_(D!vars)
  <1> USE DEF DeliveryInv
  <1>0. c \in WriteCalls \cup AckCalls
    BY DEF DeliveryTyped
  <1>1. c.id \in MessageIds /\ c.id \in Sent
    <2>1. c.id \in MessageIds
      BY <1>0 DEF WriteCalls, AckCalls
    <2>2. Trace(c.id)
      BY DEF Trace
    <2> QED BY <2>1, <2>2, TracesSent
  <1>2. Sent' = Sent /\ Told' = Told
    <2>1. handler' = handler
      BY DEF LateCall, routerVars
    <2> QED BY <2>1, HandlersStay
  <1>3. CASE c.call = "submit_message"
    <2>1. c.row \in Messages
      BY <1>0, <1>3 DEF WriteCalls, AckCalls
    <2>2. SubmitMessage(c.id, c.row, None) /\ posts' = posts
      BY <1>3 DEF LateCall, Accepted
    <2>3. CASE InsertMessage(c.id, c.row, None)
      <3>1. /\ Outcomes[c.id] = "unrecorded"
            /\ Outcomes' = [Outcomes EXCEPT ![c.id] = "pending"]
        BY <1>1, <2>1, <2>3, OutcomeOpens DEF DeliveryTyped
      <3>2. Carried' = Carried
        BY <2>2, <2>3, CarriedStays DEF InsertMessage
      <3>3. D!Record(c.id)
        BY <1>1, <1>2, <3>1, <3>2 DEF D!Record
      <3> QED BY <1>1, <3>3, RecordSteps
    <2>4. CASE UNCHANGED storeVars
      <3>1. acks' = acks /\ inbox' = inbox
        BY <2>4 DEF storeVars, tables
      <3> QED BY <1>2, <2>2, <3>1, CarriedStays, OutcomesStay, RecordSteps
    <2> QED BY <2>2, <2>3, <2>4 DEF SubmitMessage
  <1>4. CASE c.call = "write_agent_inbox"
    <2>1. c.row.recipient \in Recipients /\ c.row.sender \in Senders
      BY <1>0, <1>4 DEF WriteCalls, AckCalls, Messages
    <2>2. WriteAgentInbox(c.id, c.row.recipient, c.row.sender) /\ posts' = posts
      BY <1>4 DEF LateCall, ghostVars
    <2>3. Carried' = [Carried EXCEPT ![c.id] = @ \cup {"agent-inbox"}]
      BY <1>1, <2>1, <2>2, InboxCarries
    <2>4. Outcomes' = Outcomes
      BY <2>2, OutcomesStay DEF WriteAgentInbox
    <2>5. D!Reach(c.id, "agent-inbox")
      BY <1>1, <1>2, <2>3, <2>4 DEF D!Reach
    <2> QED BY <1>1, <2>5, RecordSteps DEF ReachingChannels
  <1>5. CASE c.call = "update_ack"
    <2>1. /\ c.status \in {"failed", "delivered"} /\ c.channel \in Plus(ChannelNames)
          /\ c.error \in {"DELIVERY_ERROR", None}
      BY <1>0, <1>5 DEF WriteCalls, AckCalls
    <2>2. /\ UpdateAck(c.id, c.status, c.channel, c.error) /\ posts' = posts
          /\ TrueOf(c.id, c.status, c.channel)
      BY <1>5 DEF LateCall, ghostVars, ClaimsTrue
    <2> DEFINE result == Result(c.status, c.channel)
    <2>3. /\ result \in Carried[c.id] \cup {"failed"}
          /\ \/ Outcomes' = Outcomes
             \/ /\ Outcomes[c.id] # "unrecorded"
                /\ Outcomes' = [Outcomes EXCEPT ![c.id] = result]
      BY <1>1, <2>1, <2>2, OutcomeCloses DEF DeliveryTyped
    <2> HIDE DEF result
    <2>4. Carried' = Carried
      BY <2>2, CarriedStays DEF UpdateAck, storeVars, tables
    <2>5. D!Close(c.id, result) /\ result \in ReachingChannels \cup {"failed"}
      <3>1. Carried[c.id] \subseteq ReachingChannels
        BY <1>1 DEF Carried
      <3> QED BY <1>1, <1>2, <2>3, <2>4, <3>1 DEF D!Close
    <2> QED BY <1>1, <2>5, RecordSteps
  <1> QED BY <1>3, <1>4, <1>5 DEF LateCall

(* The sweep closes records; the others leave the record alone.            *)
LEMMA EnvironmentRecords ==
  ASSUME DeliveryInv, Environment
  PROVE  [D!Next]_(D!vars)
  <1> USE DEF DeliveryInv
  <1>1. ASSUME ~(\E c \in late : LateCall(c))
        PROVE  Sent' = Sent /\ Told' = Told /\ posts' = posts
    <2>1. posts' = posts
      BY OthersFrame
    <2>2. CASE Crash
      <3>1. ASSUME NEW g \in Handlers
            PROVE  /\ handler'[g].id = handler[g].id /\ handler'[g].result = handler[g].result
                   /\ handler'[g].response = handler[g].response
                   /\ handler'[g].pc = "idle" <=> handler[g].pc = "idle"
        <4>1. handler[g] \in HandlerStates
          BY Known
        <4>2. handler'[g] = IF Running(g) THEN [handler[g] EXCEPT !.pc = "lost"]
                            ELSE handler[g]
          BY <2>2 DEF Crash
        <4> QED BY <4>1, <4>2 DEF HandlerStates, Running
      <3> QED BY <2>1, <3>1, HandlersStay
    <2>3. CASE ~Crash
      <3>1. handler' = handler
        BY <2>3, EnvironmentFrame DEF routerVars, Clock, ChangeAnswer, ChangeWebhook
      <3> QED BY <2>1, <3>1, HandlersStay
    <2> QED BY <2>2, <2>3
  <1>2. CASE \E c \in late : LateCall(c)
    BY <1>2, LateRecords
  <1>3. CASE ~(\E c \in late : LateCall(c)) /\ Sweep
    <2> DEFINE ids == {id \in MessageIds : Overdue(id)}
    <2>1. ExpireMessages /\ Carried' = Carried
      BY <1>1, <1>3, CarriedStays DEF Sweep, ExpireMessages
    <2>2. /\ \A id \in ids : Outcomes[id] \in ReachingChannels \cup {"pending"}
          /\ Outcomes' = [id \in MessageIds |->
                            IF id \in ids THEN "expired" ELSE Outcomes[id]]
      BY <2>1, OutcomesExpire DEF DeliveryTyped
    <2>3. ids \in SUBSET MessageIds
      OBVIOUS
    <2> HIDE DEF ids
    <2>4. D!Expire(ids)
      BY <1>1, <1>3, <2>1, <2>2 DEF D!Expire
    <2> QED BY <2>3, <2>4, RecordSteps
  <1>4. CASE ~(\E c \in late : LateCall(c)) /\ ~Sweep
    <2>1. acks' = acks /\ \A id \in MessageIds : inbox'[id] # None <=> inbox[id] # None
      <3>1. CASE \/ \E pair \in Pairs, answer \in ChainAnswers : ChangeAnswer(pair, answer)
                 \/ \E r \in Recipients, url \in Urls \cup {None} : ChangeWebhook(r, url)
                 \/ Crash
        BY <3>1 DEF ChangeAnswer, ChangeWebhook, Crash, storeVars, tables
      <3>2. CASE Heartbeat \/ Clock
        BY <3>2 DEF Heartbeat, Clock, RegisterNode, Tick, tables
      <3>3. ASSUME NEW i \in MessageIds, AgentReads(i)
            PROVE  acks' = acks /\ \A id \in MessageIds : inbox'[id] # None <=> inbox[id] # None
        <4>1. /\ acks' = acks /\ inbox[i] # None
              /\ inbox' = [inbox EXCEPT ![i].read = TRUE]
          BY <3>3 DEF AgentReads, MarkInboxRead
        <4>2. /\ inbox \in [MessageIds -> InboxEntries \cup {None}]
              /\ None \notin InboxEntries
          BY StoreAssumption DEF DeliveryTyped, StoreTypeOK
        <4>3. [inbox[i] EXCEPT !.read = TRUE] \in InboxEntries
          BY <4>1, <4>2 DEF InboxEntries
        <4> QED BY <4>1, <4>2, <4>3
      <3> QED BY <1>4, <3>1, <3>2, <3>3 DEF Environment
    <2> QED BY <1>1, <1>4, <2>1, CarriedStays, OutcomesStay, RecordSteps
  <1> QED BY <1>2, <1>3, <1>4

(* The steps of a handler together.                                        *)
LEMMA HandleRecords ==
  ASSUME DeliveryInv, RouterTyped', TracesOwned', NEW h \in Handlers, Handle(h)
  PROVE  [D!Next]_(D!vars)
  <1>1. CASE Quiet(h)
    <2>1. /\ \A g \in Handlers \ {h} : handler'[g] = handler[g]
          /\ handler'[h].id = handler[h].id
      BY HandleOutcome DEF Outcome, DeliveryInv
    <2>2. TakenOn(h) /\ handler[h].response # "202 delivered"
      BY AtWork DEF DeliveryInv
    <2>3. /\ UNCHANGED <<messages, acks, inbox, posts>>
          /\ handler'[h].response # "202 delivered"
      BY <1>1, QuietMeans DEF DeliveryInv
    <2> QED BY <2>1, <2>2, <2>3, QuietRecords
  <1>2. CASE ~Quiet(h)
    <2>1. \/ SubmitReturns(h) \/ WebhookOk(h) \/ WebhookFailed(h) \/ InboxOk(h)
          \/ AckReturns(h) \/ AckThrows(h)
      BY <1>2 DEF Handle, Quiet
    <2> QED BY <2>1, SubmitRecords, WebhookRecords, InboxRecords, AckRecords
  <1> QED BY <1>1, <1>2

(* It is inductive.                                                        *)
LEMMA StepTogether ==
  ASSUME DeliveryInv, [Next]_vars
  PROVE  RowsTogether'
  <1>1. StoreStep
    BY AnyStoreStep DEF DeliveryInv
  <1> QED BY <1>1, TogetherStays DEF DeliveryInv, DeliveryTyped

LEMMA DeliveryStep == DeliveryInv /\ [Next]_vars => DeliveryInv'
  <1> SUFFICES ASSUME DeliveryInv, [Next]_vars PROVE DeliveryInv'
    OBVIOUS
  <1>1. RouterTyped'
    BY RouterStepTyped DEF DeliveryInv
  <1>2. DeliveryTyped' /\ ClaimsTrue' /\ TracesOwned'
    BY DeliveryStepTyped, StepClaims, StepTraces DEF DeliveryInv
  <1>3. RowsTogether'
    BY StepTogether
  <1> QED BY <1>1, <1>2, <1>3 DEF DeliveryInv

LEMMA DeliveryStart == Init => DeliveryInv
  <1> SUFFICES ASSUME Init PROVE DeliveryInv
    OBVIOUS
  <1>1. RouterTyped /\ DeliveryTyped /\ ClaimsTrue
    BY RouterInitTyped, InitDelivery
  <1>2. \A id \in MessageIds :
          /\ messages[id] = None /\ threads[id] = None /\ acks[id] = None
          /\ inbox[id] = None /\ posts[id] = 0
    BY DEF Init, StoreInit
  <1>3. TracesOwned
    BY <1>2 DEF Init, TracesOwned, Trace
  <1>4. RowsTogether
    BY <1>2 DEF RowsTogether
  <1> QED BY <1>1, <1>3, <1>4 DEF DeliveryInv

(* Every step of router and store is one of the record, or none.           *)
LEMMA StepRecords == DeliveryInv /\ [Next]_vars => [D!Next]_(D!vars)
  <1> SUFFICES ASSUME DeliveryInv, [Next]_vars PROVE [D!Next]_(D!vars)
    OBVIOUS
  <1>1. RouterTyped' /\ TracesOwned'
    BY DeliveryStep DEF DeliveryInv
  <1>2. CASE UNCHANGED vars
    <2>1. handler' = handler /\ acks' = acks /\ inbox' = inbox /\ posts' = posts
      BY <1>2 DEF vars, storeVars, tables, routerVars, ghostVars
    <2> QED BY <2>1, HandlersStay, OutcomesStay, CarriedStays, RecordSteps
  <1>3. CASE Environment
    BY <1>3, EnvironmentRecords
  <1>4. ASSUME NEW h \in Handlers, Arrive(h) \/ Handle(h)
        PROVE  [D!Next]_(D!vars)
    BY <1>1, <1>4, ArriveRecords, HandleRecords
  <1> QED BY <1>2, <1>3, <1>4 DEF Next

LEMMA InitRecords == Init => D!Init
  <1> SUFFICES ASSUME Init PROVE D!Init
    OBVIOUS
  <1>1. \A h \in Handlers : handler[h] = NoHandler
    BY DEF Init
  <1>2. NoHandler.pc = "idle" /\ NoHandler.response = None /\ None # "202 delivered"
    BY RouterAssumption DEF NoHandler, Responses
  <1>3. Sent = {}
    BY <1>1, <1>2 DEF Sent, TakenOn
  <1>4. Told = [id \in MessageIds |-> {}]
    <2>1. \A id \in MessageIds : Told[id] = {}
      BY <1>1, <1>2 DEF Told
    <2> QED BY <2>1, RecordShapes
  <1>5. \A id \in MessageIds : acks[id] = None /\ inbox[id] = None /\ posts[id] = 0
    BY DEF Init, StoreInit
  <1>6. Outcomes = [id \in MessageIds |-> "unrecorded"]
    BY <1>5 DEF Outcomes, OnRecord
  <1>7. Carried = [id \in MessageIds |-> {}]
    <2>1. \A id \in MessageIds : Carried[id] = {}
      BY <1>5, NothingCarried
    <2> QED BY <2>1, RecordShapes
  <1> QED BY <1>3, <1>4, <1>6, <1>7 DEF D!Init

(* The router and the store implement the delivery record, for any number  *)
(* of handlers and messages, any failing calls, late or lost ones, retries *)
(* and crashes: only a message that was taken on is recorded or reaches    *)
(* anyone, its record opens once and never turns pending again, and every  *)
(* channel that a record or a response names took the message before.      *)
THEOREM DeliveryImplemented == Spec => DeliveryKept
  <1>1. Init => DeliveryInv /\ D!Init
    BY DeliveryStart, InitRecords
  <1>2. DeliveryInv /\ [Next]_vars => DeliveryInv' /\ [D!Next]_(D!vars)
    BY DeliveryStep, StepRecords
  <1> QED BY <1>1, <1>2, PTL DEF Spec, DeliveryKept, D!Spec

(* No message of the router's is without its ack, no ack without a message.*)
THEOREM RoutedRowsTogether == Spec => []RowsTogether
  <1>1. DeliveryInv => RowsTogether
    BY DEF DeliveryInv
  <1> QED BY <1>1, DeliveryStart, DeliveryStep, PTL DEF Spec

-----------------------------------------------------------------------------
(* How far the rate limit can be overshot.  The property counts messages;  *)
(* the invariant counts with them the sends that were counted, hold the    *)
(* same limit and have not written yet.  It says nothing of the clock: a   *)
(* send that is counted now finds all of them among the messages it counts *)
(* against the window of now.                                              *)

(* Counted against a limit in window w or before, not written yet, for a   *)
(* message created since w began.                                          *)
Outstanding(pair, limit, w) ==
  {h \in Handlers :
    /\ handler[h].pc \in {"threat", "submit"} /\ PairOf(h) = pair
    /\ handler[h].createdAt >= w * limit.period
    /\ handler[h].count # None
    /\ handler[h].count.limit = limit /\ handler[h].count.window <= w}

WindowFits(pair, limit, w) ==
  Cardinality(CountedSince(pair, limit, w)) + Cardinality(Outstanding(pair, limit, w))
    <= limit.count - 1 + MaxInFlight

Limits ==
  {limit \in {a.limit : a \in ChainAnswers} : limit # None /\ limit.period # 0}

WindowsFit ==
  \A pair \in Pairs, limit \in Limits, w \in Nat : WindowFits(pair, limit, w)

Active == {h \in Handlers : Running(h)}
Recorded == {id \in MessageIds : messages[id] # None}

FewAtOnce ==
  /\ IsFiniteSet(Active) /\ Cardinality(Active) <= MaxInFlight
  /\ IsFiniteSet(Recorded)

AcceptedTyped ==
  accepted \in [MessageIds -> Plus([at : Nat, count : Plus(Counts)])]

OvershootInv == AcceptedTyped /\ FewAtOnce /\ WindowsFit

(* Part of a finite set.                                                   *)
LEMMA PartOfFinite ==
  ASSUME NEW S, IsFiniteSet(S), NEW T, T \subseteq S
  PROVE  /\ IsFiniteSet(T) /\ Cardinality(T) \in Nat /\ Cardinality(S) \in Nat
         /\ Cardinality(T) <= Cardinality(S)
  BY FS_Subset, FS_CardinalityType

LEMMA LimitNumbers ==
  ASSUME NEW limit \in Limits
  PROVE  limit.count \in Nat /\ limit.period \in Nat \ {0} /\ limit # None
  BY RouterAssumption DEF Limits

-----------------------------------------------------------------------------
(* Where a handler's step leads, as far as the count is concerned.         *)

(* The count let h go on, against the limit of the answer it holds.        *)
LetThrough(h) ==
  LET limit == handler[h].answer.limit
  IN /\ handler[h].answer \in ChainAnswers /\ limit \in Limits
     /\ handler'[h].count = [limit |-> limit, window |-> now \div limit.period]
     /\ CountInWindow(handler[h].sender, handler[h].recipient, limit.period) < limit.count

Path(h) ==
  \/ handler'[h].pc \notin {"threat", "submit"}
  \/ /\ handler[h].pc = "threat" /\ handler'[h].pc = "submit" /\ PairOf(h)' = PairOf(h)
     /\ handler'[h].createdAt = handler[h].createdAt
     /\ handler'[h].count = handler[h].count
  \/ handler'[h].count = None
  \/ LetThrough(h) /\ PairOf(h)' = PairOf(h)

(* The count found fewer messages than the limit.                          *)
LEMMA EnforcePath ==
  ASSUME RouterTyped, NEW h \in Handlers, EnforceRateLimit(h)
  PROVE  Path(h)
  <1> DEFINE limit == handler[h].answer.limit
             used == CountInWindow(handler[h].sender, handler[h].recipient, limit.period)
  <1>1. ASSUME NEW code, Respond(h, code) PROVE Path(h)
    BY <1>1, RespondMeans DEF Path
  <1>2. CASE Exceeds(h)
    BY <1>1, <1>2 DEF Exceeds
  <1>3. CASE ~Exceeds(h) /\ Passes(h, CountAgainst(limit))
    <2>1. \/ limit = None
          \/ used < limit.count /\ limit.period # 0
      BY <1>3 DEF EnforceRateLimit
    <2>2. CASE PassedLimit(h, CountAgainst(limit))
      <3>1. handler'[h].count = CountAgainst(limit) /\ PairOf(h)' = PairOf(h)
        BY <2>2 DEF PassedLimit, PairOf
      <3>2. CASE limit = None
        BY <3>1, <3>2 DEF CountAgainst, Path
      <3>3. CASE limit # None
        <4>1. handler[h].pc = "limit" /\ handler[h].answer \in Answers
          BY Known DEF EnforceRateLimit, At, Coherent
        <4>2. handler[h].answer \in ChainAnswers
          BY <3>3, <4>1 DEF Answers, UnavailableAnswer
        <4>3. limit \in Limits /\ used < limit.count
          BY <2>1, <3>3, <4>2 DEF Limits
        <4>4. handler'[h].count = [limit |-> limit, window |-> now \div limit.period]
          BY <3>1, <3>3 DEF CountAgainst
        <4> QED BY <3>1, <4>2, <4>3, <4>4 DEF LetThrough, Path
      <3> QED BY <3>2, <3>3
    <2> QED BY <1>1, <1>3, <2>2, PassesMeans
  <1> QED BY <1>2, <1>3 DEF EnforceRateLimit

LEMMA ArrivePath ==
  ASSUME RouterTyped, NEW h \in Handlers, Arrive(h)
  PROVE  Path(h)
  <1>1. ASSUME NEW id \in MessageIds, NEW pair \in Pairs, NEW skew \in Skews,
               NEW ttl \in Ttls, Receive(h, id, pair[1], pair[2], skew, ttl)
        PROVE  Path(h)
    <2> DEFINE created == now + skew
               late0 == created + ttl
               request == [NoHandler EXCEPT
                    !.id = id, !.sender = pair[1], !.recipient = pair[2],
                    !.createdAt = created, !.expiresAt = late0]
    <2> HIDE DEF created, late0
    <2>1. NoHandler \in HandlerStates
      BY NoHandlerTyped DEF HandlerRecords
    <2>2. /\ [request EXCEPT !.pc = "permission"].pc = "permission"
          /\ [request EXCEPT !.pc = "done", !.response = "400"].pc = "done"
      BY <2>1 DEF HandlerStates
    <2>3. \/ Go(h, [request EXCEPT !.pc = "permission"])
          \/ Go(h, [request EXCEPT !.pc = "done", !.response = "400"])
      BY <1>1 DEF Receive, created, late0
    <2> HIDE DEF request
    <2>4. handler'[h].pc \in {"permission", "done"}
      BY <2>2, <2>3, GoMeans
    <2> QED BY <2>4 DEF Path
  <1>2. ASSUME NEW pair \in Pairs, CheckArrives(h, pair)
        PROVE  Path(h)
    <2> DEFINE rec == [NoHandler EXCEPT !.pc = "permission", !.sender = pair[1],
                                        !.recipient = pair[2]]
    <2>1. rec.pc = "permission"
      BY DEF NoHandler
    <2> HIDE DEF rec
    <2>2. handler'[h].pc = "permission"
      BY <1>2, <2>1, GoMeans DEF CheckArrives, rec
    <2> QED BY <2>2 DEF Path
  <1>3. CASE ReceiveMalformed(h)
    BY <1>3, RespondMeans DEF ReceiveMalformed, Path
  <1> QED BY <1>1, <1>2, <1>3 DEF Arrive

LEMMA HandlePath ==
  ASSUME RouterTyped, NEW h \in Handlers, Handle(h)
  PROVE  Path(h)
  <1>1. ASSUME NEW code, Respond(h, code) PROVE Path(h)
    BY <1>1, RespondMeans DEF Path
  <1>2. CASE PermissionCached(h) \/ RegistryAnswers(h) \/ RegistryUnavailable(h)
    <2>1. \E answer, source : Decide(h, answer, source)
      BY <1>2 DEF PermissionCached, RegistryAnswers, RegistryUnavailable
    <2> QED BY <2>1, DecideMeans DEF Path
  <1>3. CASE AskRegistry(h)
    <2> DEFINE rec == [handler[h] EXCEPT !.pc = "answered", !.answer = chain[PairOf(h)],
                                         !.asked = now]
    <2>1. rec.pc = "answered"
      BY Known DEF HandlerStates
    <2> HIDE DEF rec
    <2>2. handler'[h].pc = "answered"
      BY <1>3, <2>1, GoMeans DEF AskRegistry, rec
    <2> QED BY <2>2 DEF Path
  <1>4. CASE CountFails(h)
    <2>1. Passes(h, None)
      BY <1>4 DEF CountFails
    <2>2. CASE PassedLimit(h, None)
      BY <2>2 DEF PassedLimit, Path
    <2> QED BY <1>1, <2>1, <2>2, PassesMeans
  <1>5. CASE SenderClean(h)
    <2> DEFINE rec == [handler[h] EXCEPT !.pc = "submit"]
    <2>1. handler[h] \in HandlerStates
      BY Known
    <2>2. /\ rec.createdAt = handler[h].createdAt /\ rec.count = handler[h].count
          /\ rec.sender = handler[h].sender /\ rec.recipient = handler[h].recipient
          /\ rec.pc = "submit"
      BY <2>1 DEF HandlerStates
    <2>3. handler[h].pc = "threat" /\ handler'[h] = rec
      BY <1>5, GoMeans DEF SenderClean, At, Move
    <2> HIDE DEF rec
    <2> QED BY <2>2, <2>3 DEF Path, PairOf
  <1>6. CASE SenderListed(h) \/ SubmitThrows(h) \/ AckReturns(h) \/ AckThrows(h)
    <2>1. \E code : Respond(h, code)
      BY <1>6, Zenon DEF SenderListed, SubmitThrows, AckReturns, AckThrows
    <2> QED BY <1>1, <2>1
  <1>7. CASE SubmitReturns(h)
    BY <1>7, MoveMeans DEF SubmitReturns, Path
  <1>8. CASE \/ PreferencesCached(h) \/ AskPreferences(h) \/ PreferencesAnswer(h)
             \/ PreferencesFail(h)
    BY <1>8, PreferencesMean DEF Path
  <1>9. CASE \/ NoEndpoint(h) \/ WebhookOk(h) \/ WebhookFailed(h)
             \/ InboxOk(h) \/ InboxThrows(h)
    <2>1. TryNext(h) \/ \E channel : Succeed(h, channel)
      BY <1>9 DEF NoEndpoint, WebhookOk, WebhookFailed, InboxOk, InboxThrows
    <2> QED BY <2>1, TryNextMeans, SucceedMeans DEF Path
  <1> QED BY <1>2, <1>3, <1>4, <1>5, <1>6, <1>7, <1>8, <1>9, EnforcePath DEF Handle

(* A handler joins those that hold a place only by being let through.      *)
LEMMA OutstandingMoves ==
  ASSUME NEW h \in Handlers, Path(h),
         \A g \in Handlers \ {h} : handler'[g] = handler[g],
         NEW pair \in Pairs, NEW limit \in Limits, NEW w \in Nat
  PROVE  \/ Outstanding(pair, limit, w)' \subseteq Outstanding(pair, limit, w)
         \/ /\ LetThrough(h) /\ PairOf(h) = pair
            /\ handler[h].answer.limit = limit /\ now \div limit.period <= w
  <1>1. Outstanding(pair, limit, w)' \ {h} \subseteq Outstanding(pair, limit, w)
    BY DEF Outstanding, PairOf
  <1>2. h \in Outstanding(pair, limit, w)' <=>
          /\ handler'[h].pc \in {"threat", "submit"} /\ PairOf(h)' = pair
          /\ handler'[h].createdAt >= w * limit.period
          /\ handler'[h].count # None
          /\ handler'[h].count.limit = limit /\ handler'[h].count.window <= w
    BY DEF Outstanding, PairOf
  <1>3. CASE h \notin Outstanding(pair, limit, w)'
    BY <1>1, <1>3
  <1>4. CASE /\ handler[h].pc = "threat" /\ PairOf(h)' = PairOf(h)
             /\ handler'[h].createdAt = handler[h].createdAt
             /\ handler'[h].count = handler[h].count
    <2>1. h \in Outstanding(pair, limit, w)' => h \in Outstanding(pair, limit, w)
      BY <1>2, <1>4 DEF Outstanding
    <2> QED BY <1>1, <2>1
  <1>5. CASE h \in Outstanding(pair, limit, w)' /\ LetThrough(h) /\ PairOf(h)' = PairOf(h)
    <2>1. /\ handler'[h].count.limit = handler[h].answer.limit
          /\ handler'[h].count.window = now \div handler[h].answer.limit.period
      BY <1>5 DEF LetThrough
    <2> QED BY <1>2, <1>5, <2>1
  <1> QED BY <1>2, <1>3, <1>4, <1>5 DEF Path

(* The places a window can have taken are finitely many.                   *)
LEMMA WindowSets ==
  ASSUME FewAtOnce, NEW pair, NEW limit, NEW w
  PROVE  /\ IsFiniteSet(CountedSince(pair, limit, w))
         /\ Cardinality(CountedSince(pair, limit, w)) \in Nat
         /\ IsFiniteSet(Outstanding(pair, limit, w))
         /\ Cardinality(Outstanding(pair, limit, w)) \in Nat
         /\ Cardinality(Outstanding(pair, limit, w)) <= MaxInFlight
  <1>1. CountedSince(pair, limit, w) \subseteq Recorded
    BY DEF CountedSince, Recorded
  <1>2. Outstanding(pair, limit, w) \subseteq Active
    BY DEF Outstanding, Active, Running
  <1>3. /\ IsFiniteSet(Outstanding(pair, limit, w))
        /\ Cardinality(Outstanding(pair, limit, w)) \in Nat
        /\ Cardinality(Active) \in Nat
        /\ Cardinality(Outstanding(pair, limit, w)) <= Cardinality(Active)
    BY <1>2, PartOfFinite DEF FewAtOnce
  <1>4. Cardinality(Outstanding(pair, limit, w)) <= MaxInFlight
    BY <1>3, RouterAssumption DEF FewAtOnce
  <1> QED BY <1>1, <1>3, <1>4, PartOfFinite DEF FewAtOnce

(* What lies after the start of a window that has not ended lies after the *)
(* start of the window of now.                                             *)
LEMMA WindowsInOrder ==
  ASSUME NEW period \in Nat \ {0}, NEW t \in Nat, NEW w \in Nat, t \div period <= w,
         NEW created \in Int, created >= w * period
  PROVE  created >= (t \div period) * period
  <1> DEFINE q == t \div period
  <1>1. q \in Nat /\ q <= w
    OBVIOUS
  <1> HIDE DEF q
  <1>2. q * period <= w * period
    BY <1>1
  <1>3. q * period \in Int /\ w * period \in Int
    BY <1>1
  <1>4. created >= q * period
    BY <1>2, <1>3
  <1> QED BY <1>4 DEF q

(* A send that was let through found the messages counted in its window,   *)
(* and before it, to be fewer than the limit.                              *)
LEMMA CountCovers ==
  ASSUME RouterTyped, StoreTypeOK, FewAtOnce, NEW h \in Handlers, LetThrough(h),
         NEW w \in Nat, now \div handler[h].answer.limit.period <= w
  PROVE  Cardinality(CountedSince(PairOf(h), handler[h].answer.limit, w))
           <= handler[h].answer.limit.count - 1
  <1> DEFINE limit == handler[h].answer.limit
             counted ==
               {id \in MessageIds :
                 /\ messages[id] # None
                 /\ messages[id].sender = handler[h].sender
                 /\ messages[id].recipient = handler[h].recipient
                 /\ messages[id].createdAt >= WindowStart(limit.period)}
             since == CountedSince(PairOf(h), limit, w)
  <1>1. limit \in Limits /\ Cardinality(counted) < limit.count
    BY DEF LetThrough, CountInWindow
  <1>2. limit.period \in Nat \ {0} /\ limit.count \in Nat /\ now \in Nat
    BY <1>1, LimitNumbers DEF RouterTyped
  <1>3. since \subseteq counted
    <2> SUFFICES ASSUME NEW id \in since PROVE id \in counted
      OBVIOUS
    <2>1. /\ id \in MessageIds /\ messages[id] # None
          /\ messages[id].sender = handler[h].sender
          /\ messages[id].recipient = handler[h].recipient
          /\ messages[id].createdAt >= w * limit.period
      BY DEF CountedSince, PairOf
    <2>2. messages[id].createdAt \in Int
      BY <2>1 DEF StoreTypeOK, Messages
    <2>3. messages[id].createdAt >= (now \div limit.period) * limit.period
      BY <1>2, <2>1, <2>2, WindowsInOrder
    <2> QED BY <2>1, <2>3 DEF WindowStart
  <1>4. counted \subseteq Recorded
    BY DEF Recorded
  <1> HIDE DEF counted, since
  <1>5. IsFiniteSet(counted)
    BY <1>4, PartOfFinite DEF FewAtOnce
  <1>6. /\ Cardinality(since) \in Nat /\ Cardinality(counted) \in Nat
        /\ Cardinality(since) <= Cardinality(counted)
    BY <1>3, <1>5, PartOfFinite
  <1>7. Cardinality(since) <= limit.count - 1
    BY <1>1, <1>2, <1>6
  <1> QED BY <1>7 DEF since

-----------------------------------------------------------------------------
(* What is written, and with what count.                                   *)

Writes(id, row, count) ==
  /\ messages[id] = None
  /\ messages' = [messages EXCEPT ![id] = row]
  /\ accepted' = [accepted EXCEPT ![id] = [at |-> now, count |-> count]]

NoWrite == UNCHANGED <<messages, accepted>>

LEMMA SubmitWrites ==
  ASSUME NEW id, NEW row, NEW count, SubmitMessage(id, row, None), Accepted(id, row, count)
  PROVE  NoWrite \/ Writes(id, row, count)
  BY DEF SubmitMessage, InsertMessage, Accepts, Accepted, NoWrite, Writes, storeVars, tables

LEMMA HandlerWrites ==
  ASSUME NEW h \in Handlers, Arrive(h) \/ Handle(h)
  PROVE  \/ NoWrite
         \/ SubmitReturns(h) /\ Writes(handler[h].id, Row(h), handler[h].count)
  <1> USE DEF storeVars, tables, ghostVars, NoWrite
  <1>1. CASE Arrive(h)
    BY <1>1 DEF Arrive, Receive, CheckArrives, ReceiveMalformed
  <1>2. CASE \/ PermissionCached(h) \/ AskRegistry(h) \/ RegistryAnswers(h)
             \/ RegistryUnavailable(h) \/ EnforceRateLimit(h) \/ CountFails(h)
             \/ SenderClean(h) \/ SenderListed(h)
    BY <1>2 DEF PermissionCached, AskRegistry, RegistryAnswers, RegistryUnavailable,
                EnforceRateLimit, CountFails, SenderClean, SenderListed
  <1>3. CASE \/ SubmitThrows(h) \/ PreferencesCached(h)
             \/ AskPreferences(h) \/ PreferencesAnswer(h) \/ PreferencesFail(h)
    BY <1>3 DEF SubmitThrows, PreferencesCached, AskPreferences,
                PreferencesAnswer, PreferencesFail
  <1>4. CASE \/ NoEndpoint(h) \/ WebhookOk(h) \/ WebhookFailed(h)
             \/ InboxOk(h) \/ InboxThrows(h) \/ AckReturns(h) \/ AckThrows(h)
    BY <1>4 DEF NoEndpoint, WebhookOk, WebhookFailed, InboxOk, InboxThrows, AckReturns,
                AckThrows, WriteAgentInbox, UpdateAck, Posted
  <1>5. CASE SubmitReturns(h)
    BY <1>5, SubmitWrites DEF SubmitReturns
  <1> QED BY <1>1, <1>2, <1>3, <1>4, <1>5 DEF Handle

LEMMA OtherWrites ==
  ASSUME DeliveryTyped, Environment
  PROVE  \/ NoWrite
         \/ \E id \in MessageIds, row \in Messages : Writes(id, row, None)
  <1> USE DEF storeVars, tables, ghostVars, NoWrite
  <1>1. ASSUME NEW c \in late, LateCall(c)
        PROVE  \/ NoWrite
               \/ \E id \in MessageIds, row \in Messages : Writes(id, row, None)
    <2>1. CASE c.call = "submit_message"
      <3>1. c.id \in MessageIds /\ c.row \in Messages
        BY <2>1 DEF DeliveryTyped, WriteCalls, AckCalls
      <3>2. SubmitMessage(c.id, c.row, None) /\ Accepted(c.id, c.row, None)
        BY <1>1, <2>1 DEF LateCall
      <3> QED BY <3>1, <3>2, SubmitWrites
    <2>2. CASE c.call # "submit_message"
      BY <1>1, <2>2 DEF LateCall, WriteAgentInbox, UpdateAck
    <2> QED BY <2>1, <2>2
  <1>2. CASE \/ \E pair \in Pairs, answer \in ChainAnswers : ChangeAnswer(pair, answer)
             \/ \E r \in Recipients, url \in Urls \cup {None} : ChangeWebhook(r, url)
             \/ Crash
    BY <1>2 DEF ChangeAnswer, ChangeWebhook, Crash
  <1>3. CASE (\E id \in MessageIds : AgentReads(id)) \/ Heartbeat \/ Sweep \/ Clock
    BY <1>3 DEF AgentReads, MarkInboxRead, Heartbeat, RegisterNode, Sweep, ExpireMessages,
                Clock, Tick
  <1> QED BY <1>1, <1>2, <1>3 DEF Environment

(* A written message is counted in a window if it was counted when it was  *)
(* let through; a known one changes nothing.                               *)
LEMMA RowCounted ==
  ASSUME AcceptedTyped, StoreTypeOK, NEW id \in MessageIds, NEW row \in Messages,
         NEW count \in Plus(Counts), Writes(id, row, count),
         NEW pair \in Pairs, NEW limit \in Limits, NEW w \in Nat
  PROVE  /\ CountedSince(pair, limit, w)' \subseteq CountedSince(pair, limit, w) \cup {id}
         /\ id \in CountedSince(pair, limit, w)' =>
              /\ <<row.sender, row.recipient>> = pair
              /\ row.createdAt >= w * limit.period
              /\ count # None /\ count.limit = limit /\ count.window <= w
  <1> DEFINE entry == [at |-> now, count |-> count]
  <1>1. entry.count = count
    OBVIOUS
  <1>2. accepted' = [accepted EXCEPT ![id] = entry]
    BY DEF Writes
  <1> HIDE DEF entry
  <1>3. /\ messages'[id] = row /\ accepted'[id] = entry
        /\ \A i \in MessageIds \ {id} :
             messages'[i] = messages[i] /\ accepted'[i] = accepted[i]
    BY <1>2 DEF Writes, StoreTypeOK, AcceptedTyped
  <1> QED BY <1>1, <1>3 DEF CountedSince

LEMMA AcceptedStays ==
  ASSUME RouterTyped, AcceptedTyped,
         \/ NoWrite
         \/ \E id \in MessageIds, row \in Messages, count \in Plus(Counts) :
              Writes(id, row, count)
  PROVE  AcceptedTyped'
  <1>1. CASE NoWrite
    BY <1>1 DEF NoWrite, AcceptedTyped
  <1>2. ASSUME NEW id \in MessageIds, NEW row \in Messages, NEW count \in Plus(Counts),
               Writes(id, row, count)
        PROVE  AcceptedTyped'
    <2> DEFINE entry == [at |-> now, count |-> count]
    <2>1. entry \in Plus([at : Nat, count : Plus(Counts)])
      BY PlusHas DEF RouterTyped
    <2>2. accepted' = [accepted EXCEPT ![id] = entry]
      BY <1>2 DEF Writes
    <2> HIDE DEF entry
    <2> QED BY <2>1, <2>2 DEF AcceptedTyped
  <1> QED BY <1>1, <1>2

LEMMA RecordedStays ==
  ASSUME IsFiniteSet(Recorded), NoWrite \/ \E id, row, count : Writes(id, row, count)
  PROVE  IsFiniteSet(Recorded')
  <1>1. CASE NoWrite
    BY <1>1 DEF NoWrite, Recorded
  <1>2. ASSUME NEW id, NEW row, NEW count, Writes(id, row, count)
        PROVE  IsFiniteSet(Recorded')
    <2>1. Recorded' \subseteq Recorded \cup {id}
      BY <1>2 DEF Recorded, Writes
    <2>2. IsFiniteSet(Recorded \cup {id})
      BY FS_AddElement
    <2> QED BY <2>1, <2>2, PartOfFinite
  <1> QED BY <1>1, <1>2

-----------------------------------------------------------------------------
(* The parts of the invariant, step by step.                               *)

(* A request is taken only while there is room for it.                     *)
LEMMA HandlerFew ==
  ASSUME RouterTyped, FewAtOnce, NEW h \in Handlers, Arrive(h) \/ Handle(h)
  PROVE  FewAtOnce'
  <1>1. \A g \in Handlers \ {h} : handler'[g] = handler[g]
    BY ArriveLeads, HandleLeads DEF Leads
  <1>2. Active' \subseteq Active \cup {h}
    BY <1>1 DEF Active, Running
  <1>3. IsFiniteSet(Active') /\ Cardinality(Active') <= MaxInFlight
    <2>0. Cardinality(Active) \in Nat /\ MaxInFlight \in Nat
      BY FS_CardinalityType, RouterAssumption DEF FewAtOnce
    <2>1. CASE Cardinality(Active) < MaxInFlight
      <3>1. /\ IsFiniteSet(Active \cup {h})
            /\ Cardinality(Active \cup {h}) <= Cardinality(Active) + 1
        <4>1. IsFiniteSet(Active)
          BY DEF FewAtOnce
        <4>2. /\ IsFiniteSet(Active \cup {h})
              /\ Cardinality(Active \cup {h})
                   = IF h \in Active THEN Cardinality(Active) ELSE Cardinality(Active) + 1
          BY <4>1, FS_AddElement, Zenon
        <4> QED BY <2>0, <4>2
      <3>2. /\ IsFiniteSet(Active') /\ Cardinality(Active') \in Nat
            /\ Cardinality(Active \cup {h}) \in Nat
            /\ Cardinality(Active') <= Cardinality(Active \cup {h})
        BY <1>2, <3>1, PartOfFinite
      <3> QED BY <2>0, <2>1, <3>1, <3>2
    <2>2. CASE Active' \subseteq Active
      <3>1. /\ IsFiniteSet(Active') /\ Cardinality(Active') \in Nat
            /\ Cardinality(Active') <= Cardinality(Active)
        BY <2>2, PartOfFinite DEF FewAtOnce
      <3> QED BY <2>0, <3>1 DEF FewAtOnce
    <2>3. CASE Arrive(h)
      <3>1. CASE ReceiveMalformed(h)
        <4>1. handler'[h].pc = "done"
          BY <3>1, RespondMeans DEF ReceiveMalformed
        <4> QED BY <1>2, <2>2, <4>1 DEF Active, Running
      <3>2. CASE ~ReceiveMalformed(h)
        BY <2>1, <2>3, <3>2 DEF Arrive, Receive, CheckArrives, Active
      <3> QED BY <3>1, <3>2
    <2>4. CASE Handle(h)
      <3>1. Running(h)
        BY <2>4 DEF Handle, PermissionCached, AskRegistry, RegistryAnswers,
             RegistryUnavailable, EnforceRateLimit, CountFails, SenderClean, SenderListed,
             SubmitReturns, SubmitThrows, PreferencesCached, AskPreferences,
             PreferencesAnswer, PreferencesFail, NoEndpoint, WebhookOk, WebhookFailed,
             InboxOk, InboxThrows, AckReturns, AckThrows, Delivering, At, Running
      <3> QED BY <1>2, <2>2, <3>1 DEF Active
    <2> QED BY <2>3, <2>4
  <1>4. IsFiniteSet(Recorded')
    BY HandlerWrites, RecordedStays DEF FewAtOnce
  <1> QED BY <1>3, <1>4 DEF FewAtOnce

(* A window is no fuller when nobody joins it.                             *)
LEMMA FitsStays ==
  ASSUME FewAtOnce, NEW pair \in Pairs, NEW limit \in Limits, NEW w \in Nat,
         WindowFits(pair, limit, w),
         CountedSince(pair, limit, w)' \subseteq CountedSince(pair, limit, w),
         Outstanding(pair, limit, w)' \subseteq Outstanding(pair, limit, w)
  PROVE  WindowFits(pair, limit, w)'
  <1> DEFINE A == CountedSince(pair, limit, w)
             C == Outstanding(pair, limit, w)
  <1>1. /\ Cardinality(A') \in Nat /\ Cardinality(A) \in Nat
        /\ Cardinality(C') \in Nat /\ Cardinality(C) \in Nat
        /\ Cardinality(A') <= Cardinality(A) /\ Cardinality(C') <= Cardinality(C)
    BY WindowSets, PartOfFinite
  <1>2. limit.count \in Nat /\ MaxInFlight \in Nat
    BY LimitNumbers, RouterAssumption
  <1>3. Cardinality(A) + Cardinality(C) <= limit.count - 1 + MaxInFlight
    BY DEF WindowFits
  <1> HIDE DEF A, C
  <1>4. Cardinality(A') + Cardinality(C') <= limit.count - 1 + MaxInFlight
    BY <1>1, <1>2, <1>3
  <1> QED BY <1>4 DEF WindowFits, A, C

(* One that joins found it with room for all the sends under way.          *)
LEMMA FitsLetThrough ==
  ASSUME RouterTyped, StoreTypeOK, FewAtOnce, FewAtOnce', NEW h \in Handlers, LetThrough(h),
         NEW pair \in Pairs, NEW limit \in Limits, NEW w \in Nat,
         PairOf(h) = pair, handler[h].answer.limit = limit, now \div limit.period <= w,
         NoWrite
  PROVE  WindowFits(pair, limit, w)'
  <1> DEFINE A == CountedSince(pair, limit, w)
             C == Outstanding(pair, limit, w)
  <1>1. Cardinality(A) <= limit.count - 1 /\ Cardinality(A) \in Nat
    BY CountCovers, WindowSets
  <1>2. limit.count \in Nat /\ MaxInFlight \in Nat
    BY LimitNumbers, RouterAssumption
  <1>3. A' = A
    BY DEF NoWrite, CountedSince
  <1>4. Cardinality(C') <= MaxInFlight /\ Cardinality(C') \in Nat
    <2>1. C' \subseteq Active'
      BY DEF Outstanding, Active, Running
    <2>2. /\ Cardinality(C') \in Nat /\ Cardinality(Active') \in Nat
          /\ Cardinality(C') <= Cardinality(Active')
      BY <2>1, PartOfFinite DEF FewAtOnce
    <2>3. Cardinality(Active') <= MaxInFlight
      BY DEF FewAtOnce
    <2> QED BY <1>2, <2>2, <2>3
  <1> HIDE DEF A, C
  <1>5. Cardinality(A') + Cardinality(C') <= limit.count - 1 + MaxInFlight
    BY <1>1, <1>2, <1>3, <1>4
  <1> QED BY <1>5 DEF WindowFits, A, C

(* A send that writes gives its place up to its message.                   *)
LEMMA FitsWritten ==
  ASSUME RouterTyped, StoreTypeOK, AcceptedTyped, FewAtOnce, NEW h \in Handlers,
         SubmitReturns(h), Writes(handler[h].id, Row(h), handler[h].count),
         NEW pair \in Pairs, NEW limit \in Limits, NEW w \in Nat,
         WindowFits(pair, limit, w)
  PROVE  WindowFits(pair, limit, w)'
  <1> DEFINE A == CountedSince(pair, limit, w)
             C == Outstanding(pair, limit, w)
             id == handler[h].id
  <1>0. handler[h].pc = "submit" /\ handler[h].count \in Plus(Counts)
    BY Known DEF SubmitReturns, At, HandlerStates
  <1>1. id \in MessageIds /\ Row(h) \in Messages
    BY <1>0, WriterKnows
  <1>2. /\ A' \subseteq A \cup {id}
        /\ id \in A' =>
             /\ <<Row(h).sender, Row(h).recipient>> = pair
             /\ Row(h).createdAt >= w * limit.period
             /\ handler[h].count # None /\ handler[h].count.limit = limit
             /\ handler[h].count.window <= w
    BY <1>0, <1>1, RowCounted
  <1>3. id \in A' => h \in C
    BY <1>0, <1>2 DEF Outstanding, Row, PairOf
  <1>4. /\ handler'[h].pc = "preferences"
        /\ \A g \in Handlers \ {h} : handler'[g] = handler[g]
    BY MoveMeans DEF SubmitReturns
  <1>5. C' \subseteq C \ {h}
    BY <1>4 DEF Outstanding, PairOf
  <1>6. /\ IsFiniteSet(A) /\ Cardinality(A) \in Nat
        /\ IsFiniteSet(C) /\ Cardinality(C) \in Nat
        /\ limit.count \in Nat /\ MaxInFlight \in Nat
    BY WindowSets, LimitNumbers, RouterAssumption
  <1>7. Cardinality(A) + Cardinality(C) <= limit.count - 1 + MaxInFlight
    BY DEF WindowFits
  <1>8. CASE id \notin A'
    BY <1>2, <1>5, <1>8, FitsStays
  <1>9. CASE h \in C
    <2> HIDE DEF A, C, id
    <2>1. /\ IsFiniteSet(C \ {h})
          /\ Cardinality(C \ {h}) = IF h \in C THEN Cardinality(C) - 1 ELSE Cardinality(C)
      BY <1>6, FS_RemoveElement, Zenon
    <2>2. /\ Cardinality(C') \in Nat /\ Cardinality(C \ {h}) \in Nat
          /\ Cardinality(C') <= Cardinality(C \ {h})
      BY <1>5, <2>1, PartOfFinite
    <2>3. /\ IsFiniteSet(A \cup {id})
          /\ Cardinality(A \cup {id})
               = IF id \in A THEN Cardinality(A) ELSE Cardinality(A) + 1
      BY <1>6, FS_AddElement, Zenon
    <2>4. /\ Cardinality(A') \in Nat /\ Cardinality(A \cup {id}) \in Nat
          /\ Cardinality(A') <= Cardinality(A \cup {id})
      BY <1>2, <2>3, PartOfFinite
    <2>5. Cardinality(A') + Cardinality(C') <= limit.count - 1 + MaxInFlight
      BY <1>6, <1>7, <1>9, <2>1, <2>2, <2>3, <2>4
    <2> QED BY <2>5 DEF WindowFits, A, C
  <1> QED BY <1>3, <1>8, <1>9

LEMMA HandlerOvershoot ==
  ASSUME RouterTyped, DeliveryTyped, OvershootInv, NEW h \in Handlers, Arrive(h) \/ Handle(h)
  PROVE  OvershootInv'
  <1>1. FewAtOnce /\ FewAtOnce' /\ AcceptedTyped /\ StoreTypeOK
    BY HandlerFew DEF OvershootInv, DeliveryTyped
  <1>2. AcceptedTyped'
    <2>1. CASE NoWrite
      BY <1>1, <2>1, AcceptedStays
    <2>2. CASE SubmitReturns(h) /\ Writes(handler[h].id, Row(h), handler[h].count)
      <3>1. handler[h].pc = "submit" /\ handler[h].count \in Plus(Counts)
        BY <2>2, Known DEF SubmitReturns, At, HandlerStates
      <3>2. handler[h].id \in MessageIds /\ Row(h) \in Messages
        BY <3>1, WriterKnows
      <3> QED BY <1>1, <2>2, <3>1, <3>2, AcceptedStays
    <2> QED BY <2>1, <2>2, HandlerWrites
  <1>3. Path(h) /\ \A g \in Handlers \ {h} : handler'[g] = handler[g]
    BY ArrivePath, HandlePath, ArriveLeads, HandleLeads DEF Leads
  <1>4. ASSUME NEW pair \in Pairs, NEW limit \in Limits, NEW w \in Nat
        PROVE  WindowFits(pair, limit, w)'
    <2>1. WindowFits(pair, limit, w)
      BY DEF OvershootInv, WindowsFit
    <2>2. CASE SubmitReturns(h) /\ Writes(handler[h].id, Row(h), handler[h].count)
      BY <1>1, <2>1, <2>2, FitsWritten
    <2>3. CASE NoWrite
      <3>1. CountedSince(pair, limit, w)' = CountedSince(pair, limit, w)
        BY <2>3 DEF NoWrite, CountedSince
      <3>2. CASE Outstanding(pair, limit, w)' \subseteq Outstanding(pair, limit, w)
        BY <1>1, <2>1, <3>1, <3>2, FitsStays
      <3>3. CASE /\ LetThrough(h) /\ PairOf(h) = pair
                 /\ handler[h].answer.limit = limit /\ now \div limit.period <= w
        BY <1>1, <2>3, <3>3, FitsLetThrough
      <3> QED BY <1>3, <3>2, <3>3, OutstandingMoves
    <2> QED BY <2>2, <2>3, HandlerWrites
  <1> QED BY <1>1, <1>2, <1>4 DEF OvershootInv, WindowsFit

(* Where no handler takes a step, each stays where it is or is lost.       *)
LEMMA HandlersRest ==
  ASSUME RouterTyped, Environment \/ UNCHANGED vars, NEW h \in Handlers
  PROVE  handler'[h] = handler[h] \/ handler'[h].pc = "lost"
  <1> USE DEF routerVars
  <1>1. CASE Crash
    <2>1. handler[h] \in HandlerStates
      BY Known
    <2>2. [handler[h] EXCEPT !.pc = "lost"].pc = "lost"
      BY <2>1 DEF HandlerStates
    <2> QED BY <1>1, <2>2 DEF Crash
  <1>2. CASE UNCHANGED vars
    BY <1>2 DEF vars
  <1>3. CASE Environment /\ ~Crash
    BY <1>3 DEF Environment, LateCall, AgentReads, ChangeAnswer, ChangeWebhook, Heartbeat,
                Sweep, Clock
  <1> QED BY <1>1, <1>2, <1>3

LEMMA OthersOvershoot ==
  ASSUME RouterTyped, DeliveryTyped, OvershootInv, Environment \/ UNCHANGED vars
  PROVE  OvershootInv'
  <1>1. FewAtOnce /\ AcceptedTyped /\ StoreTypeOK
    BY DEF OvershootInv, DeliveryTyped
  <1>2. \A h \in Handlers : handler'[h] = handler[h] \/ handler'[h].pc = "lost"
    BY HandlersRest
  <1>3. \/ NoWrite
        \/ \E id \in MessageIds, row \in Messages : Writes(id, row, None)
    BY OtherWrites DEF vars, storeVars, tables, ghostVars, NoWrite
  <1>4. None \in Plus(Counts)
    BY PlusHas
  <1>5. AcceptedTyped' /\ IsFiniteSet(Recorded')
    BY <1>1, <1>3, <1>4, AcceptedStays, RecordedStays DEF FewAtOnce
  <1>6. FewAtOnce'
    <2>1. Active' \subseteq Active
      BY <1>2 DEF Active, Running
    <2>2. /\ IsFiniteSet(Active') /\ Cardinality(Active') \in Nat
          /\ Cardinality(Active) \in Nat /\ Cardinality(Active') <= Cardinality(Active)
      BY <1>1, <2>1, PartOfFinite DEF FewAtOnce
    <2>3. Cardinality(Active') <= MaxInFlight
      BY <1>1, <2>2, RouterAssumption DEF FewAtOnce
    <2> QED BY <1>5, <2>2, <2>3 DEF FewAtOnce
  <1>7. ASSUME NEW pair \in Pairs, NEW limit \in Limits, NEW w \in Nat
        PROVE  WindowFits(pair, limit, w)'
    <2>1. WindowFits(pair, limit, w)
      BY DEF OvershootInv, WindowsFit
    <2>2. Outstanding(pair, limit, w)' \subseteq Outstanding(pair, limit, w)
      BY <1>2 DEF Outstanding, PairOf
    <2>3. CountedSince(pair, limit, w)' \subseteq CountedSince(pair, limit, w)
      <3>1. CASE NoWrite
        BY <3>1 DEF NoWrite, CountedSince
      <3>2. ASSUME NEW id \in MessageIds, NEW row \in Messages, Writes(id, row, None)
            PROVE  CountedSince(pair, limit, w)' \subseteq CountedSince(pair, limit, w)
        BY <1>1, <1>4, <3>2, RowCounted
      <3> QED BY <1>3, <3>1, <3>2
    <2> QED BY <1>1, <2>1, <2>2, <2>3, FitsStays
  <1> QED BY <1>5, <1>6, <1>7 DEF OvershootInv, WindowsFit

LEMMA InitOvershoot == Init => OvershootInv
  <1> SUFFICES ASSUME Init PROVE OvershootInv
    OBVIOUS
  <1>1. /\ \A h \in Handlers : handler[h].pc = "idle"
        /\ \A id \in MessageIds : messages[id] = None
    BY DEF Init, StoreInit, NoHandler
  <1>2. MaxInFlight \in Nat \ {0}
    BY RouterAssumption
  <1>3. AcceptedTyped
    BY PlusHas DEF Init, AcceptedTyped
  <1>4. FewAtOnce
    <2>1. Active = {} /\ Recorded = {}
      BY <1>1 DEF Active, Running, Recorded
    <2> QED BY <1>2, <2>1, FS_EmptySet DEF FewAtOnce
  <1>5. ASSUME NEW pair \in Pairs, NEW limit \in Limits, NEW w \in Nat
        PROVE  WindowFits(pair, limit, w)
    <2>1. Outstanding(pair, limit, w) = {} /\ CountedSince(pair, limit, w) = {}
      BY <1>1 DEF Outstanding, CountedSince
    <2>2. Cardinality({}) = 0 /\ limit.count \in Nat
      BY FS_EmptySet, LimitNumbers
    <2>3. 0 + 0 <= limit.count - 1 + MaxInFlight
      BY <1>2, <2>2
    <2> QED BY <2>1, <2>2, <2>3 DEF WindowFits
  <1> QED BY <1>3, <1>4, <1>5 DEF OvershootInv, WindowsFit

LEMMA OvershootMeans ==
  ASSUME OvershootInv
  PROVE  OvershootIsBounded
  <1> SUFFICES ASSUME NEW p \in Pairs, NEW a \in ChainAnswers, a.limit # None,
                      a.limit.period # 0, NEW w \in 0..MaxTime
               PROVE  Cardinality(CountedSince(p, a.limit, w))
                        <= a.limit.count + MaxInFlight - 1
    BY DEF OvershootIsBounded
  <1> DEFINE limit == a.limit
  <1>1. limit \in Limits /\ w \in Nat /\ MaxInFlight \in Nat
    BY StoreAssumption, RouterAssumption DEF Limits
  <1>2. WindowFits(p, limit, w) /\ limit.count \in Nat
    BY <1>1, LimitNumbers DEF OvershootInv, WindowsFit
  <1>3. /\ Cardinality(CountedSince(p, limit, w)) \in Nat
        /\ Cardinality(Outstanding(p, limit, w)) \in Nat
    BY WindowSets DEF OvershootInv
  <1> HIDE DEF limit
  <1>4. Cardinality(CountedSince(p, limit, w)) <= limit.count + MaxInFlight - 1
    BY <1>1, <1>2, <1>3 DEF WindowFits
  <1> QED BY <1>4 DEF limit

(* Of the sends that were counted against a limit, at most MaxInFlight - 1 *)
(* are too many in any window: whatever created_at says, whatever fails or *)
(* is applied late, whichever rules change, and however often the process  *)
(* dies.                                                                   *)
THEOREM OvershootBounded == Spec => []OvershootIsBounded
  <1>1. Init => OvershootInv
    BY InitOvershoot
  <1>2. RouterTyped /\ DeliveryTyped /\ OvershootInv /\ [Next]_vars => OvershootInv'
    BY HandlerOvershoot, OthersOvershoot DEF Next
  <1>3. OvershootInv => OvershootIsBounded
    BY OvershootMeans
  <1> QED BY <1>1, <1>2, <1>3, RouterInitTyped, RouterStepTyped, InitDelivery,
             DeliveryStepTyped, StepClaims, PTL DEF Spec
=============================================================================
