---------------------------- MODULE Router_proofs ----------------------------
(***************************************************************************)
(* Proofs about a router node, for any number of handlers running at a     *)
(* time, any registry, any recipients that change their minds and any      *)
(* failing services, late calls and crashes.                               *)
(***************************************************************************)
EXTENDS RouterProperties, TLAPS

-----------------------------------------------------------------------------
(* What a handler knows at each of its steps.                              *)

Answers == ChainAnswers \cup {UnavailableAnswer}

Places == Steps \cup {"idle", "done", "lost"}
Sources == {None, "chain", "cache", "unavailable"}
Plus(S) == S \cup {None}
Counts == [limit : {a.limit : a \in ChainAnswers}, window : Nat]
ChannelLists == Seq(ChannelNames)

HandlerStates ==
  [pc : Places, id : Plus(MessageIds), sender : Plus(Senders),
   recipient : Plus(Recipients), createdAt : Int, expiresAt : Int,
   answer : Plus(Answers), asked : Int, count : Plus(Counts), url : Plus(Urls), rest : ChannelLists,
   result : Plus(ChannelNames), source : Sources, response : Plus(Responses)]

(* None is an optional value, and so is every value.                       *)
LEMMA PlusHas == \A S : None \in Plus(S) /\ \A x \in S : x \in Plus(S)
  BY DEF Plus

(* Only a handler that is done has answered; one that runs knows its pair, *)
(* one past the permission a channel to try, one past the limit a message. *)
Coherent(rec) ==
  /\ rec.pc = "done" <=> rec.response # None
  /\ rec.pc \in Steps => rec.sender \in Senders /\ rec.recipient \in Recipients
  /\ rec.pc = "answered" => rec.answer \in ChainAnswers
  /\ rec.pc = "limit" => rec.answer \in Answers
  /\ rec.pc \in {"limit", "threat", "submit", "preferences", "preferred", "deliver"}
       => rec.rest # <<>>
  /\ rec.pc \in {"threat", "submit", "preferences", "preferred", "deliver", "ack"}
       => rec.id \in MessageIds

HandlerRecords == {rec \in HandlerStates : Coherent(rec)}

PermEntries == [answer : ChainAnswers, expires : Nat]
PrefEntries == [url : Urls \cup {None}, expires : Nat]

RegistryTyped ==
  /\ chain \in [Pairs -> ChainAnswers]
  /\ webhooks \in [Recipients -> Urls \cup {None}]
  /\ lastAllowed \in [Pairs -> Nat]
  /\ lastHeld \in [Recipients \X Urls -> Nat]

CachesTyped ==
  /\ permCache \in [Pairs -> PermEntries \cup {None}]
  /\ prefCache \in [Recipients -> PrefEntries \cup {None}]

RouterTyped ==
  /\ now \in Nat
  /\ handler \in [Handlers -> HandlerRecords]
  /\ RegistryTyped
  /\ CachesTyped

(* The invariant gives the type invariant that the runs check.             *)
LEMMA TypedMeans == RouterTyped => RouterTypeOK
  <1> SUFFICES ASSUME RouterTyped PROVE RouterTypeOK
    OBVIOUS
  <1>0. None \notin Responses
    BY RouterAssumption
  <1>1. ASSUME NEW h \in Handlers
        PROVE  /\ handler[h].pc \in Steps \cup {"idle", "done", "lost"}
               /\ handler[h].pc = "done" <=> handler[h].response \in Responses
               /\ At(h, "deliver") => handler[h].rest # <<>>
               /\ handler[h].source \in {None, "chain", "cache", "unavailable"}
    <2>1. handler[h] \in HandlerStates /\ Coherent(handler[h])
      BY DEF RouterTyped, HandlerRecords
    <2> QED BY <1>0, <2>1 DEF HandlerStates, Coherent, At, Places, Sources, Plus
  <1>2. ASSUME NEW p \in Pairs, permCache[p] # None
        PROVE  permCache[p].answer \in ChainAnswers /\ permCache[p].expires \in Nat
    BY <1>2 DEF RouterTyped, CachesTyped, PermEntries
  <1>3. ASSUME NEW r \in Recipients, prefCache[r] # None
        PROVE  prefCache[r].url \in Urls \cup {None} /\ prefCache[r].expires \in Nat
    BY <1>3 DEF RouterTyped, CachesTyped, PrefEntries
  <1> QED BY <1>1, <1>2, <1>3 DEF RouterTypeOK

-----------------------------------------------------------------------------
(* The records the actions put in a handler's place.                       *)

(* What Respond leaves of a handler.                                       *)
Response(h, code) ==
  [NoHandler EXCEPT !.pc = "done", !.response = code, !.id = handler[h].id,
     !.sender = handler[h].sender, !.recipient = handler[h].recipient,
     !.source = handler[h].source, !.result = handler[h].result]

LEMMA NoHandlerTyped == NoHandler \in HandlerRecords
  <1>1. "idle" \in Places /\ None \in Sources /\ <<>> \in ChannelLists
    BY DEF Places, Sources, ChannelLists
  <1>2. NoHandler \in HandlerStates
    BY <1>1, PlusHas DEF NoHandler, HandlerStates
  <1> QED BY <1>2 DEF NoHandler, HandlerRecords, Coherent, Steps

LEMMA ResponseTyped ==
  ASSUME RouterTyped, NEW h \in Handlers, NEW code \in Responses
  PROVE  Response(h, code) \in HandlerRecords
  <1>1. handler[h] \in HandlerStates
    BY DEF RouterTyped, HandlerRecords
  <1>2. NoHandler \in HandlerStates
    BY NoHandlerTyped DEF HandlerRecords
  <1>3. "done" \in Places /\ code \in Plus(Responses)
    BY DEF Places, Plus
  <1>4. Response(h, code) \in HandlerStates
    BY <1>1, <1>2, <1>3 DEF Response, HandlerStates
  <1>5. Response(h, code).pc = "done" /\ Response(h, code).response = code
    BY <1>2 DEF Response, HandlerStates
  <1>6. code # None
    BY RouterAssumption
  <1> QED BY <1>4, <1>5, <1>6 DEF HandlerRecords, Coherent, Steps

(* Putting a coherent record in a handler's place keeps the types.         *)
LEMMA GoTyped ==
  ASSUME handler \in [Handlers -> HandlerRecords], NEW h \in Handlers,
         NEW rec \in HandlerRecords, Go(h, rec)
  PROVE  handler' \in [Handlers -> HandlerRecords]
  BY DEF Go

LEMMA RespondTyped ==
  ASSUME RouterTyped, NEW h \in Handlers, NEW code \in Responses, Respond(h, code)
  PROVE  handler' \in [Handlers -> HandlerRecords]
  BY ResponseTyped, GoTyped DEF Respond, Response, RouterTyped

(* A permission that is granted gives a channel to try.                    *)
LEMMA DecisionTyped ==
  ASSUME RouterTyped, NEW h \in Handlers, NEW answer \in Answers,
         NEW source \in Sources,
         handler[h].pc \in {"permission", "answered"}, Decide(h, answer, source)
  PROVE  handler' \in [Handlers -> HandlerRecords]
  <1>1. handler[h] \in HandlerStates /\ Coherent(handler[h])
    BY DEF RouterTyped, HandlerRecords
  <1>2. answer.channels \in Seq(ChannelNames)
    <2>1. CASE answer \in ChainAnswers
      BY <2>1, RouterAssumption
    <2>2. CASE answer = UnavailableAnswer
      BY <2>2 DEF UnavailableAnswer
    <2> QED BY <2>1, <2>2 DEF Answers
  <1> DEFINE rest == MapChannels(answer.channels)
  <1>3. rest \in ChannelLists /\ rest # <<>>
    <2>1. <<"agent-inbox">> \in Seq(ChannelNames) /\ <<"agent-inbox">> # <<>>
      BY DEF ChannelNames
    <2> QED BY <1>2, <2>1 DEF MapChannels, ChannelLists
  <1> HIDE DEF rest
  <1> DEFINE rec == [handler[h] EXCEPT
                       !.pc = "limit", !.answer = answer, !.source = source,
                       !.asked = 0, !.rest = rest]
  <1>4. "limit" \in Places /\ answer \in Plus(Answers)
    BY DEF Places, Steps, Plus
  <1>5. rec \in HandlerStates
    <2>1. handler[h] \in HandlerStates /\ rest \in ChannelLists /\ 0 \in Int
      BY <1>1, <1>3
    <2> QED BY <1>4, <2>1 DEF HandlerStates
  <1>6. /\ rec.pc = "limit" /\ rec.answer = answer /\ rec.rest = rest
        /\ rec.sender = handler[h].sender /\ rec.recipient = handler[h].recipient
        /\ rec.response = handler[h].response
    BY <1>1 DEF HandlerStates
  <1>7. /\ handler[h].sender \in Senders /\ handler[h].recipient \in Recipients
        /\ handler[h].response = None
    BY <1>1 DEF Coherent, Steps
  <1> HIDE DEF rec
  <1>8. rec \in HandlerRecords
    BY <1>3, <1>5, <1>6, <1>7 DEF HandlerRecords, Coherent, Steps
  <1>9. CASE answer.allowed
    BY <1>8, <1>9, GoTyped DEF Decide, RouterTyped, rec, rest
  <1>10. CASE ~answer.allowed
    BY <1>10, RespondTyped DEF Decide, Responses
  <1> QED BY <1>9, <1>10

-----------------------------------------------------------------------------
(* Every action of a handler keeps its record coherent.                    *)

LEMMA Known ==
  ASSUME RouterTyped, NEW h \in Handlers
  PROVE  handler[h] \in HandlerStates /\ Coherent(handler[h])
  BY DEF RouterTyped, HandlerRecords

LEMMA PairKnown ==
  ASSUME RouterTyped, NEW h \in Handlers, handler[h].pc \in Steps
  PROVE  /\ PairOf(h) \in Pairs
         /\ handler[h].sender \in Senders /\ handler[h].recipient \in Recipients
  BY Known DEF Coherent, PairOf, Pairs

(* Moving on with nothing learnt.                                          *)
LEMMA MoveTyped ==
  ASSUME RouterTyped, NEW h \in Handlers, handler[h].pc \in Steps,
         NEW pc \in {"threat", "submit", "preferences", "deliver"},
         handler[h].rest # <<>>, handler[h].id \in MessageIds, Move(h, pc)
  PROVE  handler' \in [Handlers -> HandlerRecords]
  <1> DEFINE rec == [handler[h] EXCEPT !.pc = pc]
  <1>1. handler[h] \in HandlerStates /\ Coherent(handler[h]) /\ pc \in Places
    BY Known DEF Places, Steps
  <1>2. /\ rec \in HandlerStates /\ rec.pc = pc /\ rec.rest = handler[h].rest
        /\ rec.id = handler[h].id /\ rec.response = handler[h].response
        /\ rec.sender = handler[h].sender /\ rec.recipient = handler[h].recipient
    BY <1>1 DEF HandlerStates
  <1> HIDE DEF rec
  <1>3. rec \in HandlerRecords
    BY <1>1, <1>2 DEF HandlerRecords, Coherent, Steps
  <1> QED BY <1>3, GoTyped DEF Move, RouterTyped, rec

LEMMA ArriveTyped ==
  ASSUME RouterTyped, NEW h \in Handlers, Arrive(h)
  PROVE  handler' \in [Handlers -> HandlerRecords]
  <1>1. ASSUME NEW id \in MessageIds, NEW pair \in Pairs, NEW skew \in Skews,
               NEW ttl \in Ttls, Receive(h, id, pair[1], pair[2], skew, ttl)
        PROVE  handler' \in [Handlers -> HandlerRecords]
    <2> DEFINE created == now + skew
               request == [NoHandler EXCEPT
                    !.id = id, !.sender = pair[1], !.recipient = pair[2],
                    !.createdAt = created, !.expiresAt = created + ttl]
    <2>1. created \in Int /\ created + ttl \in Int
      BY RouterAssumption DEF RouterTyped
    <2>2. NoHandler \in HandlerStates
      BY NoHandlerTyped DEF HandlerRecords
    <2>3. pair[1] \in Senders /\ pair[2] \in Recipients
      BY DEF Pairs
    <2> HIDE DEF created
    <2>4. request \in HandlerStates
      <3>1. /\ id \in Plus(MessageIds) /\ pair[1] \in Plus(Senders)
            /\ pair[2] \in Plus(Recipients)
        BY <2>3, PlusHas
      <3> QED BY <2>1, <2>2, <3>1 DEF HandlerStates
    <2>5. /\ request.sender = pair[1] /\ request.recipient = pair[2]
          /\ request.response = None
      BY <2>2 DEF HandlerStates, NoHandler
    <2> HIDE DEF request
    <2>6. [request EXCEPT !.pc = "permission"] \in HandlerRecords
      <3> DEFINE rec == [request EXCEPT !.pc = "permission"]
      <3>1. "permission" \in Places
        BY DEF Places, Steps
      <3>2. /\ rec \in HandlerStates /\ rec.pc = "permission"
            /\ rec.sender = pair[1] /\ rec.recipient = pair[2] /\ rec.response = None
        BY <2>4, <2>5, <3>1 DEF HandlerStates
      <3> HIDE DEF rec
      <3>3. rec \in HandlerRecords
        BY <2>3, <3>2 DEF HandlerRecords, Coherent
      <3> QED BY <3>3 DEF rec
    <2>7. [request EXCEPT !.pc = "done", !.response = "400"] \in HandlerRecords
      <3> DEFINE rec == [request EXCEPT !.pc = "done", !.response = "400"]
      <3>1. "done" \in Places /\ "400" \in Plus(Responses) /\ "400" # None
        BY RouterAssumption DEF Places, Plus, Responses
      <3>2. rec \in HandlerStates /\ rec.pc = "done" /\ rec.response = "400"
        BY <2>4, <3>1 DEF HandlerStates
      <3> HIDE DEF rec
      <3>3. rec \in HandlerRecords
        BY <3>1, <3>2 DEF HandlerRecords, Coherent, Steps
      <3> QED BY <3>3 DEF rec
    <2> QED BY <1>1, <2>6, <2>7, GoTyped DEF Receive, RouterTyped, request, created
  <1>2. ASSUME NEW pair \in Pairs, CheckArrives(h, pair)
        PROVE  handler' \in [Handlers -> HandlerRecords]
    <2> DEFINE rec == [NoHandler EXCEPT !.pc = "permission", !.sender = pair[1],
                                        !.recipient = pair[2]]
    <2>1. NoHandler \in HandlerStates /\ "permission" \in Places
      BY NoHandlerTyped DEF HandlerRecords, Places, Steps
    <2>2. pair[1] \in Senders /\ pair[2] \in Recipients
      BY DEF Pairs
    <2>3. /\ rec \in HandlerStates /\ rec.pc = "permission"
          /\ rec.sender = pair[1] /\ rec.recipient = pair[2] /\ rec.response = None
      <3>1. pair[1] \in Plus(Senders) /\ pair[2] \in Plus(Recipients)
        BY <2>2, PlusHas
      <3>2. rec \in HandlerStates
        BY <2>1, <3>1 DEF HandlerStates
      <3>3. /\ rec.pc = "permission" /\ rec.response = None
            /\ rec.sender = pair[1] /\ rec.recipient = pair[2]
        BY DEF NoHandler
      <3> QED BY <3>2, <3>3
    <2> HIDE DEF rec
    <2>4. rec \in HandlerRecords
      BY <2>2, <2>3 DEF HandlerRecords, Coherent
    <2> QED BY <1>2, <2>4, GoTyped DEF CheckArrives, RouterTyped, rec
  <1>3. CASE ReceiveMalformed(h)
    BY <1>3, RespondTyped DEF ReceiveMalformed, Responses
  <1> QED BY <1>1, <1>2, <1>3 DEF Arrive

(* What the limit says of a send: it goes on, with a count that was made   *)
(* against a limit of the registry in the window of that moment, or with   *)
(* none, or it is turned away.                                             *)
LEMMA LimitPasses ==
  ASSUME RouterTyped, NEW h \in Handlers, EnforceRateLimit(h) \/ CountFails(h)
  PROVE  /\ At(h, "limit")
         /\ \/ \E count \in Plus(Counts) : Passes(h, count)
            \/ Exceeds(h)
  <1>1. handler[h] \in HandlerStates /\ Coherent(handler[h])
    BY Known
  <1>2. CASE CountFails(h)
    BY <1>2, PlusHas DEF CountFails
  <1>3. CASE EnforceRateLimit(h)
    <2> DEFINE limit == handler[h].answer.limit
    <2>1. At(h, "limit") /\ handler[h].answer \in Answers
      BY <1>1, <1>3 DEF EnforceRateLimit, At, Coherent
    <2>2. CASE limit = None
      BY <1>3, <2>1, <2>2, PlusHas DEF EnforceRateLimit, CountAgainst
    <2>3. CASE limit # None /\ ~Exceeds(h)
      <3>1. handler[h].answer \in ChainAnswers
        BY <2>1, <2>3 DEF Answers, UnavailableAnswer
      <3>2. limit.period \in Nat /\ limit \in {a.limit : a \in ChainAnswers} /\ now \in Nat
        BY <2>3, <3>1, RouterAssumption DEF RouterTyped
      <3>3. limit.period # 0 /\ Passes(h, CountAgainst(limit))
        BY <1>3, <2>3 DEF EnforceRateLimit
      <3> HIDE DEF limit
      <3>4. now \div limit.period \in Nat
        BY <3>2, <3>3
      <3>5. CountAgainst(limit) \in Plus(Counts)
        BY <2>3, <3>2, <3>4, PlusHas DEF CountAgainst, Counts
      <3> QED BY <2>1, <3>3, <3>5
    <2> QED BY <2>1, <2>2, <2>3
  <1> QED BY <1>2, <1>3

(* Permission, limit and threat feed.                                      *)
LEMMA GateTyped ==
  ASSUME RouterTyped, NEW h \in Handlers,
         \/ PermissionCached(h) \/ AskRegistry(h) \/ RegistryAnswers(h)
         \/ RegistryUnavailable(h) \/ EnforceRateLimit(h) \/ CountFails(h)
         \/ SenderClean(h) \/ SenderListed(h)
  PROVE  handler' \in [Handlers -> HandlerRecords]
  <1>0. handler[h] \in HandlerStates /\ Coherent(handler[h])
    BY Known
  <1>1. CASE PermissionCached(h)
    <2>1. handler[h].pc = "permission" /\ PairOf(h) \in Pairs
      BY <1>1, PairKnown DEF PermissionCached, At, Steps
    <2>2. permCache[PairOf(h)].answer \in Answers
      BY <1>1, <2>1 DEF PermissionCached, Fresh, RouterTyped, CachesTyped,
                        PermEntries, Answers
    <2>3. "cache" \in Sources
      BY DEF Sources
    <2> QED BY <1>1, <2>1, <2>2, <2>3, DecisionTyped DEF PermissionCached
  <1>2. CASE AskRegistry(h)
    <2> DEFINE rec == [handler[h] EXCEPT !.pc = "answered", !.answer = chain[PairOf(h)],
                                         !.asked = now]
    <2>1. handler[h].pc = "permission" /\ PairOf(h) \in Pairs
      BY <1>2, PairKnown DEF AskRegistry, At, Steps
    <2>2. /\ chain[PairOf(h)] \in ChainAnswers /\ chain[PairOf(h)] \in Plus(Answers)
          /\ now \in Int /\ "answered" \in Places
      BY <2>1 DEF RouterTyped, RegistryTyped, Plus, Answers, Places, Steps
    <2>3. /\ rec \in HandlerStates /\ rec.pc = "answered" /\ rec.answer = chain[PairOf(h)]
          /\ rec.response = handler[h].response
          /\ rec.sender = handler[h].sender /\ rec.recipient = handler[h].recipient
      BY <1>0, <2>2 DEF HandlerStates
    <2> HIDE DEF rec
    <2>4. rec \in HandlerRecords
      BY <1>0, <2>1, <2>2, <2>3 DEF HandlerRecords, Coherent, Steps
    <2> QED BY <1>2, <2>4, GoTyped DEF AskRegistry, RouterTyped, rec
  <1>3. CASE RegistryAnswers(h)
    <2>1. handler[h].pc = "answered" /\ handler[h].answer \in Answers
      BY <1>0, <1>3 DEF RegistryAnswers, At, Coherent, Answers
    <2>2. "chain" \in Sources
      BY DEF Sources
    <2> QED BY <1>3, <2>1, <2>2, DecisionTyped DEF RegistryAnswers
  <1>4. CASE RegistryUnavailable(h)
    <2>1. "unavailable" \in Sources /\ UnavailableAnswer \in Answers
      BY DEF Sources, Answers
    <2> QED BY <1>4, <2>1, DecisionTyped DEF RegistryUnavailable, At
  <1>5. ASSUME At(h, "limit"), NEW count \in Plus(Counts), Passes(h, count) \/ Exceeds(h)
        PROVE  handler' \in [Handlers -> HandlerRecords]
    <2>1. CASE Exceeds(h) \/ handler[h].id = None
      BY <1>5, <2>1, RespondTyped DEF Exceeds, Passes, Responses
    <2>2. CASE handler[h].id # None /\ Passes(h, count)
      <3> DEFINE rec == [handler[h] EXCEPT !.pc = "threat", !.count = count]
      <3>1. /\ handler[h].pc = "limit" /\ handler[h].rest # <<>>
            /\ handler[h].id \in MessageIds
        BY <1>0, <1>5, <2>2 DEF At, Coherent, HandlerStates, Plus
      <3>2. "threat" \in Places /\ count \in Plus(Counts)
        BY DEF Places, Steps
      <3>3. /\ rec \in HandlerStates /\ rec.pc = "threat" /\ rec.rest = handler[h].rest
            /\ rec.id = handler[h].id /\ rec.response = handler[h].response
            /\ rec.sender = handler[h].sender /\ rec.recipient = handler[h].recipient
        BY <1>0, <3>2 DEF HandlerStates
      <3> HIDE DEF rec
      <3>4. rec \in HandlerRecords
        BY <1>0, <3>1, <3>3 DEF HandlerRecords, Coherent, Steps
      <3> QED BY <2>2, <3>4, GoTyped DEF Passes, RouterTyped, rec
    <2> QED BY <1>5, <2>1, <2>2
  <1>6. CASE EnforceRateLimit(h) \/ CountFails(h)
    <2>1. CASE \E count \in Plus(Counts) : At(h, "limit") /\ Passes(h, count)
      BY <1>5, <2>1
    <2>2. CASE At(h, "limit") /\ Exceeds(h)
      BY <1>5, <2>2, PlusHas
    <2> QED BY <1>6, <2>1, <2>2, LimitPasses
  <1>7. CASE SenderClean(h)
    <2>1. /\ handler[h].pc \in Steps /\ handler[h].rest # <<>>
          /\ handler[h].id \in MessageIds
      BY <1>0, <1>7 DEF SenderClean, At, Coherent, Steps
    <2> QED BY <1>7, <2>1, MoveTyped DEF SenderClean
  <1>8. CASE SenderListed(h)
    BY <1>8, RespondTyped DEF SenderListed, Responses
  <1> QED BY <1>1, <1>2, <1>3, <1>4, <1>6, <1>7, <1>8

(* Submission and the query for the endpoints.                             *)
LEMMA SubmitTyped ==
  ASSUME RouterTyped, NEW h \in Handlers,
         \/ SubmitReturns(h) \/ SubmitThrows(h) \/ PreferencesCached(h)
         \/ AskPreferences(h) \/ PreferencesAnswer(h) \/ PreferencesFail(h)
  PROVE  handler' \in [Handlers -> HandlerRecords]
  <1>0. handler[h] \in HandlerStates /\ Coherent(handler[h])
    BY Known
  <1>1. handler[h].pc \in {"submit", "preferences", "preferred"}
    BY DEF SubmitReturns, SubmitThrows, PreferencesCached, AskPreferences,
           PreferencesAnswer, PreferencesFail, At
  <1>2. /\ handler[h].pc \in Steps /\ handler[h].rest # <<>>
        /\ handler[h].id \in MessageIds /\ handler[h].response = None
        /\ handler[h].sender \in Senders /\ handler[h].recipient \in Recipients
    BY <1>0, <1>1 DEF Coherent, Steps
  <1>3. CASE SubmitReturns(h) \/ PreferencesFail(h)
    BY <1>2, <1>3, MoveTyped DEF SubmitReturns, PreferencesFail
  <1>4. CASE SubmitThrows(h)
    BY <1>4, RespondTyped DEF SubmitThrows, Responses
  <1>5. ASSUME NEW pc \in {"deliver", "preferred"}, NEW url \in Plus(Urls), NEW asked \in Int,
               Go(h, [handler[h] EXCEPT !.pc = pc, !.url = url, !.asked = asked])
        PROVE  handler' \in [Handlers -> HandlerRecords]
    <2> DEFINE rec == [handler[h] EXCEPT !.pc = pc, !.url = url, !.asked = asked]
    <2>1. pc \in Places
      BY DEF Places, Steps
    <2>2. /\ rec \in HandlerStates /\ rec.pc = pc /\ rec.rest = handler[h].rest
          /\ rec.id = handler[h].id /\ rec.response = handler[h].response
          /\ rec.sender = handler[h].sender /\ rec.recipient = handler[h].recipient
      BY <1>0, <2>1 DEF HandlerStates
    <2> HIDE DEF rec
    <2>3. rec \in HandlerRecords
      BY <1>2, <2>2 DEF HandlerRecords, Coherent, Steps
    <2> QED BY <1>5, <2>3, GoTyped DEF RouterTyped, rec
  <1>6. CASE PreferencesCached(h)
    <2> DEFINE url == prefCache[handler[h].recipient].url
    <2>1. url \in Plus(Urls) /\ handler[h].asked \in Int
      BY <1>0, <1>2, <1>6 DEF PreferencesCached, Fresh, RouterTyped, CachesTyped,
                              PrefEntries, Plus, HandlerStates
    <2>2. [handler[h] EXCEPT !.pc = "deliver", !.url = url]
            = [handler[h] EXCEPT !.pc = "deliver", !.url = url, !.asked = handler[h].asked]
      BY <1>0 DEF HandlerStates
    <2> QED BY <1>5, <1>6, <2>1, <2>2 DEF PreferencesCached
  <1>7. CASE AskPreferences(h)
    <2> DEFINE url == webhooks[handler[h].recipient]
    <2>1. url \in Plus(Urls) /\ now \in Int
      BY <1>2 DEF RouterTyped, RegistryTyped, Plus
    <2>2. [handler[h] EXCEPT !.pc = "preferred", !.asked = now, !.url = url]
            = [handler[h] EXCEPT !.pc = "preferred", !.url = url, !.asked = now]
      BY <1>0 DEF HandlerStates
    <2> QED BY <1>5, <1>7, <2>1, <2>2 DEF AskPreferences
  <1>8. CASE PreferencesAnswer(h)
    <2> DEFINE url == handler[h].url
               asked == 0
    <2>1. url \in Plus(Urls) /\ asked \in Int
      BY <1>0 DEF HandlerStates
    <2>2. [handler[h] EXCEPT !.pc = "deliver", !.asked = 0]
            = [handler[h] EXCEPT !.pc = "deliver", !.url = url, !.asked = asked]
      BY <1>0 DEF HandlerStates
    <2>3. Go(h, [handler[h] EXCEPT !.pc = "deliver", !.url = url, !.asked = asked])
      BY <1>8, <2>2 DEF PreferencesAnswer
    <2> HIDE DEF url, asked
    <2> QED BY <1>5, <2>1, <2>3
  <1> QED BY <1>3, <1>4, <1>6, <1>7, <1>8

(* Delivery and the ack.                                                   *)
LEMMA DeliverTyped ==
  ASSUME RouterTyped, NEW h \in Handlers,
         \/ NoEndpoint(h) \/ WebhookOk(h) \/ WebhookFailed(h)
         \/ InboxOk(h) \/ InboxThrows(h) \/ AckReturns(h) \/ AckThrows(h)
  PROVE  handler' \in [Handlers -> HandlerRecords]
  <1>0. handler[h] \in HandlerStates /\ Coherent(handler[h])
    BY Known
  <1>1. CASE AckReturns(h) \/ AckThrows(h)
    BY <1>1, RespondTyped DEF AckReturns, AckThrows, FinalResponse, Responses
  <1>2. ASSUME At(h, "deliver"), NEW pc \in {"deliver", "ack"}, NEW rest \in ChannelLists,
               NEW result \in Plus(ChannelNames), pc = "deliver" => rest # <<>>,
               Go(h, [handler[h] EXCEPT !.pc = pc, !.result = result, !.rest = rest])
        PROVE  handler' \in [Handlers -> HandlerRecords]
    <2> DEFINE rec == [handler[h] EXCEPT !.pc = pc, !.result = result, !.rest = rest]
    <2>1. pc \in Places
      BY DEF Places, Steps
    <2>2. /\ rec \in HandlerStates /\ rec.pc = pc /\ rec.rest = rest
          /\ rec.id = handler[h].id /\ rec.response = handler[h].response
          /\ rec.sender = handler[h].sender /\ rec.recipient = handler[h].recipient
      BY <1>0, <2>1 DEF HandlerStates
    <2> HIDE DEF rec
    <2>3. /\ handler[h].sender \in Senders /\ handler[h].recipient \in Recipients
          /\ handler[h].id \in MessageIds /\ handler[h].response = None
      BY <1>0, <1>2 DEF At, Coherent, Steps
    <2>4. rec \in HandlerRecords
      BY <1>2, <2>2, <2>3 DEF HandlerRecords, Coherent, Steps
    <2> QED BY <1>2, <2>4, GoTyped DEF RouterTyped, rec
  <1>3. ASSUME At(h, "deliver"), TryNext(h)
        PROVE  handler' \in [Handlers -> HandlerRecords]
    <2> DEFINE rest == Tail(handler[h].rest)
               pc == IF rest = <<>> THEN "ack" ELSE "deliver"
    <2>1. handler[h].rest \in Seq(ChannelNames) /\ handler[h].rest # <<>>
      BY <1>0, <1>3 DEF HandlerStates, ChannelLists, Coherent, At
    <2>2. rest \in ChannelLists /\ handler[h].result \in Plus(ChannelNames)
      BY <1>0, <2>1 DEF ChannelLists, HandlerStates
    <2>3. pc \in {"deliver", "ack"} /\ (pc = "deliver" => rest # <<>>)
      OBVIOUS
    <2>4. Go(h, [handler[h] EXCEPT !.rest = rest, !.pc = pc])
      BY <1>3 DEF TryNext
    <2> HIDE DEF rest, pc
    <2>5. [handler[h] EXCEPT !.rest = rest, !.pc = pc]
            = [handler[h] EXCEPT !.pc = pc, !.result = handler[h].result, !.rest = rest]
      BY <1>0 DEF HandlerStates
    <2> QED BY <1>2, <1>3, <2>2, <2>3, <2>4, <2>5
  <1>4. CASE NoEndpoint(h) \/ WebhookFailed(h) \/ InboxThrows(h)
    BY <1>3, <1>4 DEF NoEndpoint, WebhookFailed, InboxThrows, Delivering
  <1>5. ASSUME At(h, "deliver"), NEW channel \in ChannelNames, Succeed(h, channel)
        PROVE  handler' \in [Handlers -> HandlerRecords]
    <2>1. <<>> \in ChannelLists /\ channel \in Plus(ChannelNames)
      BY DEF ChannelLists, Plus
    <2> QED BY <1>2, <1>5, <2>1 DEF Succeed
  <1>6. CASE WebhookOk(h) \/ InboxOk(h)
    <2>1. "webhook" \in ChannelNames /\ "agent-inbox" \in ChannelNames
      BY DEF ChannelNames
    <2> QED BY <1>5, <1>6, <2>1 DEF WebhookOk, InboxOk, Delivering
  <1> QED BY <1>1, <1>4, <1>6

-----------------------------------------------------------------------------
(* What the steps leave alone.                                             *)

(* A handler changes neither the registry nor the time, and a cache only   *)
(* when an answer of the registry comes back.                              *)
LEMMA HandlerFrame ==
  ASSUME NEW h \in Handlers, Arrive(h) \/ Handle(h)
  PROVE  /\ UNCHANGED <<registryVars, crashes>> /\ now' = now
         /\ RegistryAnswers(h) \/ permCache' = permCache
         /\ PreferencesAnswer(h) \/ prefCache' = prefCache
  <1> USE DEF registryVars, storeVars, ghostVars
  <1>1. CASE Arrive(h)
    BY <1>1 DEF Arrive, Receive, CheckArrives, ReceiveMalformed
  <1>2. CASE \/ PermissionCached(h) \/ AskRegistry(h) \/ RegistryAnswers(h)
             \/ RegistryUnavailable(h) \/ EnforceRateLimit(h) \/ CountFails(h)
             \/ SenderClean(h) \/ SenderListed(h)
    BY <1>2 DEF PermissionCached, AskRegistry, RegistryAnswers, RegistryUnavailable,
                EnforceRateLimit, CountFails, SenderClean, SenderListed
  <1>3. CASE \/ SubmitReturns(h) \/ SubmitThrows(h) \/ PreferencesCached(h)
             \/ AskPreferences(h) \/ PreferencesAnswer(h) \/ PreferencesFail(h)
    BY <1>3 DEF SubmitReturns, SubmitThrows, PreferencesCached, AskPreferences,
                PreferencesAnswer, PreferencesFail, SubmitMessage, InsertMessage, Accepted
  <1>4. CASE \/ NoEndpoint(h) \/ WebhookOk(h) \/ WebhookFailed(h)
             \/ InboxOk(h) \/ InboxThrows(h) \/ AckReturns(h) \/ AckThrows(h)
    BY <1>4 DEF NoEndpoint, WebhookOk, WebhookFailed, InboxOk, InboxThrows, AckReturns,
                AckThrows, Posted, WriteAgentInbox, UpdateAck
  <1> QED BY <1>1, <1>2, <1>3, <1>4 DEF Handle

(* Everything else that happens leaves the handlers and caches alone,      *)
(* except a crash; only recipients change the registry, only the clock     *)
(* moves the time.                                                         *)
LEMMA EnvironmentFrame ==
  ASSUME Environment
  PROVE  \/ Crash \/ Clock
         \/ \E pair \in Pairs, answer \in ChainAnswers : ChangeAnswer(pair, answer)
         \/ \E r \in Recipients, url \in Urls \cup {None} : ChangeWebhook(r, url)
         \/ UNCHANGED <<registryVars, routerVars>> /\ now' = now
  <1> USE DEF registryVars, routerVars, storeVars
  <1>1. ASSUME NEW c \in late, LateCall(c)
        PROVE  UNCHANGED <<registryVars, routerVars>> /\ now' = now
    BY <1>1 DEF LateCall, SubmitMessage, InsertMessage, WriteAgentInbox, UpdateAck
  <1>2. CASE (\E id \in MessageIds : AgentReads(id)) \/ Heartbeat \/ Sweep
    BY <1>2 DEF AgentReads, MarkInboxRead, Heartbeat, RegisterNode, Sweep, ExpireMessages
  <1> QED BY <1>1, <1>2 DEF Environment

(* Every step keeps the types.                                             *)
LEMMA HandleTyped ==
  ASSUME RouterTyped, NEW h \in Handlers, Arrive(h) \/ Handle(h)
  PROVE  RouterTyped'
  <1>1. handler' \in [Handlers -> HandlerRecords]
    BY ArriveTyped, GateTyped, SubmitTyped, DeliverTyped DEF Handle
  <1>2. now' \in Nat /\ RegistryTyped'
    BY HandlerFrame DEF RouterTyped, RegistryTyped, registryVars
  <1>3. permCache' \in [Pairs -> PermEntries \cup {None}]
    <2>1. CASE RegistryAnswers(h)
      <3>1. handler[h].answer \in ChainAnswers
        BY <2>1, Known DEF RegistryAnswers, At, Coherent
      <3>2. now + CACHE_TTL \in Nat
        BY RouterAssumption DEF RouterTyped
      <3>3. [answer |-> handler[h].answer, expires |-> now + CACHE_TTL] \in PermEntries
        BY <3>1, <3>2 DEF PermEntries
      <3> QED BY <2>1, <3>3 DEF RegistryAnswers, RouterTyped, CachesTyped
    <2>2. CASE permCache' = permCache
      BY <2>2 DEF RouterTyped, CachesTyped
    <2> QED BY <2>1, <2>2, HandlerFrame
  <1>4. prefCache' \in [Recipients -> PrefEntries \cup {None}]
    <2>1. CASE PreferencesAnswer(h)
      <3>1. handler[h].url \in Urls \cup {None}
        BY Known DEF HandlerStates, Plus
      <3>2. now + CACHE_TTL \in Nat
        BY RouterAssumption DEF RouterTyped
      <3>3. [url |-> handler[h].url, expires |-> now + CACHE_TTL] \in PrefEntries
        BY <3>1, <3>2 DEF PrefEntries
      <3> QED BY <2>1, <3>3 DEF PreferencesAnswer, RouterTyped, CachesTyped
    <2>2. CASE prefCache' = prefCache
      BY <2>2 DEF RouterTyped, CachesTyped
    <2> QED BY <2>1, <2>2, HandlerFrame
  <1> QED BY <1>1, <1>2, <1>3, <1>4 DEF RouterTyped, CachesTyped

LEMMA CrashTyped ==
  ASSUME RouterTyped, Crash
  PROVE  RouterTyped'
  <1>1. ASSUME NEW h \in Handlers, Running(h)
        PROVE  [handler[h] EXCEPT !.pc = "lost"] \in HandlerRecords
    <2> DEFINE rec == [handler[h] EXCEPT !.pc = "lost"]
    <2>1. handler[h] \in HandlerStates /\ "lost" \in Places
      BY Known DEF Places
    <2>2. rec \in HandlerStates /\ rec.pc = "lost" /\ rec.response = handler[h].response
      BY <2>1 DEF HandlerStates
    <2>3. handler[h].response = None
      BY <1>1, Known DEF Running, Coherent, HandlerStates
    <2> HIDE DEF rec
    <2>4. rec \in HandlerRecords
      BY <2>2, <2>3 DEF HandlerRecords, Coherent, Steps
    <2> QED BY <2>4 DEF rec
  <1>2. handler' \in [Handlers -> HandlerRecords]
    BY <1>1 DEF Crash, RouterTyped
  <1>3. CachesTyped'
    BY DEF Crash, CachesTyped
  <1>4. RegistryTyped' /\ now' \in Nat
    BY DEF Crash, RouterTyped, RegistryTyped, registryVars, storeVars
  <1> QED BY <1>2, <1>3, <1>4 DEF RouterTyped

LEMMA RecipientTyped ==
  ASSUME RouterTyped,
         \/ \E pair \in Pairs, answer \in ChainAnswers : ChangeAnswer(pair, answer)
         \/ \E r \in Recipients, url \in Urls \cup {None} : ChangeWebhook(r, url)
  PROVE  RouterTyped'
  <1>1. UNCHANGED routerVars /\ now' = now
    BY DEF ChangeAnswer, ChangeWebhook, storeVars
  <1>2. RegistryTyped'
    <2>1. ASSUME NEW pair \in Pairs, NEW answer \in ChainAnswers, ChangeAnswer(pair, answer)
          PROVE  RegistryTyped'
      BY <2>1 DEF ChangeAnswer, RouterTyped, RegistryTyped
    <2>2. ASSUME NEW r \in Recipients, NEW url \in Urls \cup {None}, ChangeWebhook(r, url)
          PROVE  RegistryTyped'
      BY <2>2 DEF ChangeWebhook, RouterTyped, RegistryTyped
    <2> QED BY <2>1, <2>2
  <1> QED BY <1>1, <1>2 DEF RouterTyped, CachesTyped, routerVars

LEMMA RouterStepTyped == RouterTyped /\ [Next]_vars => RouterTyped'
  <1> SUFFICES ASSUME RouterTyped, [Next]_vars PROVE RouterTyped'
    OBVIOUS
  <1>1. ASSUME UNCHANGED <<registryVars, routerVars>>, now' = now
        PROVE  RouterTyped'
    BY <1>1 DEF RouterTyped, RegistryTyped, CachesTyped, registryVars, routerVars
  <1>2. CASE UNCHANGED vars
    BY <1>1, <1>2 DEF vars, storeVars
  <1>3. ASSUME NEW h \in Handlers, Arrive(h) \/ Handle(h) PROVE RouterTyped'
    BY <1>3, HandleTyped
  <1>4. CASE Clock
    <2>1. now' = now + 1 /\ UNCHANGED <<registryVars, routerVars>>
      BY <1>4 DEF Clock, Tick
    <2> QED BY <2>1 DEF RouterTyped, RegistryTyped, CachesTyped, registryVars, routerVars
  <1>5. CASE Environment
    BY <1>1, <1>4, <1>5, EnvironmentFrame, CrashTyped, RecipientTyped
  <1> QED BY <1>2, <1>3, <1>5 DEF Next

LEMMA RouterInitTyped == Init => RouterTyped
  BY NoHandlerTyped DEF Init, StoreInit, RouterTyped, RegistryTyped, CachesTyped

(* Whatever senders, recipients, services, late calls and crashes do: a    *)
(* handler has answered exactly when it is done, never delivers without a  *)
(* channel to try, and both caches hold answers the registry once gave.    *)
THEOREM RouterTypeCorrect == Spec => []RouterTypeOK
  BY RouterInitTyped, RouterStepTyped, TypedMeans, PTL DEF Spec

-----------------------------------------------------------------------------
(* Where a handler's step leads.                                           *)

(* Before it has asked for the endpoints a handler knows none.             *)
BeforeEndpoints ==
  {"permission", "answered", "limit", "threat", "submit", "preferences"}

LEMMA GoMeans ==
  ASSUME RouterTyped, NEW h \in Handlers, NEW rec, Go(h, rec)
  PROVE  handler'[h] = rec /\ \A g \in Handlers \ {h} : handler'[g] = handler[g]
  BY DEF Go, RouterTyped

(* A response ends the handler.                                            *)
LEMMA RespondMeans ==
  ASSUME RouterTyped, NEW h \in Handlers, NEW code, Respond(h, code)
  PROVE  /\ handler'[h].pc = "done" /\ handler'[h].id = handler[h].id
         /\ handler'[h].response = code /\ handler'[h].result = handler[h].result
         /\ \A g \in Handlers \ {h} : handler'[g] = handler[g]
  <1>1. /\ handler'[h] = Response(h, code)
        /\ \A g \in Handlers \ {h} : handler'[g] = handler[g]
    BY GoMeans DEF Respond, Response
  <1>2. NoHandler \in HandlerStates
    BY NoHandlerTyped DEF HandlerRecords
  <1>3. /\ Response(h, code).pc = "done" /\ Response(h, code).id = handler[h].id
        /\ Response(h, code).response = code
        /\ Response(h, code).result = handler[h].result
    BY <1>2 DEF Response, HandlerStates
  <1> QED BY <1>1, <1>3

LEMMA MoveMeans ==
  ASSUME RouterTyped, NEW h \in Handlers, NEW pc, Move(h, pc)
  PROVE  /\ handler'[h].pc = pc /\ handler'[h].url = handler[h].url
         /\ handler'[h].id = handler[h].id /\ handler'[h].result = handler[h].result
         /\ handler'[h].response = handler[h].response
         /\ \A g \in Handlers \ {h} : handler'[g] = handler[g]
  <1>1. /\ handler'[h] = [handler[h] EXCEPT !.pc = pc]
        /\ \A g \in Handlers \ {h} : handler'[g] = handler[g]
    BY GoMeans DEF Move
  <1>2. handler[h] \in HandlerStates
    BY Known
  <1> QED BY <1>1, <1>2 DEF HandlerStates

(* A send that goes on past the limit knows what it was counted against.   *)
PassedLimit(h, count) ==
  /\ handler[h].id # None
  /\ handler'[h].pc = "threat" /\ handler'[h].count = count
  /\ handler'[h].url = handler[h].url
  /\ handler'[h].id = handler[h].id /\ handler'[h].result = handler[h].result
  /\ handler'[h].sender = handler[h].sender
  /\ handler'[h].recipient = handler[h].recipient
  /\ handler'[h].createdAt = handler[h].createdAt
  /\ handler'[h].response = handler[h].response
  /\ \A g \in Handlers \ {h} : handler'[g] = handler[g]

LEMMA PassesMeans ==
  ASSUME RouterTyped, NEW h \in Handlers, NEW count, Passes(h, count)
  PROVE  Respond(h, "200 yes") \/ PassedLimit(h, count)
  <1> DEFINE rec == [handler[h] EXCEPT !.pc = "threat", !.count = count]
  <1>1. CASE handler[h].id = None
    BY <1>1 DEF Passes
  <1>2. CASE handler[h].id # None
    <2>1. handler[h] \in HandlerStates
      BY Known
    <2>2. /\ rec.pc = "threat" /\ rec.count = count /\ rec.url = handler[h].url
          /\ rec.id = handler[h].id /\ rec.result = handler[h].result
          /\ rec.sender = handler[h].sender /\ rec.recipient = handler[h].recipient
          /\ rec.createdAt = handler[h].createdAt /\ rec.response = handler[h].response
      BY <2>1 DEF HandlerStates
    <2>3. handler'[h] = rec /\ \A g \in Handlers \ {h} : handler'[g] = handler[g]
      BY <1>2, GoMeans DEF Passes
    <2> HIDE DEF rec
    <2> QED BY <1>2, <2>2, <2>3 DEF PassedLimit
  <1> QED BY <1>1, <1>2

(* A decision leads to the limit, with the source noted, or to a refusal.  *)
LEMMA DecideMeans ==
  ASSUME RouterTyped, NEW h \in Handlers, NEW answer, NEW source, Decide(h, answer, source)
  PROVE  /\ \A g \in Handlers \ {h} : handler'[g] = handler[g]
         /\ handler'[h].id = handler[h].id
         /\ \/ /\ answer.allowed /\ handler'[h].pc = "limit" /\ handler'[h].source = source
               /\ handler'[h].url = handler[h].url
               /\ handler'[h].response = handler[h].response
               /\ handler'[h].result = handler[h].result
            \/ /\ ~answer.allowed /\ handler'[h].pc = "done"
               /\ handler'[h].response \in {"200 no", "403"}
               /\ handler'[h].result = handler[h].result
  <1>1. handler[h] \in HandlerStates
    BY Known
  <1>2. CASE answer.allowed
    <2> DEFINE rest == MapChannels(answer.channels)
               rec == [handler[h] EXCEPT
                         !.pc = "limit", !.answer = answer, !.source = source,
                         !.asked = 0, !.rest = rest]
    <2> HIDE DEF rest
    <2>1. Go(h, rec)
      BY <1>2 DEF Decide, rest
    <2>2. /\ rec.pc = "limit" /\ rec.source = source /\ rec.url = handler[h].url
          /\ rec.id = handler[h].id /\ rec.response = handler[h].response
          /\ rec.result = handler[h].result
      BY <1>1 DEF HandlerStates
    <2> HIDE DEF rec
    <2> QED BY <1>2, <2>1, <2>2, GoMeans
  <1>3. CASE ~answer.allowed
    <2>1. PICK code \in {"200 no", "403"} : Respond(h, code)
      BY <1>3 DEF Decide
    <2> QED BY <1>3, <2>1, RespondMeans
  <1> QED BY <1>2, <1>3

LEMMA TryNextMeans ==
  ASSUME RouterTyped, NEW h \in Handlers, TryNext(h)
  PROVE  /\ handler'[h].pc \in {"deliver", "ack"}
         /\ handler'[h].id = handler[h].id /\ handler'[h].result = handler[h].result
         /\ handler'[h].response = handler[h].response
         /\ \A g \in Handlers \ {h} : handler'[g] = handler[g]
  <1> DEFINE rest == Tail(handler[h].rest)
             pc == IF rest = <<>> THEN "ack" ELSE "deliver"
             rec == [handler[h] EXCEPT !.rest = rest, !.pc = pc]
  <1>1. Go(h, rec) /\ pc \in {"deliver", "ack"} /\ handler[h] \in HandlerStates
    BY Known DEF TryNext
  <1> HIDE DEF rest, pc
  <1>2. /\ rec.pc = pc /\ rec.id = handler[h].id /\ rec.result = handler[h].result
        /\ rec.response = handler[h].response
    BY <1>1 DEF HandlerStates
  <1> HIDE DEF rec
  <1> QED BY <1>1, <1>2, GoMeans

LEMMA SucceedMeans ==
  ASSUME RouterTyped, NEW h \in Handlers, NEW channel, Succeed(h, channel)
  PROVE  /\ handler'[h].pc = "ack"
         /\ handler'[h].id = handler[h].id /\ handler'[h].result = channel
         /\ handler'[h].response = handler[h].response
         /\ \A g \in Handlers \ {h} : handler'[g] = handler[g]
  <1> DEFINE rec == [handler[h] EXCEPT !.pc = "ack", !.result = channel, !.rest = <<>>]
  <1>1. Go(h, rec) /\ handler[h] \in HandlerStates
    BY Known DEF Succeed
  <1>2. /\ rec.pc = "ack" /\ rec.id = handler[h].id /\ rec.result = channel
        /\ rec.response = handler[h].response
    BY <1>1 DEF HandlerStates
  <1> HIDE DEF rec
  <1> QED BY <1>1, <1>2, GoMeans

(* The three ways to the delivery, and the query for the endpoints.        *)
LEMMA PreferencesMean ==
  ASSUME RouterTyped, NEW h \in Handlers,
         \/ PreferencesCached(h) \/ PreferencesAnswer(h) \/ PreferencesFail(h)
         \/ AskPreferences(h)
  PROVE  /\ \A g \in Handlers \ {h} : handler'[g] = handler[g]
         /\ handler'[h].id = handler[h].id /\ handler'[h].result = handler[h].result
         /\ handler'[h].response = handler[h].response
         /\ ~AskPreferences(h) => handler'[h].pc = "deliver"
         /\ AskPreferences(h) =>
              /\ handler'[h].pc = "preferred" /\ handler'[h].asked = now
              /\ handler'[h].recipient = handler[h].recipient
              /\ handler'[h].url = webhooks[handler[h].recipient]
         /\ PreferencesCached(h) => handler'[h].url = prefCache[handler[h].recipient].url
         /\ PreferencesAnswer(h) \/ PreferencesFail(h) => handler'[h].url = handler[h].url
  <1>0. handler[h] \in HandlerStates
    BY Known
  <1>1. CASE PreferencesCached(h)
    <2> DEFINE rec == [handler[h] EXCEPT !.pc = "deliver",
                                         !.url = prefCache[handler[h].recipient].url]
    <2>1. Go(h, rec)
      BY <1>1 DEF PreferencesCached
    <2>2. /\ rec.pc = "deliver" /\ rec.url = prefCache[handler[h].recipient].url
          /\ rec.id = handler[h].id /\ rec.result = handler[h].result
          /\ rec.response = handler[h].response
      BY <1>0 DEF HandlerStates
    <2> HIDE DEF rec
    <2>3. /\ handler'[h] = rec
          /\ \A g \in Handlers \ {h} : handler'[g] = handler[g]
      BY <2>1, GoMeans
    <2>4. ~AskPreferences(h) /\ ~PreferencesAnswer(h) /\ ~PreferencesFail(h)
      BY <1>1 DEF PreferencesCached, AskPreferences, PreferencesAnswer, PreferencesFail, At
    <2> QED BY <2>2, <2>3, <2>4
  <1>2. CASE PreferencesAnswer(h)
    <2> DEFINE rec == [handler[h] EXCEPT !.pc = "deliver", !.asked = 0]
    <2>1. Go(h, rec)
      BY <1>2 DEF PreferencesAnswer
    <2>2. /\ rec.pc = "deliver" /\ rec.url = handler[h].url
          /\ rec.id = handler[h].id /\ rec.result = handler[h].result
          /\ rec.response = handler[h].response
      BY <1>0 DEF HandlerStates
    <2> HIDE DEF rec
    <2>3. /\ handler'[h] = rec
          /\ \A g \in Handlers \ {h} : handler'[g] = handler[g]
      BY <2>1, GoMeans
    <2>4. ~AskPreferences(h) /\ ~PreferencesCached(h)
      BY <1>2 DEF PreferencesCached, AskPreferences, PreferencesAnswer, At
    <2> QED BY <2>2, <2>3, <2>4
  <1>3. CASE PreferencesFail(h) /\ ~PreferencesCached(h) /\ ~AskPreferences(h)
    BY <1>3, MoveMeans DEF PreferencesFail
  <1>4. CASE AskPreferences(h)
    <2> DEFINE rec == [handler[h] EXCEPT !.pc = "preferred", !.asked = now,
                                         !.url = webhooks[handler[h].recipient]]
    <2>1. Go(h, rec)
      BY <1>4 DEF AskPreferences
    <2>2. /\ rec.pc = "preferred" /\ rec.url = webhooks[handler[h].recipient]
          /\ rec.asked = now /\ rec.recipient = handler[h].recipient
          /\ rec.id = handler[h].id /\ rec.result = handler[h].result
          /\ rec.response = handler[h].response
      BY <1>0 DEF HandlerStates
    <2> HIDE DEF rec
    <2>3. /\ handler'[h] = rec
          /\ \A g \in Handlers \ {h} : handler'[g] = handler[g]
      BY <2>1, GoMeans
    <2>4. ~PreferencesFail(h)
      <3>1. SUFFICES ASSUME PreferencesFail(h) PROVE FALSE
        OBVIOUS
      <3>2. handler'[h].pc = "deliver"
        BY <3>1, MoveMeans DEF PreferencesFail
      <3> QED BY <2>2, <2>3, <3>2
    <2>5. ~PreferencesCached(h) /\ ~PreferencesAnswer(h)
      BY <1>4 DEF PreferencesCached, AskPreferences, PreferencesAnswer, At
    <2> QED BY <1>4, <2>2, <2>3, <2>4, <2>5
  <1>5. ~(PreferencesFail(h) /\ PreferencesCached(h))
    BY DEF PreferencesFail, PreferencesCached
  <1> QED BY <1>1, <1>2, <1>3, <1>4, <1>5

(* How each handler step got where it is.                                  *)
Leads(h) ==
  /\ \A g \in Handlers \ {h} : handler'[g] = handler[g]
  /\ handler'[h].pc = "answered" => AskRegistry(h)
  /\ handler'[h].pc = "preferred" => AskPreferences(h)
  /\ handler'[h].pc = "limit" =>
       PermissionCached(h) \/ RegistryAnswers(h) \/ RegistryUnavailable(h)
  /\ handler'[h].pc = "deliver" =>
       \/ At(h, "deliver")
       \/ PreferencesCached(h) \/ PreferencesAnswer(h) \/ PreferencesFail(h)
  /\ handler'[h].pc \in BeforeEndpoints =>
       \/ handler'[h].url = None
       \/ handler[h].pc \in BeforeEndpoints /\ handler'[h].url = handler[h].url

LEMMA DoneLeads ==
  ASSUME RouterTyped, NEW h \in Handlers, NEW code, Respond(h, code)
  PROVE  Leads(h)
  BY RespondMeans DEF Leads, BeforeEndpoints

LEMMA ArriveLeads ==
  ASSUME RouterTyped, NEW h \in Handlers, Arrive(h)
  PROVE  Leads(h)
  <1>1. ASSUME NEW id \in MessageIds, NEW pair \in Pairs, NEW skew \in Skews,
               NEW ttl \in Ttls, Receive(h, id, pair[1], pair[2], skew, ttl)
        PROVE  Leads(h)
    <2> DEFINE created == now + skew
               late0 == created + ttl
               request == [NoHandler EXCEPT
                    !.id = id, !.sender = pair[1], !.recipient = pair[2],
                    !.createdAt = created, !.expiresAt = late0]
    <2> HIDE DEF created, late0
    <2>1. NoHandler \in HandlerStates /\ NoHandler.url = None
      BY NoHandlerTyped DEF HandlerRecords, NoHandler
    <2>2. /\ [request EXCEPT !.pc = "permission"].pc = "permission"
          /\ [request EXCEPT !.pc = "permission"].url = None
          /\ [request EXCEPT !.pc = "done", !.response = "400"].pc = "done"
      BY <2>1 DEF HandlerStates
    <2>3. \/ Go(h, [request EXCEPT !.pc = "permission"])
          \/ Go(h, [request EXCEPT !.pc = "done", !.response = "400"])
      BY <1>1 DEF Receive, created, late0
    <2> HIDE DEF request
    <2>4. /\ \A g \in Handlers \ {h} : handler'[g] = handler[g]
          /\ \/ handler'[h].pc = "permission" /\ handler'[h].url = None
             \/ handler'[h].pc = "done"
      BY <2>2, <2>3, GoMeans
    <2> QED BY <2>4 DEF Leads, BeforeEndpoints
  <1>2. ASSUME NEW pair \in Pairs, CheckArrives(h, pair)
        PROVE  Leads(h)
    <2> DEFINE rec == [NoHandler EXCEPT !.pc = "permission", !.sender = pair[1],
                                        !.recipient = pair[2]]
    <2>1. rec.pc = "permission" /\ rec.url = None
      BY DEF NoHandler
    <2> HIDE DEF rec
    <2>2. /\ \A g \in Handlers \ {h} : handler'[g] = handler[g]
          /\ handler'[h].pc = "permission" /\ handler'[h].url = None
      BY <1>2, <2>1, GoMeans DEF CheckArrives, rec
    <2> QED BY <2>2 DEF Leads, BeforeEndpoints
  <1>3. CASE ReceiveMalformed(h)
    BY <1>3, DoneLeads DEF ReceiveMalformed
  <1> QED BY <1>1, <1>2, <1>3 DEF Arrive

LEMMA MoveLeads ==
  ASSUME RouterTyped, NEW h \in Handlers, handler[h].pc \in BeforeEndpoints,
         NEW pc \in {"threat", "submit", "preferences"}, Move(h, pc)
  PROVE  Leads(h)
  BY MoveMeans DEF Leads, BeforeEndpoints

LEMMA HandleLeads ==
  ASSUME RouterTyped, NEW h \in Handlers, Handle(h)
  PROVE  Leads(h)
  <1>0. handler[h] \in HandlerStates
    BY Known
  <1>1. CASE PermissionCached(h) \/ RegistryAnswers(h) \/ RegistryUnavailable(h)
    <2>1. handler[h].pc \in BeforeEndpoints
      BY <1>1 DEF PermissionCached, RegistryAnswers, RegistryUnavailable, At, BeforeEndpoints
    <2>2. \E answer, source : Decide(h, answer, source)
      BY <1>1 DEF PermissionCached, RegistryAnswers, RegistryUnavailable
    <2>3. /\ \A g \in Handlers \ {h} : handler'[g] = handler[g]
          /\ \/ handler'[h].pc = "limit" /\ handler'[h].url = handler[h].url
             \/ handler'[h].pc = "done"
      BY <2>2, DecideMeans
    <2> QED BY <1>1, <2>1, <2>3 DEF Leads, BeforeEndpoints
  <1>2. CASE AskRegistry(h)
    <2> DEFINE rec == [handler[h] EXCEPT !.pc = "answered", !.answer = chain[PairOf(h)],
                                         !.asked = now]
    <2>1. rec.pc = "answered" /\ rec.url = handler[h].url
      BY <1>0 DEF HandlerStates
    <2>2. handler[h].pc \in BeforeEndpoints
      BY <1>2 DEF AskRegistry, At, BeforeEndpoints
    <2> HIDE DEF rec
    <2>3. /\ \A g \in Handlers \ {h} : handler'[g] = handler[g]
          /\ handler'[h].pc = "answered" /\ handler'[h].url = handler[h].url
      BY <1>2, <2>1, GoMeans DEF AskRegistry, rec
    <2> QED BY <1>2, <2>2, <2>3 DEF Leads, BeforeEndpoints
  <1>3. CASE \/ SenderClean(h) \/ SenderListed(h)
             \/ SubmitReturns(h) \/ SubmitThrows(h) \/ AckReturns(h) \/ AckThrows(h)
    <2>1. \/ \E code : Respond(h, code)
          \/ /\ handler[h].pc \in BeforeEndpoints
             /\ Move(h, "submit") \/ Move(h, "preferences")
      BY <1>3 DEF SenderClean, SenderListed, SubmitReturns, SubmitThrows, AckReturns,
                  AckThrows, At, BeforeEndpoints
    <2> QED BY <2>1, DoneLeads, MoveLeads
  <1>7. CASE EnforceRateLimit(h) \/ CountFails(h)
    <2>1. At(h, "limit")
      BY <1>7, LimitPasses
    <2>2. CASE \E code : Respond(h, code)
      BY <2>2, DoneLeads
    <2>3. ASSUME NEW count, Passes(h, count) PROVE Leads(h)
      BY <2>1, <2>2, <2>3, PassesMeans DEF PassedLimit, Leads, BeforeEndpoints, At
    <2> QED BY <1>7, <2>2, <2>3, LimitPasses DEF Exceeds
  <1>5. CASE AskPreferences(h)
    BY <1>5, PreferencesMean DEF Leads, BeforeEndpoints
  <1>4. CASE PreferencesCached(h) \/ PreferencesAnswer(h) \/ PreferencesFail(h)
    <2>1. /\ \A g \in Handlers \ {h} : handler'[g] = handler[g]
          /\ handler'[h].pc = "deliver" \/ AskPreferences(h)
      BY <1>4, PreferencesMean
    <2> QED BY <1>4, <1>5, <2>1 DEF Leads, BeforeEndpoints
  <1>6. CASE \/ NoEndpoint(h) \/ WebhookOk(h) \/ WebhookFailed(h)
             \/ InboxOk(h) \/ InboxThrows(h)
    <2>1. At(h, "deliver") /\ (TryNext(h) \/ \E channel : Succeed(h, channel))
      BY <1>6 DEF NoEndpoint, WebhookOk, WebhookFailed, InboxOk, InboxThrows, Delivering
    <2>2. CASE TryNext(h)
      BY <2>1, <2>2, TryNextMeans DEF Leads, BeforeEndpoints
    <2>3. ASSUME NEW channel, Succeed(h, channel) PROVE Leads(h)
      BY <2>3, SucceedMeans DEF Leads, BeforeEndpoints
    <2> QED BY <2>1, <2>2, <2>3
  <1> QED BY <1>1, <1>2, <1>3, <1>4, <1>5, <1>6, <1>7 DEF Handle

-----------------------------------------------------------------------------
(* Withdrawn consent.  WithdrawalsAreHonoured speaks of one step; it is    *)
(* inductive once every answer that waits in a handler or lies in the      *)
(* cache is known to have been true when the chain evaluated it, which was *)
(* at most MaxLatency before it came back.                                 *)

(* The pair was allowed at time t or later.                                *)
Backed(p, t) == chain[p].allowed \/ lastAllowed[p] >= t

WaitingBacked(h) ==
  handler[h].pc = "answered" =>
    /\ handler[h].asked <= now /\ now <= handler[h].asked + MaxLatency
    /\ handler[h].answer.allowed => Backed(PairOf(h), handler[h].asked)

EntryBacked(p) ==
  permCache[p] # None =>
    /\ permCache[p].expires <= now + CACHE_TTL
    /\ permCache[p].answer.allowed =>
         Backed(p, permCache[p].expires - CACHE_TTL - MaxLatency)

AnswersBacked ==
  /\ \A h \in Handlers : WaitingBacked(h)
  /\ \A p \in Pairs : EntryBacked(p)

(* What was allowed then was allowed then, whatever the recipient does.    *)
LEMMA BackedKept ==
  ASSUME RouterTyped, NEW p \in Pairs, NEW t \in Int, t <= now, Backed(p, t),
         \/ UNCHANGED registryVars
         \/ \E pair \in Pairs, answer \in ChainAnswers : ChangeAnswer(pair, answer)
         \/ \E r \in Recipients, url \in Urls \cup {None} : ChangeWebhook(r, url)
  PROVE  Backed(p, t)'
  <1>1. CASE UNCHANGED registryVars
    BY <1>1 DEF Backed, registryVars
  <1>2. ASSUME NEW pair \in Pairs, NEW answer \in ChainAnswers, ChangeAnswer(pair, answer)
        PROVE  Backed(p, t)'
    BY <1>2 DEF Backed, ChangeAnswer, RouterTyped, RegistryTyped
  <1>3. ASSUME NEW r \in Recipients, NEW url \in Urls \cup {None}, ChangeWebhook(r, url)
        PROVE  Backed(p, t)'
    BY <1>3 DEF Backed, ChangeWebhook
  <1> QED BY <1>1, <1>2, <1>3

(* The times that the invariant compares are numbers.                      *)
LEMMA TimesTyped ==
  ASSUME RouterTyped
  PROVE  /\ now \in Nat /\ CACHE_TTL \in Nat /\ MaxLatency \in Nat
         /\ \A h \in Handlers : handler[h].asked \in Int
         /\ \A p \in Pairs : lastAllowed[p] \in Nat
         /\ \A p \in Pairs : permCache[p] # None => permCache[p].expires \in Nat
  <1>1. \A h \in Handlers : handler[h].asked \in Int
    BY Known DEF HandlerStates
  <1>2. \A p \in Pairs : permCache[p] # None => permCache[p].expires \in Nat
    BY DEF RouterTyped, CachesTyped, PermEntries
  <1> QED BY <1>1, <1>2, RouterAssumption DEF RouterTyped, RegistryTyped

(* A handler's step.                                                       *)
LEMMA HandlerBacked ==
  ASSUME RouterTyped, AnswersBacked, NEW h \in Handlers, Arrive(h) \/ Handle(h)
  PROVE  AnswersBacked'
  <1>1. /\ UNCHANGED registryVars /\ now' = now
        /\ RegistryAnswers(h) \/ permCache' = permCache
    BY HandlerFrame
  <1>2. Leads(h)
    BY ArriveLeads, HandleLeads
  <1>3. ASSUME NEW g \in Handlers PROVE WaitingBacked(g)'
    <2>1. CASE g # h
      BY <1>1, <1>2, <2>1 DEF AnswersBacked, WaitingBacked, Leads, Backed, PairOf, registryVars
    <2>2. CASE g = h /\ handler'[h].pc = "answered"
      <3> DEFINE rec == [handler[h] EXCEPT !.pc = "answered", !.answer = chain[PairOf(h)],
                                           !.asked = now]
      <3>1. AskRegistry(h) /\ Go(h, rec)
        BY <1>2, <2>2 DEF Leads, AskRegistry
      <3>2. /\ rec.answer = chain[PairOf(h)] /\ rec.asked = now
            /\ rec.sender = handler[h].sender /\ rec.recipient = handler[h].recipient
        BY Known DEF HandlerStates
      <3> HIDE DEF rec
      <3>3. handler'[h] = rec
        BY <3>1, GoMeans
      <3>4. PairOf(h)' = PairOf(h) /\ handler'[h].answer = chain[PairOf(h)]
            /\ handler'[h].asked = now
        BY <3>2, <3>3 DEF PairOf
      <3>5. now \in Nat /\ MaxLatency \in Nat
        BY TimesTyped
      <3> QED BY <1>1, <2>2, <3>4, <3>5 DEF WaitingBacked, Backed, registryVars
    <2>3. CASE g = h /\ handler'[h].pc # "answered"
      BY <2>3 DEF WaitingBacked
    <2> QED BY <2>1, <2>2, <2>3
  <1>4. ASSUME NEW p \in Pairs PROVE EntryBacked(p)'
    <2>1. CASE permCache'[p] = permCache[p]
      BY <1>1, <2>1 DEF AnswersBacked, EntryBacked, Backed, registryVars
    <2>2. CASE permCache'[p] # permCache[p]
      <3>1. RegistryAnswers(h)
        BY <1>1, <2>2
      <3>2. /\ p = PairOf(h)
            /\ permCache'[p] = [answer |-> handler[h].answer, expires |-> now + CACHE_TTL]
        BY <2>2, <3>1 DEF RegistryAnswers, RouterTyped, CachesTyped
      <3>3. /\ now <= handler[h].asked + MaxLatency
            /\ handler[h].answer.allowed => Backed(p, handler[h].asked)
        BY <3>1, <3>2 DEF AnswersBacked, WaitingBacked, RegistryAnswers, At
      <3>4. /\ permCache'[p].expires = now + CACHE_TTL
            /\ permCache'[p].answer = handler[h].answer
        BY <3>2
      <3>5. /\ now \in Nat /\ CACHE_TTL \in Nat /\ MaxLatency \in Nat
            /\ handler[h].asked \in Int /\ lastAllowed[p] \in Nat
        BY TimesTyped
      <3>6. now + CACHE_TTL - CACHE_TTL - MaxLatency <= handler[h].asked
        BY <3>3, <3>5
      <3>7. handler[h].answer.allowed =>
              Backed(p, now + CACHE_TTL - CACHE_TTL - MaxLatency)
        BY <3>3, <3>5, <3>6 DEF Backed
      <3> QED BY <1>1, <3>4, <3>5, <3>7 DEF EntryBacked, Backed, registryVars
    <2> QED BY <2>1, <2>2
  <1> QED BY <1>3, <1>4 DEF AnswersBacked

(* A step of anybody else, in which neither a handler nor the cache learns *)
(* anything and time goes on by at most as much as the guard allows.       *)
LEMMA OthersBacked ==
  ASSUME RouterTyped, AnswersBacked, Environment
  PROVE  AnswersBacked'
  <1>0. /\ now \in Nat /\ CACHE_TTL \in Nat /\ MaxLatency \in Nat
        /\ \A h \in Handlers : handler[h].asked \in Int
        /\ \A p \in Pairs : permCache[p] # None => permCache[p].expires \in Nat
    BY TimesTyped
  <1>1. ASSUME UNCHANGED routerVars, now' = now,
               \/ UNCHANGED registryVars
               \/ \E pair \in Pairs, answer \in ChainAnswers : ChangeAnswer(pair, answer)
               \/ \E r \in Recipients, url \in Urls \cup {None} : ChangeWebhook(r, url)
        PROVE  AnswersBacked'
    <2>1. ASSUME NEW h \in Handlers PROVE WaitingBacked(h)'
      <3>1. SUFFICES ASSUME handler[h].pc = "answered"
                     PROVE  /\ handler[h].asked <= now /\ now <= handler[h].asked + MaxLatency
                            /\ handler[h].answer.allowed => Backed(PairOf(h), handler[h].asked)'
        BY <1>1 DEF WaitingBacked, routerVars, PairOf, Backed
      <3>2. /\ handler[h].asked <= now /\ now <= handler[h].asked + MaxLatency
            /\ handler[h].answer.allowed => Backed(PairOf(h), handler[h].asked)
        BY <3>1 DEF AnswersBacked, WaitingBacked
      <3>3. PairOf(h) \in Pairs
        BY <3>1, PairKnown DEF Steps
      <3>4. PairOf(h)' = PairOf(h) /\ handler' = handler
        BY <1>1 DEF PairOf, routerVars
      <3>5. ASSUME Backed(PairOf(h), handler[h].asked)
            PROVE  Backed(PairOf(h), handler[h].asked)'
        <4> DEFINE p == PairOf(h)
                   t == handler[h].asked
        <4>1. p \in Pairs /\ t \in Int /\ t <= now /\ Backed(p, t) /\ p' = p /\ t' = t
          BY <1>0, <3>2, <3>3, <3>4, <3>5
        <4>2. \A q \in Pairs, u \in Int : u <= now /\ Backed(q, u) =>
                chain'[q].allowed \/ lastAllowed'[q] >= u
          BY <1>1, BackedKept DEF Backed
        <4> QED BY <4>1, <4>2 DEF Backed
      <3> QED BY <3>2, <3>5
    <2>2. ASSUME NEW p \in Pairs PROVE EntryBacked(p)'
      <3>1. permCache' = permCache
        BY <1>1 DEF routerVars
      <3>2. CASE permCache[p] # None
        <4> DEFINE t == permCache[p].expires - CACHE_TTL - MaxLatency
        <4>1. /\ permCache[p].expires <= now + CACHE_TTL
              /\ permCache[p].answer.allowed => Backed(p, t)
          BY <3>2 DEF AnswersBacked, EntryBacked
        <4>2. t \in Int /\ t <= now
          BY <1>0, <3>2, <4>1
        <4>3. \A u \in Int : u <= now /\ Backed(p, u) =>
                chain'[p].allowed \/ lastAllowed'[p] >= u
          BY <1>1, BackedKept DEF Backed
        <4>4. permCache[p].answer.allowed => chain'[p].allowed \/ lastAllowed'[p] >= t
          BY <4>1, <4>2, <4>3
        <4> QED BY <1>1, <3>1, <4>1, <4>4 DEF EntryBacked, Backed
      <3>3. CASE permCache[p] = None
        BY <3>1, <3>3 DEF EntryBacked
      <3> QED BY <3>2, <3>3
    <2> QED BY <2>1, <2>2 DEF AnswersBacked
  <1>2. CASE Clock
    <2>1. now' = now + 1 /\ UNCHANGED <<registryVars, routerVars>>
      BY <1>2 DEF Clock, Tick
    <2>2. ASSUME NEW h \in Handlers PROVE WaitingBacked(h)'
      <3>1. handler[h].pc = "answered" => now - handler[h].asked < MaxLatency
        BY <1>2 DEF Clock
      <3>2. WaitingBacked(h)
        BY DEF AnswersBacked
      <3> QED BY <1>0, <2>1, <3>1, <3>2 DEF WaitingBacked, Backed, PairOf, registryVars, routerVars
    <2>3. ASSUME NEW p \in Pairs PROVE EntryBacked(p)'
      <3>1. EntryBacked(p)
        BY DEF AnswersBacked
      <3> QED BY <1>0, <2>1, <3>1 DEF EntryBacked, Backed, registryVars, routerVars
    <2> QED BY <2>2, <2>3 DEF AnswersBacked
  <1>3. CASE Crash
    <2>1. ASSUME NEW h \in Handlers PROVE WaitingBacked(h)'
      <3>1. handler[h] \in HandlerStates
        BY Known
      <3>2. CASE Running(h)
        <4>1. handler'[h].pc = "lost"
          BY <1>3, <3>1, <3>2 DEF Crash, HandlerStates
        <4> QED BY <4>1 DEF WaitingBacked
      <3>3. CASE ~Running(h)
        <4>1. handler'[h].pc # "answered"
          BY <1>3, <3>3 DEF Crash, Running
        <4> QED BY <4>1 DEF WaitingBacked
      <3> QED BY <3>2, <3>3
    <2>2. \A p \in Pairs : EntryBacked(p)'
      BY <1>3 DEF Crash, EntryBacked
    <2> QED BY <2>1, <2>2 DEF AnswersBacked
  <1>4. CASE \/ \E pair \in Pairs, answer \in ChainAnswers : ChangeAnswer(pair, answer)
             \/ \E r \in Recipients, url \in Urls \cup {None} : ChangeWebhook(r, url)
    <2>1. UNCHANGED routerVars /\ now' = now
      BY <1>4 DEF ChangeAnswer, ChangeWebhook, storeVars
    <2> QED BY <1>1, <1>4, <2>1
  <1>5. CASE UNCHANGED <<registryVars, routerVars>> /\ now' = now
    BY <1>1, <1>5
  <1> QED BY <1>2, <1>3, <1>4, <1>5, EnvironmentFrame

LEMMA StepBacked == RouterTyped /\ AnswersBacked /\ [Next]_vars => AnswersBacked'
  <1>1. ASSUME AnswersBacked, UNCHANGED vars PROVE AnswersBacked'
    BY <1>1 DEF AnswersBacked, WaitingBacked, EntryBacked, Backed, PairOf, vars, storeVars,
                registryVars, routerVars
  <1> QED BY <1>1, HandlerBacked, OthersBacked DEF Next

LEMMA InitBacked == Init => AnswersBacked
  BY DEF Init, NoHandler, AnswersBacked, WaitingBacked, EntryBacked

(* A step that does not belong to a handler takes it no further.           *)
LEMMA OnlyOwnSteps ==
  ASSUME RouterTyped, [Next]_vars, NEW h \in Handlers,
         handler'[h].pc # handler[h].pc, handler'[h].pc # "lost"
  PROVE  (Arrive(h) \/ Handle(h)) /\ Leads(h)
  <1>1. CASE UNCHANGED vars
    BY <1>1 DEF vars, routerVars
  <1>2. CASE Environment
    <2>1. CASE Crash
      <3>1. handler[h] \in HandlerStates
        BY Known
      <3>2. CASE Running(h)
        <4>1. handler'[h] = [handler[h] EXCEPT !.pc = "lost"]
          BY <2>1, <3>2 DEF Crash
        <4> QED BY <3>1, <4>1 DEF HandlerStates
      <3>3. CASE ~Running(h)
        BY <2>1, <3>3 DEF Crash
      <3> QED BY <3>2, <3>3
    <2>2. CASE ~Crash
      BY <1>2, <2>2, EnvironmentFrame DEF Clock, ChangeAnswer, ChangeWebhook, routerVars
    <2> QED BY <2>1, <2>2
  <1>3. ASSUME NEW g \in Handlers, Arrive(g) \/ Handle(g)
        PROVE  (Arrive(h) \/ Handle(h)) /\ Leads(h)
    <2>1. Leads(g)
      BY <1>3, ArriveLeads, HandleLeads
    <2>2. g = h
      BY <2>1 DEF Leads
    <2> QED BY <1>3, <2>1, <2>2
  <1> QED BY <1>1, <1>2, <1>3 DEF Next

(* Going past the permission step on an answer the registry once gave.     *)
LEMMA GrantIsBacked ==
  ASSUME RouterTyped, AnswersBacked, [Next]_vars, NEW h \in Handlers,
         Granted(h), handler'[h].source \in {"chain", "cache"}
  PROVE  \/ chain[PairOf(h)].allowed
         \/ now - lastAllowed[PairOf(h)] < CACHE_TTL + MaxLatency
  <1> DEFINE p == PairOf(h)
  <1>1. handler'[h].pc = "limit" /\ handler[h].pc # "limit"
    BY DEF Granted, At
  <1>2. PermissionCached(h) \/ RegistryAnswers(h) \/ RegistryUnavailable(h)
    BY <1>1, OnlyOwnSteps DEF Leads
  <1>3. handler[h].pc \in {"permission", "answered"} /\ p \in Pairs
    BY <1>2, PairKnown DEF PermissionCached, RegistryAnswers, RegistryUnavailable, At, Steps
  <1>4. /\ now \in Nat /\ CACHE_TTL \in Nat /\ MaxLatency \in Nat
        /\ lastAllowed[p] \in Nat /\ handler[h].asked \in Int
        /\ permCache[p] # None => permCache[p].expires \in Nat
        /\ CACHE_TTL > 0
    BY <1>3, TimesTyped, RouterAssumption
  <1>5. CASE PermissionCached(h)
    <2>1. permCache[p].answer.allowed
      BY <1>1, <1>5, DecideMeans DEF PermissionCached
    <2>2. permCache[p] # None /\ now < permCache[p].expires
      BY <1>5 DEF PermissionCached, Fresh
    <2>3. Backed(p, permCache[p].expires - CACHE_TTL - MaxLatency)
      BY <1>3, <2>1, <2>2 DEF AnswersBacked, EntryBacked
    <2> QED BY <1>4, <2>2, <2>3 DEF Backed
  <1>6. CASE RegistryAnswers(h)
    <2>1. handler[h].answer.allowed
      BY <1>1, <1>6, DecideMeans DEF RegistryAnswers
    <2>2. Backed(p, handler[h].asked) /\ now <= handler[h].asked + MaxLatency
      BY <1>6, <2>1 DEF RegistryAnswers, At, AnswersBacked, WaitingBacked
    <2> QED BY <1>4, <2>2 DEF Backed
  <1>7. CASE RegistryUnavailable(h)
    <2>1. handler'[h].source = "unavailable"
      BY <1>1, <1>7, DecideMeans DEF RegistryUnavailable
    <2> QED BY <2>1
  <1> QED BY <1>2, <1>5, <1>6, <1>7

(* For any number of handlers, senders and recipients, any life of a cache *)
(* entry and any latency: no request goes past the permission step on an   *)
(* answer the registry gave up longer ago than the two together.           *)
THEOREM WithdrawalsHonoured == Spec => WithdrawalsAreHonoured
  <1> DEFINE Honoured ==
        \A h \in Handlers :
          Granted(h) /\ handler'[h].source \in {"chain", "cache"} =>
            \/ chain[PairOf(h)].allowed
            \/ now - lastAllowed[PairOf(h)] < CACHE_TTL + MaxLatency
  <1>1. RouterTyped /\ AnswersBacked /\ [Next]_vars => [Honoured]_vars
    BY GrantIsBacked
  <1> HIDE DEF Honoured
  <1>2. Spec => [][Honoured]_vars
    BY <1>1, RouterInitTyped, RouterStepTyped, InitBacked, StepBacked, PTL DEF Spec
  <1> QED BY <1>2 DEF WithdrawalsAreHonoured, Honoured

-----------------------------------------------------------------------------
(* Moved webhooks: the same argument for the endpoints, which are asked    *)
(* for and cached apart from the permission.                               *)

(* The URL was the recipient's at time t or later.                         *)
HeldSince(r, url, t) == url = webhooks[r] \/ lastHeld[<<r, url>>] >= t

WaitingHeld(h) ==
  /\ handler[h].pc = "preferred" =>
       /\ handler[h].asked <= now /\ now <= handler[h].asked + MaxLatency
       /\ handler[h].url # None =>
            HeldSince(handler[h].recipient, handler[h].url, handler[h].asked)
  /\ handler[h].pc \in BeforeEndpoints => handler[h].url = None

EntryHeld(r) ==
  prefCache[r] # None =>
    /\ prefCache[r].expires <= now + CACHE_TTL
    /\ prefCache[r].url # None =>
         HeldSince(r, prefCache[r].url, prefCache[r].expires - CACHE_TTL - MaxLatency)

EndpointsHeld ==
  /\ \A h \in Handlers : WaitingHeld(h)
  /\ \A r \in Recipients : EntryHeld(r)

LEMMA HeldKept ==
  ASSUME RouterTyped, NEW r \in Recipients, NEW u \in Urls, NEW t \in Int, t <= now,
         HeldSince(r, u, t),
         \/ UNCHANGED registryVars
         \/ \E pair \in Pairs, answer \in ChainAnswers : ChangeAnswer(pair, answer)
         \/ \E q \in Recipients, url \in Urls \cup {None} : ChangeWebhook(q, url)
  PROVE  u = webhooks'[r] \/ lastHeld'[<<r, u>>] >= t
  <1>1. CASE UNCHANGED registryVars
    BY <1>1 DEF HeldSince, registryVars
  <1>2. ASSUME NEW pair \in Pairs, NEW answer \in ChainAnswers, ChangeAnswer(pair, answer)
        PROVE  u = webhooks'[r] \/ lastHeld'[<<r, u>>] >= t
    BY <1>2 DEF HeldSince, ChangeAnswer
  <1>3. ASSUME NEW q \in Recipients, NEW url \in Urls \cup {None}, ChangeWebhook(q, url)
        PROVE  u = webhooks'[r] \/ lastHeld'[<<r, u>>] >= t
    <2>1. /\ webhooks' = [webhooks EXCEPT ![q] = url]
          /\ lastHeld'[<<r, u>>] =
               IF <<r, u>> = <<q, webhooks[q]>> THEN now ELSE lastHeld[<<r, u>>]
      BY <1>3 DEF ChangeWebhook
    <2>2. CASE r = q /\ u = webhooks[q]
      BY <2>1, <2>2 DEF RouterTyped
    <2>3. CASE ~(r = q /\ u = webhooks[q])
      BY <2>1, <2>3 DEF HeldSince, RouterTyped, RegistryTyped
    <2> QED BY <2>2, <2>3
  <1> QED BY <1>1, <1>2, <1>3

LEMMA HoldTimesTyped ==
  ASSUME RouterTyped
  PROVE  /\ now \in Nat /\ CACHE_TTL \in Nat /\ MaxLatency \in Nat
         /\ \A h \in Handlers : handler[h].asked \in Int /\ handler[h].url \in Plus(Urls)
         /\ \A r \in Recipients, u \in Urls : lastHeld[<<r, u>>] \in Nat
         /\ \A r \in Recipients : prefCache[r] # None =>
              prefCache[r].expires \in Nat /\ prefCache[r].url \in Plus(Urls)
  <1>1. \A h \in Handlers : handler[h].asked \in Int /\ handler[h].url \in Plus(Urls)
    BY Known DEF HandlerStates
  <1>2. \A r \in Recipients : prefCache[r] # None =>
          prefCache[r].expires \in Nat /\ prefCache[r].url \in Plus(Urls)
    BY DEF RouterTyped, CachesTyped, PrefEntries, Plus
  <1>3. \A r \in Recipients, u \in Urls : lastHeld[<<r, u>>] \in Nat
    BY DEF RouterTyped, RegistryTyped
  <1> QED BY <1>1, <1>2, <1>3, RouterAssumption DEF RouterTyped

LEMMA HandlerHeld ==
  ASSUME RouterTyped, EndpointsHeld, NEW h \in Handlers, Arrive(h) \/ Handle(h)
  PROVE  EndpointsHeld'
  <1>1. /\ UNCHANGED registryVars /\ now' = now
        /\ PreferencesAnswer(h) \/ prefCache' = prefCache
    BY HandlerFrame
  <1>2. Leads(h)
    BY ArriveLeads, HandleLeads
  <1>3. ASSUME NEW g \in Handlers PROVE WaitingHeld(g)'
    <2>1. CASE g # h
      BY <1>1, <1>2, <2>1 DEF EndpointsHeld, WaitingHeld, Leads, HeldSince, registryVars
    <2>2. CASE g = h /\ handler'[h].pc = "preferred"
      <3>1. AskPreferences(h)
        BY <1>2, <2>2 DEF Leads
      <3>2. /\ handler'[h].asked = now /\ handler'[h].recipient = handler[h].recipient
            /\ handler'[h].url = webhooks[handler[h].recipient]
        BY <3>1, PreferencesMean
      <3>3. now \in Nat /\ MaxLatency \in Nat
        BY HoldTimesTyped
      <3> QED BY <1>1, <2>2, <3>2, <3>3 DEF WaitingHeld, HeldSince, BeforeEndpoints, registryVars
    <2>3. CASE g = h /\ handler'[h].pc # "preferred"
      <3>1. WaitingHeld(h)
        BY DEF EndpointsHeld
      <3>2. handler'[h].pc \in BeforeEndpoints => handler'[h].url = None
        BY <1>2, <3>1 DEF Leads, WaitingHeld
      <3> QED BY <2>3, <3>2 DEF WaitingHeld
    <2> QED BY <2>1, <2>2, <2>3
  <1>4. ASSUME NEW r \in Recipients PROVE EntryHeld(r)'
    <2>1. CASE prefCache'[r] = prefCache[r]
      BY <1>1, <2>1 DEF EndpointsHeld, EntryHeld, HeldSince, registryVars
    <2>2. CASE prefCache'[r] # prefCache[r]
      <3> DEFINE u == handler[h].url
      <3>1. PreferencesAnswer(h)
        BY <1>1, <2>2
      <3>2. /\ r = handler[h].recipient
            /\ prefCache'[r] = [url |-> u, expires |-> now + CACHE_TTL]
        BY <2>2, <3>1 DEF PreferencesAnswer, RouterTyped, CachesTyped
      <3>3. /\ now <= handler[h].asked + MaxLatency
            /\ u # None => HeldSince(r, u, handler[h].asked)
        BY <3>1, <3>2 DEF EndpointsHeld, WaitingHeld, PreferencesAnswer, At
      <3>4. prefCache'[r].expires = now + CACHE_TTL /\ prefCache'[r].url = u
        BY <3>2
      <3>5. /\ now \in Nat /\ CACHE_TTL \in Nat /\ MaxLatency \in Nat
            /\ handler[h].asked \in Int
            /\ u # None => u \in Urls /\ lastHeld[<<r, u>>] \in Nat
        BY HoldTimesTyped DEF Plus
      <3> HIDE DEF u
      <3>6. u # None => HeldSince(r, u, now + CACHE_TTL - CACHE_TTL - MaxLatency)
        BY <3>3, <3>5 DEF HeldSince
      <3> QED BY <1>1, <3>4, <3>5, <3>6 DEF EntryHeld, HeldSince, registryVars
    <2> QED BY <2>1, <2>2
  <1> QED BY <1>3, <1>4 DEF EndpointsHeld

LEMMA OthersHeld ==
  ASSUME RouterTyped, EndpointsHeld, Environment
  PROVE  EndpointsHeld'
  <1>0. /\ now \in Nat /\ CACHE_TTL \in Nat /\ MaxLatency \in Nat
        /\ \A h \in Handlers : handler[h].asked \in Int /\ handler[h].url \in Plus(Urls)
        /\ \A r \in Recipients : prefCache[r] # None =>
             prefCache[r].expires \in Nat /\ prefCache[r].url \in Plus(Urls)
    BY HoldTimesTyped
  <1>1. ASSUME UNCHANGED routerVars, now' = now,
               \/ UNCHANGED registryVars
               \/ \E pair \in Pairs, answer \in ChainAnswers : ChangeAnswer(pair, answer)
               \/ \E q \in Recipients, url \in Urls \cup {None} : ChangeWebhook(q, url)
        PROVE  EndpointsHeld'
    <2>1. \A r \in Recipients, u \in Urls, t \in Int : t <= now /\ HeldSince(r, u, t) =>
            u = webhooks'[r] \/ lastHeld'[<<r, u>>] >= t
      BY <1>1, HeldKept
    <2>2. handler' = handler /\ prefCache' = prefCache
      BY <1>1 DEF routerVars
    <2>3. ASSUME NEW h \in Handlers PROVE WaitingHeld(h)'
      <3>1. WaitingHeld(h)
        BY DEF EndpointsHeld
      <3>2. CASE handler[h].pc = "preferred" /\ handler[h].url # None
        <4> DEFINE r == handler[h].recipient
                   u == handler[h].url
                   t == handler[h].asked
        <4>1. r \in Recipients /\ u \in Urls /\ t \in Int /\ t <= now /\ HeldSince(r, u, t)
          BY <1>0, <3>1, <3>2, PairKnown DEF WaitingHeld, Steps, Plus
        <4>2. u = webhooks'[r] \/ lastHeld'[<<r, u>>] >= t
          BY <2>1, <4>1
        <4> QED BY <1>1, <2>2, <3>1, <4>2 DEF WaitingHeld, HeldSince
      <3>3. CASE ~(handler[h].pc = "preferred" /\ handler[h].url # None)
        BY <1>1, <2>2, <3>1, <3>3 DEF WaitingHeld
      <3> QED BY <3>2, <3>3
    <2>4. ASSUME NEW r \in Recipients PROVE EntryHeld(r)'
      <3>1. EntryHeld(r)
        BY DEF EndpointsHeld
      <3>2. CASE prefCache[r] # None /\ prefCache[r].url # None
        <4> DEFINE u == prefCache[r].url
                   t == prefCache[r].expires - CACHE_TTL - MaxLatency
        <4>1. u \in Urls /\ HeldSince(r, u, t)
          BY <1>0, <3>1, <3>2 DEF EntryHeld, Plus
        <4>2. t \in Int /\ t <= now
          BY <1>0, <3>1, <3>2 DEF EntryHeld
        <4>3. u = webhooks'[r] \/ lastHeld'[<<r, u>>] >= t
          BY <2>1, <4>1, <4>2
        <4> QED BY <1>1, <2>2, <3>1, <3>2, <4>3 DEF EntryHeld, HeldSince
      <3>3. CASE ~(prefCache[r] # None /\ prefCache[r].url # None)
        BY <1>1, <2>2, <3>1, <3>3 DEF EntryHeld
      <3> QED BY <3>2, <3>3
    <2> QED BY <2>3, <2>4 DEF EndpointsHeld
  <1>2. CASE Clock
    <2>1. now' = now + 1 /\ UNCHANGED <<registryVars, routerVars>>
      BY <1>2 DEF Clock, Tick
    <2>2. ASSUME NEW h \in Handlers PROVE WaitingHeld(h)'
      <3>1. handler[h].pc = "preferred" => now - handler[h].asked < MaxLatency
        BY <1>2 DEF Clock
      <3>2. WaitingHeld(h)
        BY DEF EndpointsHeld
      <3> QED BY <1>0, <2>1, <3>1, <3>2 DEF WaitingHeld, HeldSince, registryVars, routerVars
    <2>3. ASSUME NEW r \in Recipients PROVE EntryHeld(r)'
      <3>1. EntryHeld(r)
        BY DEF EndpointsHeld
      <3> QED BY <1>0, <2>1, <3>1 DEF EntryHeld, HeldSince, registryVars, routerVars
    <2> QED BY <2>2, <2>3 DEF EndpointsHeld
  <1>3. CASE Crash
    <2>1. ASSUME NEW h \in Handlers PROVE WaitingHeld(h)'
      <3>1. handler[h] \in HandlerStates
        BY Known
      <3>2. CASE Running(h)
        <4>1. handler'[h].pc = "lost"
          BY <1>3, <3>1, <3>2 DEF Crash, HandlerStates
        <4> QED BY <4>1 DEF WaitingHeld, BeforeEndpoints
      <3>3. CASE ~Running(h)
        <4>1. handler'[h] = handler[h]
          BY <1>3, <3>3 DEF Crash
        <4>2. handler'[h].pc \in {"idle", "done", "lost"}
          BY <3>3, <4>1 DEF Running
        <4> QED BY <4>2 DEF WaitingHeld, BeforeEndpoints
      <3> QED BY <3>2, <3>3
    <2>2. \A r \in Recipients : EntryHeld(r)'
      BY <1>3 DEF Crash, EntryHeld
    <2> QED BY <2>1, <2>2 DEF EndpointsHeld
  <1>4. CASE \/ \E pair \in Pairs, answer \in ChainAnswers : ChangeAnswer(pair, answer)
             \/ \E r \in Recipients, url \in Urls \cup {None} : ChangeWebhook(r, url)
    <2>1. UNCHANGED routerVars /\ now' = now
      BY <1>4 DEF ChangeAnswer, ChangeWebhook, storeVars
    <2> QED BY <1>1, <1>4, <2>1
  <1>5. CASE UNCHANGED <<registryVars, routerVars>> /\ now' = now
    BY <1>1, <1>5
  <1> QED BY <1>2, <1>3, <1>4, <1>5, EnvironmentFrame

LEMMA StepHeld == RouterTyped /\ EndpointsHeld /\ [Next]_vars => EndpointsHeld'
  <1>1. ASSUME EndpointsHeld, UNCHANGED vars PROVE EndpointsHeld'
    BY <1>1 DEF EndpointsHeld, WaitingHeld, EntryHeld, HeldSince, vars, storeVars,
                registryVars, routerVars
  <1> QED BY <1>1, HandlerHeld, OthersHeld DEF Next

LEMMA InitHeld == Init => EndpointsHeld
  BY DEF Init, NoHandler, EndpointsHeld, WaitingHeld, EntryHeld

(* Delivery starts with a webhook its recipient once had.                  *)
LEMMA EndpointIsHeld ==
  ASSUME RouterTyped, EndpointsHeld, [Next]_vars, NEW h \in Handlers,
         NEW r, r = handler[h].recipient, NEW u, u = handler'[h].url,
         Endpointed(h), u # None
  PROVE  u = webhooks[r] \/ now - lastHeld[<<r, u>>] < CACHE_TTL + MaxLatency
  <1>1. handler'[h].pc = "deliver" /\ ~At(h, "deliver") /\ handler[h].pc # "deliver"
    BY DEF Endpointed, At
  <1>2. PreferencesCached(h) \/ PreferencesAnswer(h) \/ PreferencesFail(h)
    BY <1>1, OnlyOwnSteps DEF Leads
  <1>3. r \in Recipients
    BY <1>2, PairKnown DEF PreferencesCached, PreferencesAnswer, PreferencesFail, At, Steps
  <1>4. /\ now \in Nat /\ CACHE_TTL \in Nat /\ CACHE_TTL > 0 /\ MaxLatency \in Nat
        /\ handler[h].asked \in Int
        /\ prefCache[r] # None => prefCache[r].expires \in Nat
    BY <1>3, HoldTimesTyped, RouterAssumption
  <1>5. CASE PreferencesCached(h)
    <2>1. prefCache[r] # None /\ now < prefCache[r].expires
      BY <1>5 DEF PreferencesCached, Fresh
    <2>2. u = prefCache[r].url
      BY <1>5, PreferencesMean
    <2>3. HeldSince(r, u, prefCache[r].expires - CACHE_TTL - MaxLatency)
      BY <1>3, <2>1, <2>2 DEF EndpointsHeld, EntryHeld
    <2>4. lastHeld[<<r, u>>] \in Nat
      BY <1>3, <2>1, <2>2, HoldTimesTyped DEF Plus
    <2> QED BY <1>4, <2>1, <2>3, <2>4 DEF HeldSince
  <1>6. CASE PreferencesAnswer(h)
    <2>1. u = handler[h].url
      BY <1>6, PreferencesMean
    <2>2. HeldSince(r, u, handler[h].asked) /\ now <= handler[h].asked + MaxLatency
      BY <1>6, <2>1 DEF PreferencesAnswer, At, EndpointsHeld, WaitingHeld
    <2>3. lastHeld[<<r, u>>] \in Nat
      BY <1>3, <2>1, HoldTimesTyped DEF Plus
    <2> QED BY <1>4, <2>2, <2>3 DEF HeldSince
  <1>7. CASE PreferencesFail(h)
    <2>1. u = handler[h].url
      BY <1>7, PreferencesMean
    <2>2. handler[h].url = None
      BY <1>7 DEF PreferencesFail, At, EndpointsHeld, WaitingHeld, BeforeEndpoints
    <2> QED BY <2>1, <2>2
  <1> QED BY <1>2, <1>5, <1>6, <1>7

(* Delivery never starts with a webhook that its recipient gave up longer  *)
(* ago than the life of a cache entry and the latency of a query together, *)
(* nor with another recipient's.                                           *)
THEOREM MovedWebhooksLeft == Spec => MovedWebhooksAreLeft
  <1> DEFINE Left ==
        \A h \in Handlers :
          LET r == handler[h].recipient
              url == handler'[h].url
          IN  Endpointed(h) /\ url # None =>
                url = webhooks[r] \/ now - lastHeld[<<r, url>>] < CACHE_TTL + MaxLatency
  <1>1. RouterTyped /\ EndpointsHeld /\ [Next]_vars => [Left]_vars
    BY EndpointIsHeld
  <1> HIDE DEF Left
  <1>2. Spec => [][Left]_vars
    BY <1>1, RouterInitTyped, RouterStepTyped, InitHeld, StepHeld, PTL DEF Spec
  <1> QED BY <1>2 DEF MovedWebhooksAreLeft, Left
=============================================================================
