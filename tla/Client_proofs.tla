----------------------------- MODULE Client_proofs -----------------------------
(***************************************************************************)
(* Proofs about the SDK's client, for any envelopes, keys and skews, any   *)
(* timeouts, poll interval and latency, and any end of the clock.          *)
(***************************************************************************)
EXTENDS Client, Store_proofs

-----------------------------------------------------------------------------
(* The rows of the one message.                                            *)

Ended == acks[Id] # None /\ acks[Id].status # "pending"

Unrecorded == send.pc \in {"idle", "posted", "checking"}

(* Nothing is recorded before the router records it, and what has come to  *)
(* an end does not go back to pending.                                     *)
RowInv ==
  /\ now \in Times
  /\ acks \in [MessageIds -> Acks \cup {None}]
  /\ messages = [id \in MessageIds |-> messages[id]]
  /\ Unrecorded => messages[Id] = None /\ acks[Id] = None
  /\ settled \in Nat \cup {None}
  /\ settled # None => Ended

-----------------------------------------------------------------------------
(* The send.                                                               *)

Envelopes ==
  [id : MessageIds, senderDid : Words, senderType : {None} \cup STRING,
   recipientDid : Words, intent : Words, priority : Int \cup {NaN, None}, ttl : Int,
   payload : {None} \cup Contents, replyTo : Replies, createdAt : Int,
   signature : {None} \cup Signatures]

(* An envelope as send posts it, signed when there is a key.               *)
Made(e, key) ==
  IF key = None THEN e \in Drafts
  ELSE \E draft \in Drafts : e = SignEnvelope(draft, key)

SendRecords ==
  [pc : {"idle", "posted", "checking", "delivering", "answered", "done"},
   envelope : {None} \cup Envelopes, key : {None} \cup Keys, code : {None} \cup Codes,
   result : {None, "sent"} \cup Errors, until : {None} \cup Int]

(* What the router was told to record is known, or its time is over.       *)
Known == send.until \in Int /\ (acks[Id] # None \/ send.until <= now)

SendInv ==
  /\ send \in SendRecords
  /\ send.envelope # None \/ send.pc \in {"posted", "checking"} =>
       Made(send.envelope, send.key)
  /\ send.pc = "delivering" \/ send.code = "202" => Known
  /\ send.result = "sent" => send.pc = "done" /\ send.code = "202"

-----------------------------------------------------------------------------
(* The wait.                                                               *)

Waiting == {"asking", "told", "sleeping"}

WaitRecords ==
  [pc : {"idle", "done"} \cup Waiting, deadline : Nat, asked : {None} \cup Nat,
   wake : Nat, ack : {None} \cup Statuses, result : {None} \cup Statuses \cup Errors]

(* No end of the message has been missed since the last question.          *)
NothingMissed == settled = None \/ settled >= wait.asked

(* A question was asked before the deadline and is not older than an       *)
(* answer may take; a sleep ends by the deadline, and no later than an     *)
(* answer and an interval after the question.                              *)
WaitInv ==
  /\ wait \in WaitRecords
  /\ wait.pc # "idle" => send.result = "sent"
  /\ wait.pc = "idle" => wait.asked = None
  /\ wait.pc # "done" => wait.result = None
  /\ wait.pc \in {"asking", "told"} =>
       /\ wait.asked \in Nat /\ wait.asked < wait.deadline
       /\ wait.asked <= now /\ now <= wait.asked + MaxLatency
  /\ wait.pc = "told" /\ wait.ack = None => send.until <= now
  /\ wait.pc = "told" /\ wait.ack = "pending" => NothingMissed
  /\ wait.pc = "sleeping" =>
       /\ wait.asked \in Nat /\ wait.asked <= now
       /\ now <= wait.wake /\ wait.wake <= wait.deadline
       /\ wait.wake <= wait.asked + MaxLatency + ACK_POLL_INTERVAL
       /\ NothingMissed
  /\ wait.result = "TIMEOUT" => now >= wait.deadline /\ TimeoutsAreTrue
  /\ wait.result = "RECIPIENT_NOT_FOUND" => send.until <= now

ClientInv == RowInv /\ SendInv /\ WaitInv

-----------------------------------------------------------------------------
LEMMA IdTyped == Id \in MessageIds
  BY ClientAssumption DEF Id

(* What a step may do to the rows and to the clock.                        *)
RowFrame ==
  /\ now' \in Times /\ now' >= now
  /\ acks' \in [MessageIds -> Acks \cup {None}]
  /\ messages' = [id \in MessageIds |-> messages'[id]]
  /\ Unrecorded' => messages'[Id] = None /\ acks'[Id] = None
  /\ Ended => Ended'
  /\ acks[Id] # None => acks'[Id] # None

(* An ack that is stamped comes to an end.                                 *)
LEMMA AckStamped ==
  ASSUME RowInv, NEW status \in Statuses \ {"pending"}, UpdateAck(Id, status, None, None)
  PROVE  /\ now' = now /\ messages' = messages
         /\ acks' \in [MessageIds -> Acks \cup {None}]
         /\ acks[Id] = None => acks' = acks
         /\ acks[Id] # None => acks'[Id] # None
         /\ Ended => Ended'
  <1>1. CASE acks[Id] = None
    BY <1>1 DEF UpdateAck, storeVars, tables, RowInv, Ended
  <1>2. CASE acks[Id] # None
    <2> DEFINE new == Stamp(acks[Id], status, None, None)
    <2>1. acks' = [acks EXCEPT ![Id] = new] /\ now' = now /\ messages' = messages
      BY <1>2 DEF UpdateAck
    <2>2. new \in Acks /\ new.status = status
      <3>1. acks[Id] \in Acks
        BY <1>2, IdTyped DEF RowInv
      <3>2. new \in Acks
        BY <3>1, StampTyped DEF RowInv
      <3>3. new.status = status
        BY <3>1 DEF Stamp, Acks
      <3> QED BY <3>2, <3>3
    <2> HIDE DEF new
    <2>3. acks'[Id] = new /\ acks' \in [MessageIds -> Acks \cup {None}]
      BY <2>1, <2>2, IdTyped DEF RowInv
    <2>4. new # None
      BY <2>2, StoreAssumption
    <2> QED BY <1>2, <2>1, <2>2, <2>3, <2>4 DEF Ended
  <1> QED BY <1>1, <1>2

(* The sweep ends what it touches.                                         *)
LEMMA SweepEnds ==
  ASSUME RowInv, ExpireMessages
  PROVE  /\ now' = now /\ messages' = messages
         /\ acks' \in [MessageIds -> Acks \cup {None}]
         /\ acks[Id] = None => acks'[Id] = None
         /\ acks[Id] # None => acks'[Id] # None
         /\ Ended => Ended'
  <1>1. ASSUME NEW id \in MessageIds
        PROVE  /\ acks'[id] \in Acks \cup {None}
               /\ acks[id] = None => acks'[id] = None
               /\ acks[id] # None => acks'[id] # None
               /\ acks[id] # None /\ acks[id].status # "pending" =>
                    acks'[id].status # "pending"
    <2>1. CASE Overdue(id)
      <3>1. acks[id] \in Acks /\ acks[id] # None
        BY <2>1 DEF Overdue, RowInv
      <3>2. acks'[id] = [acks[id] EXCEPT !.status = "expired", !.error = "TTL_ELAPSED"]
        BY <2>1 DEF ExpireMessages
      <3>3. acks'[id] \in Acks /\ acks'[id].status = "expired"
        BY <3>1, <3>2, ExpiryTyped
      <3> QED BY <3>1, <3>3, StoreAssumption
    <2>2. CASE ~Overdue(id)
      <3>1. acks'[id] = acks[id]
        BY <2>2 DEF ExpireMessages
      <3> QED BY <3>1 DEF RowInv
    <2> QED BY <2>1, <2>2
  <1>2. acks' = [id \in MessageIds |-> acks'[id]] /\ now' = now /\ messages' = messages
    BY DEF ExpireMessages
  <1>3. acks' \in [MessageIds -> Acks \cup {None}]
    BY <1>1, <1>2
  <1> QED BY <1>1, <1>2, <1>3, IdTyped DEF Ended

(* The row is inserted with a pending ack, or it is too late.              *)
LEMMA RecordedOrLate ==
  ASSUME RowInv, NEW m, SubmitMessage(Id, m, None), messages[Id] = None, acks[Id] = None
  PROVE  /\ now' = now
         /\ acks' \in [MessageIds -> Acks \cup {None}]
         /\ messages' = [id \in MessageIds |-> messages'[id]]
         /\ acks'[Id] # None \/ ~(m.expiresAt > now)
  <1>1. CASE InsertMessage(Id, m, None)
    <2>1. PendingAck \in Acks /\ PendingAck # None
      BY StoreAssumption DEF PendingAck, Acks, Statuses
    <2>2. /\ messages' = [messages EXCEPT ![Id] = m]
          /\ acks' = [acks EXCEPT ![Id] = PendingAck] /\ now' = now
      BY <1>1 DEF InsertMessage
    <2>3. acks' \in [MessageIds -> Acks \cup {None}] /\ acks'[Id] = PendingAck
      BY <2>1, <2>2, IdTyped DEF RowInv
    <2>4. messages' = [id \in MessageIds |-> messages'[id]]
      BY <2>2 DEF RowInv
    <2> QED BY <2>1, <2>2, <2>3, <2>4
  <1>2. CASE ~Accepts(Id, m) /\ UNCHANGED storeVars
    BY <1>2 DEF Accepts, storeVars, tables, RowInv
  <1> QED BY <1>1, <1>2 DEF SubmitMessage

LEMMA TimesNat == Times \subseteq Nat
  BY StoreAssumption DEF Times

(* The steps that leave the store alone do not undo the record.            *)
LEMMA StoreLeft ==
  ASSUME RowInv, UNCHANGED storeVars, Unrecorded' => Unrecorded
  PROVE  RowFrame
  <1>1. now' = now /\ acks' = acks /\ messages' = messages
    BY DEF storeVars, tables
  <1>2. now >= now
    BY TimesNat DEF RowInv
  <1> QED BY <1>1, <1>2 DEF RowInv, RowFrame, Ended

LEMMA StepRows ==
  ASSUME RowInv, SendInv, Steps
  PROVE  RowFrame
  <1>1. CASE \/ \E p \in SendParams, skew \in Skews, key \in Keys \cup {None, "bad"} :
                  Send(p, skew, key)
             \/ RouterValidates \/ RouterRefuses
    <2>1. Unrecorded /\ UNCHANGED storeVars
      BY <1>1 DEF Send, RouterValidates, RouterRefuses, SendStep, Unrecorded
    <2> QED BY <2>1, StoreLeft
  <1>2. CASE SendReturns
    <2>1. PICK result : send' = [send EXCEPT !.pc = "done", !.envelope = None,
                                   !.key = None, !.result = result]
      BY <1>2 DEF SendReturns, SendEnds
    <2>2. send'.pc = "done"
      BY <2>1 DEF SendInv, SendRecords
    <2>3. UNCHANGED storeVars /\ ~Unrecorded'
      BY <1>2, <2>2 DEF SendReturns, SendStep, Unrecorded
    <2> QED BY <2>3, StoreLeft
  <1>3. CASE \/ \E timeout \in Timeouts : StartWaiting(timeout)
             \/ StatusIsRead \/ StatusFails \/ StatusArrives \/ Wake
    <2>1. UNCHANGED storeVars /\ send' = send
      BY <1>3 DEF StartWaiting, StatusIsRead, StatusFails, StatusArrives, Wake, WaitStep
    <2> QED BY <2>1, StoreLeft DEF Unrecorded
  <1>4. CASE RouterRecords
    <2>1. Unrecorded /\ send'.pc = "delivering"
      BY <1>4 DEF RouterRecords, Unrecorded, SendInv, SendRecords
    <2>2. /\ now' = now
          /\ acks' \in [MessageIds -> Acks \cup {None}]
          /\ messages' = [id \in MessageIds |-> messages'[id]]
      BY <1>4, <2>1, RecordedOrLate DEF RouterRecords, RowInv
    <2>3. acks[Id] = None /\ ~Unrecorded'
      BY <2>1 DEF RowInv, Unrecorded
    <2>4. now >= now /\ now \in Times
      BY TimesNat DEF RowInv
    <2> QED BY <2>2, <2>3, <2>4 DEF RowFrame, Ended
  <1>5. CASE RouterSettles
    <2>1. ~Unrecorded'
      <3>1. send' = [send EXCEPT !.pc = "answered", !.code = "202"]
        BY <1>5 DEF RouterSettles, Answers
      <3> QED BY <3>1 DEF Unrecorded, SendInv, SendRecords
    <2>2. CASE UNCHANGED storeVars
      BY <2>1, <2>2, StoreLeft
    <2>3. ASSUME NEW status \in {"delivered", "failed"}, UpdateAck(Id, status, None, None)
          PROVE  RowFrame
      <3>1. status \in Statuses \ {"pending"}
        BY DEF Statuses
      <3>2. now >= now /\ now \in Times
        BY TimesNat DEF RowInv
      <3> QED BY <2>1, <2>3, <3>1, <3>2, AckStamped DEF RowFrame, RowInv
    <2> QED BY <1>5, <2>2, <2>3 DEF RouterSettles
  <1>6. CASE RecipientActs
    <2>1. ~Unrecorded'
      BY <1>6 DEF RecipientActs, RowInv, Unrecorded
    <2>2. PICK status \in {"read", "responded"} : UpdateAck(Id, status, None, None)
      BY <1>6 DEF RecipientActs
    <2>3. status \in Statuses \ {"pending"}
      BY DEF Statuses
    <2>4. now >= now /\ now \in Times
      BY TimesNat DEF RowInv
    <2> QED BY <2>1, <2>2, <2>3, <2>4, AckStamped DEF RowFrame, RowInv
  <1>7. CASE Sweep
    <2>1. now >= now /\ now \in Times
      BY TimesNat DEF RowInv
    <2>2. ExpireMessages /\ send' = send
      BY <1>7 DEF Sweep
    <2> QED BY <2>1, <2>2, SweepEnds DEF RowFrame, RowInv, Unrecorded
  <1>8. CASE Clock
    <2>1. /\ now' = now + 1 /\ now < MaxTime
          /\ acks' = acks /\ messages' = messages /\ send' = send
      BY <1>8 DEF Clock, Tick, tables
    <2>2. now' \in Times /\ now' >= now
      BY <2>1, StoreAssumption DEF RowInv, Times
    <2> QED BY <2>1, <2>2 DEF RowFrame, RowInv, Ended, Unrecorded
  <1> QED BY <1>1, <1>2, <1>3, <1>4, <1>5, <1>6, <1>7, <1>8 DEF Steps

(* The ghost records the first end.                                        *)
LEMMA RowsKept ==
  ASSUME RowInv, RowFrame, Next
  PROVE  RowInv' /\ (settled' = settled \/ (settled = None /\ settled' = now))
  <1>1. settled' = settled \/ (settled = None /\ settled' = now /\ Ended')
    BY DEF Next, Ends, Ended
  <1>2. settled' # None => Ended'
    BY <1>1 DEF RowFrame, RowInv
  <1>3. settled' \in Nat \cup {None}
    BY <1>1, TimesNat DEF RowInv
  <1> QED BY <1>1, <1>2, <1>3 DEF RowInv, RowFrame

-----------------------------------------------------------------------------
(* Envelopes.                                                              *)

(* What createEnvelope returns has no signature.                           *)
LEMMA CreatedIsDraft ==
  ASSUME NEW p \in SendParams, NEW clock \in Int, Recipient(p.recipientDid) # None
  PROVE  CreateEnvelope([p EXCEPT !.recipientDid = Recipient(@)], Id, clock) \in Drafts
  <1>1. p \in Params
    BY ParamsAssumption
  <1>2. Recipient(p.recipientDid) \in Words
    <2>1. p.recipientDid \in Words
      BY <1>1 DEF Params
    <2>2. ChiPrefix \in Words
      BY ParamsAssumption DEF ChiPrefix, Words
    <2>3. ChiPrefix \o p.recipientDid \in Words
      BY <2>1, <2>2 DEF Words
    <2>4. CASE IsDID(p.recipientDid)
      BY <2>1, <2>4 DEF Recipient
    <2>5. CASE ~IsDID(p.recipientDid)
      <3>1. Recipient(p.recipientDid) = CreateDID(p.recipientDid)
        BY <2>5 DEF Recipient
      <3>2. CreateDID(p.recipientDid) \in {None, p.recipientDid, ChiPrefix \o p.recipientDid}
        BY DEF CreateDID
      <3> QED BY <2>1, <2>3, <3>1, <3>2
    <2> QED BY <2>4, <2>5
  <1> DEFINE to == Recipient(p.recipientDid)
             params == [p EXCEPT !.recipientDid = to]
  <1>3. params \in Params
    <2>1. to \in Words
      BY <1>2
    <2> HIDE DEF to
    <2>2. params = [p EXCEPT !.recipientDid = to]
      BY DEF to
    <2> HIDE DEF params
    <2> QED BY <1>1, <2>1, <2>2 DEF Params
  <1> HIDE DEF params
  <1>4. CreateEnvelope(params, Id, clock) \in Drafts
    BY <1>3, IdTyped DEF CreateEnvelope, Drafts, DraftsWith, Params, Replies
  <1> QED BY <1>4 DEF params

(* What is signed is the draft: the signature field does not matter.       *)
LEMMA CanonicalTyped ==
  ASSUME NEW e \in Envelopes
  PROVE  /\ Canonical(e) \in DraftsWith(Int \cup {None})
         /\ Canonical(e).payload = OverTheWire(SortKeys(e.payload))
         /\ \A s : Canonical([e EXCEPT !.signature = s]) = Canonical(e)
  <1>1. /\ OverTheWire(SortKeys(e.payload)) \in {None} \cup Contents
        /\ NumberOverTheWire(e.priority) \in Int \cup {None}
    BY DEF Envelopes, SortKeys, OverTheWire, NumberOverTheWire, Contents
  <1>2. /\ Canonical(e) \in DraftsWith(Int \cup {None})
        /\ Canonical(e).payload = OverTheWire(SortKeys(e.payload))
    BY <1>1 DEF Envelopes, DraftsWith, Canonical
  <1>3. ASSUME NEW s
        PROVE  Canonical([e EXCEPT !.signature = s]) = Canonical(e)
    BY DEF Envelopes, Canonical
  <1> QED BY <1>2, <1>3

(* An envelope that was made is an envelope, with a signature over itself  *)
(* when there is a key.                                                    *)
LEMMA MadeFields ==
  ASSUME NEW e, NEW key \in {None} \cup Keys, Made(e, key)
  PROVE  /\ e \in Envelopes
         /\ e.priority # None
         /\ e.signature = IF key = None THEN None
                          ELSE [key |-> key, signed |-> Canonical(e)]
  <1>1. Drafts \subseteq Envelopes
    BY DEF Drafts, DraftsWith, Envelopes
  <1>2. CASE key = None
    BY <1>1, <1>2, ParamsAssumption DEF Made, Drafts, DraftsWith
  <1>3. CASE key # None
    <2>1. PICK draft \in Drafts : e = SignEnvelope(draft, key)
      BY <1>3 DEF Made
    <2> DEFINE signature == [key |-> key, signed |-> Canonical(draft)]
    <2>2. signature \in Signatures
      BY <1>1, <1>3, CanonicalTyped DEF Signatures
    <2>3. e = [draft EXCEPT !.signature = signature]
      BY <2>1 DEF SignEnvelope
    <2> HIDE DEF signature
    <2>4. e \in Envelopes /\ e.signature = signature /\ e.priority # None
      BY <2>2, <2>3, ParamsAssumption DEF Drafts, DraftsWith, Envelopes
    <2>5. Canonical(e) = Canonical(draft)
      BY <1>1, <2>3, CanonicalTyped
    <2> QED BY <1>3, <2>4, <2>5 DEF signature
  <1> QED BY <1>2, <1>3

(* JSON changes the payload and the priority only.                         *)
LEMMA ReceivedFields ==
  ASSUME NEW e \in Envelopes
  PROVE  LET r == Received(e)
         IN  /\ r \in Envelopes
             /\ r.payload = OverTheWire(e.payload)
             /\ r.senderDid = e.senderDid /\ r.senderType = e.senderType
             /\ r.recipientDid = e.recipientDid /\ r.intent = e.intent
             /\ r.priority = NumberOverTheWire(e.priority) /\ r.ttl = e.ttl
             /\ r.replyTo = e.replyTo /\ r.signature = e.signature
  <1>1. /\ OverTheWire(e.payload) \in {None} \cup Contents
        /\ NumberOverTheWire(e.priority) \in Int \cup {NaN, None}
    BY DEF Envelopes, OverTheWire, NumberOverTheWire, Contents
  <1> QED BY <1>1 DEF Envelopes, Received

(* What the receiver would sign is what the sender signed, but for dates.  *)
LEMMA CanonicalReceived ==
  ASSUME NEW e \in Envelopes
  PROVE  Canonical(Received(e)) = Canonical(e) <=> e.payload # "dated"
  <1>1. CASE e.payload = "dated"
    <2>1. Canonical(Received(e)).payload = "date as text"
      BY <1>1, ReceivedFields, CanonicalTyped DEF OverTheWire, SortKeys
    <2>2. Canonical(e).payload = "date emptied"
      BY <1>1, CanonicalTyped DEF OverTheWire, SortKeys
    <2> QED BY <1>1, <2>1, <2>2
  <1>2. CASE e.payload # "dated"
    <2> DEFINE payload == OverTheWire(e.payload)
               priority == NumberOverTheWire(e.priority)
    <2>1. /\ OverTheWire(SortKeys(e.payload)) = payload
          /\ OverTheWire(SortKeys(payload)) = payload
      BY <1>2, ParamsAssumption DEF OverTheWire, SortKeys, Contents
    <2>2. NumberOverTheWire(priority) = priority
      BY DEF NumberOverTheWire
    <2>3. /\ Received(e) = [e EXCEPT !.payload = payload, !.priority = priority]
          /\ Canonical(e) = [e EXCEPT !.payload = payload, !.priority = priority,
                                     !.signature = None]
      BY <2>1 DEF Received, Canonical
    <2> HIDE DEF payload, priority
    <2>4. /\ Received(e).payload = payload /\ Received(e).priority = priority
          /\ Canonical(Received(e))
               = [Received(e) EXCEPT !.payload = payload, !.priority = priority,
                                     !.signature = None]
      BY <2>1, <2>2, <2>3 DEF Canonical, Envelopes
    <2>5. [Received(e) EXCEPT !.payload = payload, !.priority = priority] = Received(e)
      <3> DEFINE received == Received(e)
      <3>1. received \in Envelopes /\ received.payload = payload /\ received.priority = priority
        BY <2>4, ReceivedFields
      <3> HIDE DEF received
      <3>2. [received EXCEPT !.payload = payload, !.priority = priority] = received
        BY <3>1 DEF Envelopes
      <3> QED BY <3>2 DEF received
    <2>6. Canonical(Received(e)) = [Received(e) EXCEPT !.signature = None]
      BY <2>4, <2>5
    <2> QED BY <1>2, <2>3, <2>6
  <1> QED BY <1>1, <1>2

(* The validations differ where JSON loses a value and where only the SDK  *)
(* looks, and a signature is good at the other end exactly for its key and *)
(* for what sortKeys leaves as JSON would have it.                         *)
LEMMA MadeTravels ==
  ASSUME NEW e, NEW key \in {None} \cup Keys, Made(e, key)
  PROVE  /\ SdkAccepts(e) /\ e.payload # "not in JSON" => RouterAccepts(Received(e))
         /\ RouterAccepts(Received(e)) /\ e.priority # NaN /\ e.replyTo # "no text" =>
              SdkAccepts(e)
         /\ \A k \in Keys :
              VerifyEnvelope(Received(e), k) <=> key = k /\ e.payload # "dated"
  <1>1. /\ e \in Envelopes /\ e.priority # None
        /\ e.signature = IF key = None THEN None
                         ELSE [key |-> key, signed |-> Canonical(e)]
    BY MadeFields
  <1>2. /\ SdkAccepts(e) /\ e.payload # "not in JSON" => RouterAccepts(Received(e))
        /\ RouterAccepts(Received(e)) /\ e.priority # NaN /\ e.replyTo # "no text" =>
             SdkAccepts(e)
    <2>1. OverTheWire(e.payload) # None <=> e.payload # None /\ e.payload # "not in JSON"
      BY ParamsAssumption DEF OverTheWire, Contents
    <2>2. e.ttl \in 1..MAX_TTL <=> e.ttl > 0 /\ e.ttl <= MAX_TTL
      BY <1>1, ClientAssumption DEF Envelopes
    <2>3. /\ e.priority \in 0..255 => NumberOverTheWire(e.priority) \in 0..255
          /\ e.priority # NaN => NumberOverTheWire(e.priority) = e.priority
      BY ParamsAssumption DEF NumberOverTheWire
    <2> DEFINE received == Received(e)
    <2>4. /\ received.payload = OverTheWire(e.payload)
          /\ received.senderDid = e.senderDid /\ received.senderType = e.senderType
          /\ received.recipientDid = e.recipientDid /\ received.intent = e.intent
          /\ received.priority = NumberOverTheWire(e.priority) /\ received.ttl = e.ttl
      BY <1>1, ReceivedFields
    <2> HIDE DEF received
    <2>5. SdkAccepts(e) /\ e.payload # "not in JSON" => RouterAccepts(received)
      BY <2>1, <2>2, <2>3, <2>4 DEF SdkAccepts, RouterAccepts
    <2>6. ASSUME RouterAccepts(received), e.priority # NaN, e.replyTo # "no text"
          PROVE  SdkAccepts(e)
      BY <1>1, <2>1, <2>2, <2>3, <2>4, <2>6 DEF SdkAccepts, RouterAccepts
    <2> QED BY <2>5, <2>6 DEF received
  <1>3. ASSUME NEW k \in Keys
        PROVE  VerifyEnvelope(Received(e), k) <=> key = k /\ e.payload # "dated"
    <2>1. CASE key = None
      BY <1>1, <2>1, ReceivedFields, ClientAssumption DEF VerifyEnvelope
    <2>2. CASE key # None
      <3> DEFINE signature == [key |-> key, signed |-> Canonical(e)]
      <3>1. Received(e).signature = signature /\ signature # None
        <4>1. signature \in Signatures
          BY <1>1, <2>2, CanonicalTyped DEF Signatures
        <4> QED BY <1>1, <2>2, <4>1, ReceivedFields, ParamsAssumption
      <3>2. VerifyEnvelope(Received(e), k) <=>
              key = k /\ Canonical(e) = Canonical(Received(e))
        BY <3>1 DEF VerifyEnvelope
      <3> QED BY <1>1, <3>2, CanonicalReceived
    <2> QED BY <2>1, <2>2
  <1> QED BY <1>2, <1>3

-----------------------------------------------------------------------------
(* The send's part is kept.                                                *)

LEMMA KnownKept ==
  ASSUME RowInv, Known, RowFrame, send'.until = send.until
  PROVE  Known'
  <1>1. now \in Nat /\ now' \in Nat /\ now <= now'
    BY TimesNat DEF RowInv, RowFrame
  <1> QED BY <1>1 DEF Known, RowFrame

LEMMA SendStarts ==
  ASSUME RowInv, SendInv, RowFrame, NEW p \in SendParams, NEW skew \in Skews,
         NEW key \in Keys \cup {None, "bad"}, Send(p, skew, key)
  PROVE  SendInv'
  <1> DEFINE params == [p EXCEPT !.recipientDid = Recipient(@)]
             envelope == CreateEnvelope(params, Id, now + skew)
  <1>0. params.recipientDid = Recipient(p.recipientDid)
    BY ParamsAssumption DEF Params
  <1>1. ASSUME Recipient(p.recipientDid) # None PROVE envelope \in Drafts
    <2>1. now + skew \in Int
      BY TimesNat, ClientAssumption DEF RowInv
    <2> QED BY <1>1, <2>1, CreatedIsDraft
  <1> HIDE DEF envelope
  <1>2. send.pc = "idle" /\ send.result # "sent" /\ send \in SendRecords
    BY DEF Send, SendInv
  <1>3. ASSUME NEW error \in Errors \ {"TIMEOUT"}, SendEnds(error)
        PROVE  SendInv'
    <2>1. send' = [send EXCEPT !.pc = "done", !.envelope = None, !.key = None,
                     !.result = error]
      BY <1>3 DEF SendEnds
    <2>2. send' \in SendRecords
      BY <1>2, <2>1 DEF SendRecords
    <2>3. /\ send'.pc = "done" /\ send'.envelope = None /\ send'.result = error
          /\ send'.code = send.code /\ send'.until = send.until
      BY <1>2, <2>1 DEF SendRecords
    <2>4. error # "sent"
      BY <1>3 DEF Errors
    <2> QED BY <2>2, <2>3, <2>4, KnownKept DEF SendInv
  <1>4. ASSUME send' = [send EXCEPT !.pc = "posted", !.key = key,
                          !.envelope = IF key = None THEN envelope
                                       ELSE SignEnvelope(envelope, key)],
               key # "bad", Recipient(p.recipientDid) # None
        PROVE  SendInv'
    <2> DEFINE posted == IF key = None THEN envelope ELSE SignEnvelope(envelope, key)
    <2>1. key \in {None} \cup Keys
      BY <1>4
    <2>2. Made(posted, key)
      BY <1>1, <1>4 DEF Made
    <2>3. posted \in Envelopes
      BY <2>1, <2>2, MadeFields
    <2>4. send' = [send EXCEPT !.pc = "posted", !.key = key, !.envelope = posted]
      BY <1>4
    <2> HIDE DEF posted
    <2>5. send' \in SendRecords
      BY <1>2, <2>1, <2>3, <2>4 DEF SendRecords
    <2>6. /\ send'.pc = "posted" /\ send'.envelope = posted /\ send'.key = key
          /\ send'.result = send.result
          /\ send'.code = send.code /\ send'.until = send.until
      BY <1>2, <2>4 DEF SendRecords
    <2> QED BY <1>2, <2>2, <2>5, <2>6, KnownKept DEF SendInv
  <1>5. "INVALID_ENVELOPE" \in Errors \ {"TIMEOUT"} /\ "SIGNING_FAILED" \in Errors \ {"TIMEOUT"}
    BY DEF Errors
  <1> DEFINE made == params.recipientDid # None /\ Creatable(params)
  <1>6. CASE ~made
    BY <1>3, <1>5, <1>6 DEF Send
  <1>7. CASE made /\ key = "bad"
    BY <1>3, <1>5, <1>7 DEF Send
  <1>8. CASE made /\ key # "bad"
    BY <1>0, <1>4, <1>8 DEF Send, envelope
  <1> QED BY <1>6, <1>7, <1>8

LEMMA SendKept ==
  ASSUME RowInv, SendInv, RowFrame, Steps
  PROVE  SendInv'
  <1>1. CASE \E p \in SendParams, skew \in Skews, key \in Keys \cup {None, "bad"} :
               Send(p, skew, key)
    BY <1>1, SendStarts
  <1> USE DEF SendInv
  <1>2. CASE RouterValidates \/ RouterRefuses
    <2>1. send.result # "sent" /\ send.pc \in {"posted", "checking"}
      BY <1>2 DEF RouterValidates, RouterRefuses
    <2>2. \/ send' = [send EXCEPT !.pc = "checking"]
          \/ \E code \in Codes \ {"202"} :
               send' = [send EXCEPT !.pc = "answered", !.code = code]
      BY <1>2 DEF RouterValidates, RouterRefuses, Answers, Codes
    <2>3. /\ send' \in SendRecords
          /\ send'.envelope = send.envelope /\ send'.key = send.key
          /\ send'.result = send.result /\ send'.until = send.until
          /\ send'.pc \in {"checking", "answered"}
          /\ send'.code = send.code \/ send'.code # "202"
      BY <2>2 DEF SendRecords
    <2> QED BY <2>1, <2>3, KnownKept
  <1>3. CASE RouterRecords
    <2> DEFINE e == send.envelope
    <2>1. send.pc = "checking" /\ send.result # "sent" /\ Made(e, send.key)
      BY <1>3 DEF RouterRecords
    <2>2. e \in Envelopes
      BY <2>1, MadeFields DEF SendRecords
    <2>3. e.createdAt \in Int /\ e.ttl \in Int
      BY <2>2 DEF Envelopes
    <2>4. send' = [send EXCEPT !.pc = "delivering", !.envelope = None, !.key = None,
                     !.until = e.createdAt + e.ttl]
      BY <1>3 DEF RouterRecords
    <2>5. /\ send' \in SendRecords
          /\ send'.pc = "delivering" /\ send'.envelope = None
          /\ send'.result = send.result /\ send'.until = e.createdAt + e.ttl
      <3> DEFINE end == e.createdAt + e.ttl
      <3>1. end \in Int /\ send' = [send EXCEPT !.pc = "delivering", !.envelope = None,
                                      !.key = None, !.until = end]
        BY <2>3, <2>4
      <3> HIDE DEF end
      <3>2. /\ send' \in SendRecords
            /\ send'.pc = "delivering" /\ send'.envelope = None
            /\ send'.result = send.result /\ send'.until = end
        BY <3>1 DEF SendRecords
      <3> QED BY <3>2 DEF end
    <2>6. acks'[Id] # None \/ ~(e.createdAt + e.ttl > now)
      <3>1. messages[Id] = None /\ acks[Id] = None
        BY <2>1 DEF RowInv, Unrecorded
      <3>2. SubmitMessage(Id, Row(e), None)
        BY <1>3 DEF RouterRecords
      <3>3. Row(e).expiresAt = e.createdAt + e.ttl
        BY DEF Row
      <3> QED BY <3>1, <3>2, <3>3, RecordedOrLate
    <2>7. now \in Nat /\ now' \in Nat /\ now' >= now
      BY TimesNat DEF RowInv, RowFrame
    <2>8. Known'
      BY <2>3, <2>5, <2>6, <2>7 DEF Known
    <2> QED BY <2>1, <2>5, <2>8
  <1>4. CASE RouterSettles
    <2>1. send.pc = "delivering" /\ send' = [send EXCEPT !.pc = "answered", !.code = "202"]
      BY <1>4 DEF RouterSettles, Answers
    <2>2. /\ send' \in SendRecords
          /\ send'.pc = "answered" /\ send'.code = "202"
          /\ send'.envelope = send.envelope /\ send'.key = send.key
          /\ send'.result = send.result /\ send'.until = send.until
      BY <2>1 DEF SendRecords, Codes
    <2>3. Known'
      BY <2>1, <2>2, KnownKept
    <2> QED BY <2>1, <2>2, <2>3
  <1>5. CASE SendReturns
    <2> DEFINE result == IF send.code = "202" THEN "sent" ELSE MapRouterError(send.code)
    <2>1. send' = [send EXCEPT !.pc = "done", !.envelope = None, !.key = None,
                     !.result = result]
      BY <1>5 DEF SendReturns, SendEnds
    <2>2. MapRouterError(send.code) \in Errors
      BY DEF MapRouterError, Errors
    <2>3. result \in {"sent"} \cup Errors /\ (result = "sent" => send.code = "202")
      BY <2>2 DEF Errors
    <2> HIDE DEF result
    <2>4. /\ send' \in SendRecords
          /\ send'.pc = "done" /\ send'.code = send.code
          /\ send'.envelope = None /\ send'.result = result /\ send'.until = send.until
      BY <2>1, <2>3 DEF SendRecords
    <2> QED BY <2>3, <2>4, KnownKept
  <1>6. CASE send' = send
    BY <1>6, KnownKept
  <1>7. CASE \/ \E timeout \in Timeouts : StartWaiting(timeout)
             \/ StatusIsRead \/ StatusFails \/ StatusArrives \/ Wake
             \/ RecipientActs \/ Sweep \/ Clock
    BY <1>6, <1>7 DEF StartWaiting, StatusIsRead, StatusFails, StatusArrives, Wake,
       WaitStep, RecipientActs, Sweep, Clock
  <1> QED BY <1>1, <1>2, <1>3, <1>4, <1>5, <1>7 DEF Steps

-----------------------------------------------------------------------------
(* The wait's part is kept.                                                *)

(* What is recorded of the first end, seen from a question that was asked. *)
FirstEnd ==
  \/ settled' = settled
  \/ settled = None /\ settled' = now

LEMMA UntilKnown ==
  ASSUME SendInv, WaitInv, wait.pc # "idle"
  PROVE  send.until \in Int /\ send.pc = "done"
  BY DEF SendInv, WaitInv, Known

(* No answer is late, no sleep too long, and no end goes unseen while the  *)
(* wait does not move.                                                     *)
LEMMA WaitStays ==
  ASSUME RowInv, SendInv, WaitInv, RowFrame, FirstEnd, wait' = wait,
         wait.pc # "idle" => send' = send,
         wait.pc \in {"asking", "told"} => now' <= wait.asked + MaxLatency,
         wait.pc = "sleeping" => now' <= wait.wake
  PROVE  WaitInv'
  <1>1. now \in Nat /\ now' \in Nat /\ now <= now' /\ wait \in WaitRecords
    BY TimesNat DEF RowInv, RowFrame, WaitInv
  <1>2. CASE wait.pc = "idle"
    <2>1. wait.asked = None /\ wait.result = None
      BY <1>2 DEF WaitInv
    <2>2. wait.result # "TIMEOUT" /\ wait.result # "RECIPIENT_NOT_FOUND"
      BY <2>1, ParamsAssumption DEF Errors
    <2> QED BY <1>1, <1>2, <2>1, <2>2 DEF WaitInv
  <1>3. CASE wait.pc # "idle"
    <2>1. send' = send /\ send.until \in Int /\ send.result = "sent"
      BY <1>3, UntilKnown DEF WaitInv
    <2>2. send.until <= now => send'.until <= now'
      BY <1>1, <2>1
    <2>3. wait.asked \in Nat /\ wait.asked <= now /\ NothingMissed => NothingMissed'
      BY <1>1 DEF FirstEnd, NothingMissed
    <2>4. wait.result = "TIMEOUT" => now' >= wait.deadline /\ TimeoutsAreTrue'
      <3>1. SUFFICES ASSUME wait.result = "TIMEOUT"
                     PROVE  now' >= wait.deadline /\ TimeoutsAreTrue'
        OBVIOUS
      <3>2. now >= wait.deadline /\ TimeoutsAreTrue /\ wait.deadline \in Nat
        BY <3>1 DEF WaitInv, WaitRecords
      <3>3. settled' = now => TimeoutsAreTrue'
        BY <1>1, <3>2, ClientAssumption DEF TimeoutsAreTrue
      <3> QED BY <1>1, <3>2, <3>3 DEF FirstEnd, TimeoutsAreTrue
    <2> QED BY <1>1, <1>3, <2>1, <2>2, <2>3, <2>4 DEF WaitInv
  <1> QED BY <1>2, <1>3

(* Asking or giving up, by a deadline, with what is known of the first end.*)
LEMMA AskKept ==
  ASSUME RowInv, SendInv, WaitInv, RowFrame, FirstEnd, NEW deadline \in Nat,
         AskOrGiveUp(deadline), now' = now, send' = send, send.result = "sent",
         wait.pc # "done",
         wait.asked = None \/
           (wait.asked \in Nat /\ wait.asked <= now /\ NothingMissed
            /\ now <= wait.asked + MaxLatency + ACK_POLL_INTERVAL)
  PROVE  WaitInv'
  <1>1. now \in Nat /\ wait \in WaitRecords /\ wait.result = None
    BY TimesNat DEF RowInv, WaitInv
  <1>2. CASE now < deadline
    <2>1. wait' = [wait EXCEPT !.pc = "asking", !.deadline = deadline, !.asked = now,
                     !.wake = 0]
      BY <1>2 DEF AskOrGiveUp
    <2>2. /\ wait' \in WaitRecords
          /\ wait'.pc = "asking" /\ wait'.deadline = deadline /\ wait'.asked = now
          /\ wait'.result = None
      BY <1>1, <2>1 DEF WaitRecords, Waiting
    <2>3. wait'.result # "TIMEOUT" /\ wait'.result # "RECIPIENT_NOT_FOUND"
      BY <2>2, ParamsAssumption DEF Errors
    <2>4. now <= now + MaxLatency
      BY <1>1, ClientAssumption
    <2> QED BY <1>1, <1>2, <2>2, <2>3, <2>4 DEF WaitInv
  <1>3. CASE ~(now < deadline)
    <2>1. wait' = [wait EXCEPT !.pc = "done", !.deadline = deadline, !.result = "TIMEOUT"]
      BY <1>3 DEF AskOrGiveUp
    <2>2. /\ wait' \in WaitRecords
          /\ wait'.pc = "done" /\ wait'.deadline = deadline /\ wait'.asked = wait.asked
          /\ wait'.result = "TIMEOUT"
      BY <1>1, <2>1 DEF WaitRecords, Errors
    <2>3. TimeoutsAreTrue'
      <3>1. SUFFICES ASSUME wait.asked # None, settled' # None
                     PROVE  settled' >= deadline - ACK_POLL_INTERVAL - MaxLatency
        BY <2>2 DEF TimeoutsAreTrue
      <3>2. settled' = now \/ (settled' \in Nat /\ settled' >= wait.asked)
        BY <3>1 DEF FirstEnd, NothingMissed, RowInv
      <3> QED BY <1>1, <1>3, <3>1, <3>2, ClientAssumption
    <2> QED BY <1>1, <1>3, <2>2, <2>3 DEF WaitInv
  <1> QED BY <1>2, <1>3

(* The status of the row is read.                                          *)
LEMMA ReadKept ==
  ASSUME RowInv, SendInv, WaitInv, RowFrame, FirstEnd, StatusIsRead
  PROVE  WaitInv'
  <1> DEFINE told == IF acks[Id] = None THEN None ELSE acks[Id].status
  <1>1. /\ wait.pc = "asking" /\ send' = send /\ now' = now
        /\ wait' = [wait EXCEPT !.pc = "told", !.ack = told]
    BY DEF StatusIsRead, WaitStep, storeVars
  <1>2. now \in Nat /\ wait \in WaitRecords /\ wait.result = None
    BY <1>1, TimesNat DEF RowInv, WaitInv
  <1>3. told \in {None} \cup Statuses
    BY IdTyped DEF RowInv, Acks
  <1>4. told = None => send.until <= now
    <2>1. SUFFICES ASSUME acks[Id] # None PROVE told # None
      BY <1>1 DEF WaitInv, SendInv, Known
    <2>2. told \in Statuses
      BY <2>1, IdTyped DEF RowInv, Acks
    <2> QED BY <2>2, ParamsAssumption
  <1>5. told = "pending" => NothingMissed'
    <2>1. SUFFICES ASSUME told = "pending" PROVE settled = None
      BY <1>1, <1>2 DEF NothingMissed, FirstEnd, WaitInv, WaitRecords
    <2>2. ~Ended
      BY <2>1 DEF Ended
    <2> QED BY <2>2 DEF RowInv
  <1> HIDE DEF told
  <1>6. /\ wait' \in WaitRecords
        /\ wait'.pc = "told" /\ wait'.ack = told /\ wait'.asked = wait.asked
        /\ wait'.deadline = wait.deadline /\ wait'.result = None
    BY <1>1, <1>2, <1>3 DEF WaitRecords, Waiting
  <1>7. wait'.result # "TIMEOUT" /\ wait'.result # "RECIPIENT_NOT_FOUND"
    BY <1>6, ParamsAssumption DEF Errors
  <1>8. send.result = "sent" /\ wait.asked \in Nat /\ wait.asked < wait.deadline
        /\ wait.asked <= now /\ now <= wait.asked + MaxLatency
    BY <1>1 DEF WaitInv
  <1> QED BY <1>1, <1>4, <1>5, <1>6, <1>7, <1>8 DEF WaitInv

(* The status arrives, or the request failed.                              *)
LEMMA ArrivalKept ==
  ASSUME RowInv, SendInv, WaitInv, RowFrame, FirstEnd, StatusArrives \/ StatusFails
  PROVE  WaitInv'
  <1>1. /\ wait.pc \in {"asking", "told"} /\ send' = send /\ now' = now
    BY DEF StatusArrives, StatusFails, WaitStep, storeVars
  <1>2. now \in Nat /\ wait \in WaitRecords /\ send.result = "sent"
    BY <1>1, TimesNat DEF RowInv, WaitInv
  <1>3. /\ wait.asked \in Nat /\ wait.deadline \in Nat /\ wait.asked < wait.deadline
        /\ wait.asked <= now /\ now <= wait.asked + MaxLatency
    BY <1>1, <1>2 DEF WaitInv, WaitRecords
  <1>4. ASSUME NEW result \in Statuses \cup Errors, WaitEnds(result),
               result = "RECIPIENT_NOT_FOUND" => send.until <= now,
               result = "TIMEOUT" => now >= wait.deadline /\ NothingMissed
        PROVE  WaitInv'
    <2>1. wait' = [wait EXCEPT !.pc = "done", !.result = result]
      BY <1>4 DEF WaitEnds
    <2>2. /\ wait' \in WaitRecords
          /\ wait'.pc = "done" /\ wait'.deadline = wait.deadline
          /\ wait'.asked = wait.asked /\ wait'.result = result
      BY <1>2, <2>1 DEF WaitRecords
    <2>3. result = "TIMEOUT" => TimeoutsAreTrue'
      <3>1. SUFFICES ASSUME result = "TIMEOUT", settled' # None
                     PROVE  settled' >= wait.deadline - ACK_POLL_INTERVAL - MaxLatency
        BY <2>2 DEF TimeoutsAreTrue
      <3>2. settled' = now \/ (settled' \in Nat /\ settled' >= wait.asked)
        BY <1>4, <3>1 DEF FirstEnd, NothingMissed, RowInv
      <3> QED BY <1>2, <1>3, <1>4, <3>1, <3>2, ClientAssumption
    <2> QED BY <1>1, <1>2, <1>4, <2>2, <2>3 DEF WaitInv
  <1>5. CASE StatusFails
    <2>1. "ROUTER_ERROR" \in Errors
      BY DEF Errors
    <2> QED BY <1>4, <1>5, <2>1 DEF StatusFails
  <1>6. CASE StatusArrives
    <2> DEFINE remaining == wait.deadline - now
    <2>1. wait.pc = "told" /\ wait.ack \in {None} \cup Statuses /\ remaining \in Int
      BY <1>2, <1>3, <1>6 DEF StatusArrives, WaitRecords
    <2>2. CASE wait.ack = None
      <3> MapRouterError("404") = "RECIPIENT_NOT_FOUND" /\ wait.ack \notin TerminalStatuses
        BY <2>2, ParamsAssumption DEF MapRouterError, TerminalStatuses, Statuses
      <3>1. WaitEnds("RECIPIENT_NOT_FOUND")
        BY <1>6, <2>2 DEF StatusArrives
      <3>2. send.until <= now
        BY <2>1, <2>2 DEF WaitInv
      <3>3. "RECIPIENT_NOT_FOUND" \in Errors
        BY DEF Errors
      <3> QED BY <1>4, <3>1, <3>2, <3>3
    <2>3. CASE wait.ack \in TerminalStatuses
      <3>1. wait.ack # None
        BY <2>3, ParamsAssumption DEF TerminalStatuses, Statuses
      <3>2. WaitEnds(wait.ack)
        BY <1>6, <2>3, <3>1 DEF StatusArrives
      <3>3. wait.ack \in Statuses /\ wait.ack # "TIMEOUT" /\ wait.ack # "RECIPIENT_NOT_FOUND"
        BY <2>3 DEF TerminalStatuses, Statuses
      <3> QED BY <1>4, <3>2, <3>3
    <2>4. CASE wait.ack # None /\ wait.ack \notin TerminalStatuses
      <3>1. wait.ack = "pending"
        BY <2>1, <2>4 DEF TerminalStatuses, Statuses
      <3>2. NothingMissed
        BY <2>1, <3>1 DEF WaitInv
      <3>3. CASE remaining <= 0
        <4>1. WaitEnds("TIMEOUT")
          BY <1>6, <2>4, <3>3 DEF StatusArrives
        <4>2. now >= wait.deadline
          BY <1>2, <1>3, <3>3
        <4>3. "TIMEOUT" \in Errors
          BY DEF Errors
        <4> QED BY <1>4, <3>2, <4>1, <4>2, <4>3
      <3>4. CASE ~(remaining <= 0)
        <4> DEFINE wake == now + Sleep(remaining)
        <4>1. wait' = [wait EXCEPT !.pc = "sleeping", !.ack = None, !.wake = wake]
          BY <1>6, <2>4, <3>4 DEF StatusArrives
        <4>2. /\ wake \in Nat /\ now <= wake /\ wake <= wait.deadline
              /\ wake <= now + ACK_POLL_INTERVAL
          BY <1>2, <1>3, <3>4, ClientAssumption DEF Sleep
        <4> HIDE DEF wake
        <4>3. /\ wait' \in WaitRecords
              /\ wait'.pc = "sleeping" /\ wait'.deadline = wait.deadline
              /\ wait'.asked = wait.asked /\ wait'.wake = wake /\ wait'.result = wait.result
          BY <1>2, <4>1, <4>2 DEF WaitRecords, Waiting
        <4>4. wait.result = None
          BY <2>1 DEF WaitInv
        <4>5. wait'.result # "TIMEOUT" /\ wait'.result # "RECIPIENT_NOT_FOUND"
          BY <4>3, <4>4, ParamsAssumption DEF Errors
        <4>6. wake <= wait.asked + MaxLatency + ACK_POLL_INTERVAL
          BY <1>2, <1>3, <4>2, ClientAssumption
        <4>7. NothingMissed'
          BY <1>2, <1>3, <3>2, <4>3 DEF NothingMissed, FirstEnd
        <4> QED BY <1>1, <1>2, <1>3, <4>2, <4>3, <4>4, <4>5, <4>6, <4>7 DEF WaitInv
      <3> QED BY <3>3, <3>4
    <2> QED BY <2>2, <2>3, <2>4
  <1> QED BY <1>5, <1>6

LEMMA WaitKept ==
  ASSUME RowInv, SendInv, WaitInv, RowFrame, FirstEnd, Steps
  PROVE  WaitInv'
  <1>1. now \in Nat /\ now' \in Nat
    BY TimesNat DEF RowInv, RowFrame
  <1>2. ASSUME wait' = wait, now' = now, wait.pc # "idle" => send' = send
        PROVE  WaitInv'
    <2>1. wait.pc \in {"asking", "told"} => now' <= wait.asked + MaxLatency
      BY <1>2 DEF WaitInv
    <2>2. wait.pc = "sleeping" => now' <= wait.wake
      BY <1>2 DEF WaitInv
    <2> QED BY <1>2, <2>1, <2>2, WaitStays
  <1>3. wait.pc # "idle" => send.pc = "done"
    BY UntilKnown
  <1>4. CASE \/ \E p \in SendParams, skew \in Skews, key \in Keys \cup {None, "bad"} :
                  Send(p, skew, key)
             \/ RouterValidates \/ RouterRefuses \/ SendReturns
    <2>1. send.pc # "done" /\ wait' = wait /\ now' = now
      BY <1>4 DEF Send, RouterValidates, RouterRefuses, SendReturns, SendStep, storeVars
    <2> QED BY <1>2, <1>3, <2>1
  <1>5. CASE RouterRecords \/ RouterSettles
    <2>1. send.pc # "done" /\ wait' = wait
      BY <1>5 DEF RouterRecords, RouterSettles
    <2>2. now' = now
      BY <1>5 DEF RouterRecords, RouterSettles, SubmitMessage, InsertMessage, UpdateAck,
         storeVars
    <2> QED BY <1>2, <1>3, <2>1, <2>2
  <1>6. CASE RecipientActs \/ Sweep
    <2>1. wait' = wait /\ send' = send /\ now' = now
      BY <1>6 DEF RecipientActs, Sweep, UpdateAck, ExpireMessages, storeVars
    <2> QED BY <1>2, <2>1
  <1>7. CASE Clock
    <2>1. wait' = wait /\ send' = send /\ now' = now + 1
      BY <1>7 DEF Clock, Tick
    <2>2. wait.pc \in {"asking", "told"} => now' <= wait.asked + MaxLatency
      BY <1>1, <1>7, <2>1, ClientAssumption DEF Clock, WaitInv
    <2>3. wait.pc = "sleeping" => now' <= wait.wake
      BY <1>1, <1>7, <2>1 DEF Clock, WaitInv, WaitRecords
    <2> QED BY <2>1, <2>2, <2>3, WaitStays
  <1>8. CASE \E timeout \in Timeouts : StartWaiting(timeout)
    <2>1. PICK timeout \in Timeouts : StartWaiting(timeout)
      BY <1>8
    <2>2. now + timeout \in Nat
      BY <1>1, ClientAssumption
    <2>3. wait.pc = "idle" /\ wait.asked = None
      BY <2>1 DEF StartWaiting, WaitInv
    <2>4. AskOrGiveUp(now + timeout) /\ now' = now /\ send' = send /\ send.result = "sent"
      BY <2>1 DEF StartWaiting, WaitStep, storeVars
    <2> QED BY <2>2, <2>3, <2>4, AskKept
  <1>9. CASE Wake
    <2>1. /\ wait.pc = "sleeping" /\ now >= wait.wake /\ AskOrGiveUp(wait.deadline)
          /\ now' = now /\ send' = send
      BY <1>9 DEF Wake, WaitStep, storeVars
    <2>2. wait.deadline \in Nat /\ wait.wake \in Nat
      BY DEF WaitInv, WaitRecords
    <2>3. /\ wait.asked \in Nat /\ wait.asked <= now /\ NothingMissed
          /\ send.result = "sent"
          /\ wait.wake <= wait.asked + MaxLatency + ACK_POLL_INTERVAL
          /\ now <= wait.wake
      BY <2>1 DEF WaitInv
    <2>4. now <= wait.asked + MaxLatency + ACK_POLL_INTERVAL
      BY <1>1, <2>2, <2>3, ClientAssumption
    <2> QED BY <2>1, <2>2, <2>3, <2>4, AskKept
  <1> QED BY <1>4, <1>5, <1>6, <1>7, <1>8, <1>9, ReadKept, ArrivalKept DEF Steps

-----------------------------------------------------------------------------
(* The inductive invariant, and what it says.                              *)

LEMMA ClientInvInit == ClientInit => ClientInv
  <1> SUFFICES ASSUME ClientInit PROVE ClientInv
    OBVIOUS
  <1>1. RowInv
    <2>1. 0 \in Times
      BY StoreAssumption DEF Times
    <2> QED BY <2>1, IdTyped DEF ClientInit, StoreInit, RowInv, Unrecorded
  <1>2. SendInv
    BY ParamsAssumption DEF ClientInit, SendInv, SendRecords, Codes
  <1>3. WaitInv
    BY ParamsAssumption, StoreAssumption DEF ClientInit, WaitInv, WaitRecords, Waiting, Errors
  <1> QED BY <1>1, <1>2, <1>3 DEF ClientInv

LEMMA ClientInvNext == ClientInv /\ [Next]_allVars => ClientInv'
  <1> SUFFICES ASSUME ClientInv, [Next]_allVars PROVE ClientInv'
    OBVIOUS
  <1> USE DEF ClientInv
  <1>1. CASE Next
    <2>1. Steps
      BY <1>1 DEF Next
    <2>2. RowFrame
      BY <2>1, StepRows
    <2>3. RowInv' /\ FirstEnd
      BY <1>1, <2>2, RowsKept DEF FirstEnd
    <2> QED BY <2>1, <2>2, <2>3, SendKept, WaitKept
  <1>2. CASE UNCHANGED allVars
    BY <1>2 DEF allVars, clientVars, storeVars, tables, RowInv, SendInv, WaitInv, Ended,
       Unrecorded, Known, NothingMissed, TimeoutsAreTrue
  <1> QED BY <1>1, <1>2

LEMMA ClientInvHolds == Spec => []ClientInv
  BY ClientInvInit, ClientInvNext, PTL DEF Spec

(* waitForAck outlives its deadline by no more than the answer it is       *)
(* waiting for, whatever the timeout and the interval (client.ts:183-207). *)
THEOREM WaitsEnd == Spec => []WaitEndsInTime
  <1>1. ClientInv => WaitEndsInTime
    <2>1. SUFFICES ASSUME ClientInv, wait.pc \in Waiting
                   PROVE  now <= wait.deadline + MaxLatency
      BY DEF WaitEndsInTime, Waiting
    <2>2. /\ now \in Nat /\ wait.deadline \in Nat /\ wait.wake \in Nat
          /\ MaxLatency \in Nat
      BY <2>1, TimesNat, ClientAssumption DEF ClientInv, RowInv, WaitInv, WaitRecords
    <2> QED BY <2>1, <2>2 DEF ClientInv, WaitInv, Waiting
  <1> QED BY <1>1, ClientInvHolds, PTL

(* A wait that asked and gives up has missed no end of the message that    *)
(* came a poll and an answer before its deadline (client.ts:175).          *)
THEOREM TimeoutsMissNothing == Spec => []TimeoutsAreTrue
  <1>1. ClientInv => TimeoutsAreTrue
    BY DEF ClientInv, WaitInv, TimeoutsAreTrue
  <1> QED BY <1>1, ClientInvHolds, PTL

(* A query for a message that was answered 202 is told that there is none  *)
(* only when its ttl ran out before the store took it (send.ts:178,        *)
(* lib.rs:143).                                                            *)
THEOREM SentAreKnown == Spec => []SentIsKnown
  <1>1. ClientInv => SentIsKnown
    BY DEF ClientInv, WaitInv, SentIsKnown
  <1> QED BY <1>1, ClientInvHolds, PTL

(* Whatever a sender passes to send, the two validations agree on what     *)
(* createEnvelope makes of it, but for content JSON cannot carry, a        *)
(* priority that is NaN and a reply_to that is no text; and its signature  *)
(* verifies with its key alone, and not at all when the content has dates  *)
(* (envelope.ts:60-346, validate.ts:41-189).                               *)
THEOREM EnvelopesArrive == Spec => []EnvelopesTravel
  <1>1. ClientInv => EnvelopesTravel
    <2>1. SUFFICES ASSUME ClientInv, send.envelope # None
                   PROVE  EnvelopesTravel
      BY DEF EnvelopesTravel
    <2>2. Made(send.envelope, send.key) /\ send.key \in {None} \cup Keys
      BY <2>1 DEF ClientInv, SendInv, SendRecords
    <2> QED BY <2>2, MadeTravels DEF EnvelopesTravel
  <1> QED BY <1>1, ClientInvHolds, PTL

=============================================================================
