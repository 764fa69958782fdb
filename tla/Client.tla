-------------------------------- MODULE Client --------------------------------
(***************************************************************************)
(* The SDK's ChiClient (sdk/src/client.ts): one send and one waitForAck    *)
(* for what was sent, over the store.  The send handler of the router is   *)
(* the one of Router, reduced to what a sender can tell: it refuses, or    *)
(* records the message and settles its ack, or fails.                      *)
(*                                                                         *)
(* One clock counts for router and client; created_at may lie apart from   *)
(* it.  fetch has no timeout in the SDK: that the network answers within   *)
(* MaxLatency is an assumption, and so is that timers fire on time.        *)
(***************************************************************************)
EXTENDS Store, Sequences

CONSTANTS
  EntityCodes, IntentClasses, MAX_TTL, MAX_SKEW, NaN,     \* see Envelope
  SendParams,      \* what a sender passes to send or createEnvelope
  Keys,            \* valid private keys; one that is no hex of 32 bytes is "bad"
  Skews,           \* how far the sender's clock lies from the router's
  Timeouts,        \* timeout_ms of waitForAck
  ACK_POLL_INTERVAL,
  MaxLatency       \* bound on the time a status request takes

ASSUME ClientAssumption ==
  /\ MAX_TTL \in Nat /\ MAX_SKEW \in Nat /\ Timeouts \subseteq Nat
  /\ ACK_POLL_INTERVAL \in Nat \ {0} /\ MaxLatency \in Nat
  /\ Skews \subseteq Int /\ MessageIds # {}
  /\ "bad" \notin Keys /\ None \notin Keys

(* The argument of createEnvelope; see Envelope for its sequences and the  *)
(* kinds of a payload.                                                     *)
Words == Seq(STRING)
Contents ==
  {"text", "structured", "dated", "date as text", "date emptied", "not in JSON"}
Replies == {None, "text", "no text"}
Params ==
  [senderDid : Words, senderType : {None} \cup STRING, recipientDid : Words,
   intent : Words, content : {None} \cup Contents, ttl : Int,
   priority : Int \cup {NaN}, replyTo : Replies]

(* The answers of the router to a send, and how send and waitForAck end.   *)
Codes == {"202", "400", "403 PERMISSION_DENIED", "429 RATE_LIMIT_EXCEEDED",
          "403 SENDER_BLOCKLISTED", "503"}
Errors == {"INVALID_ENVELOPE", "SIGNING_FAILED", "SENDER_BLOCKLISTED",
           "RATE_LIMIT_EXCEEDED", "PERMISSION_DENIED", "RECIPIENT_NOT_FOUND",
           "ROUTER_ERROR", "TIMEOUT"}

(* Envelopes before they are signed, and signatures.                       *)
DraftsWith(priorities) ==
  [id : MessageIds, senderDid : Words, senderType : {None} \cup STRING,
   recipientDid : Words, intent : Words, priority : priorities, ttl : Int,
   payload : {None} \cup Contents, replyTo : Replies, createdAt : Int,
   signature : {None}]
Drafts == DraftsWith(Int \cup {NaN})
Signatures == [key : Keys, signed : DraftsWith(Int \cup {None})]

ASSUME ParamsAssumption ==
  /\ SendParams \subseteq Params /\ {"did", "chi"} \subseteq STRING
  /\ None \notin Signatures
  /\ None \notin Contents \cup Codes \cup Statuses \cup Errors \cup {"sent"}
  /\ None \notin Int /\ NaN \notin Int /\ NaN # None

INSTANCE Envelope

VARIABLES
  send,       \* the send: its state, its envelope until it is recorded, its
              \* result, and the end of its ttl (a ghost)
  wait,       \* the waitForAck
  settled     \* ghost: when the ack first had a status that ends polling

clientVars == <<send, wait, settled>>
allVars == <<storeVars, clientVars>>

Id == CHOOSE id \in MessageIds : TRUE                \* uuidv4()

(* Mutated form: expired is not among them.                                *)
TerminalButExpired == {"delivered", "read", "responded", "failed"}

TerminalStatuses == {"delivered", "read", "responded", "expired", "failed"}

ClientInit ==
  /\ StoreInit
  /\ send = [pc |-> "idle", envelope |-> None, key |-> None, code |-> None,
             result |-> None, until |-> None]
  /\ wait = [pc |-> "idle", deadline |-> 0, asked |-> None, wake |-> 0, ack |-> None,
             result |-> None]
  /\ settled = None

SendEnds(result) ==
  send' = [send EXCEPT !.pc = "done", !.envelope = None, !.key = None, !.result = result]
Answers(code) == send' = [send EXCEPT !.pc = "answered", !.code = code]
WaitEnds(result) == wait' = [wait EXCEPT !.pc = "done", !.result = result]
SendStep == UNCHANGED <<storeVars, wait>>
WaitStep == UNCHANGED <<storeVars, send>>

-----------------------------------------------------------------------------
(* send: the recipient's DID, the envelope, its signature, the request.    *)

Recipient(to) == IF IsDID(to) THEN to ELSE CreateDID(to)

Send(p, skew, key) ==
  LET params == [p EXCEPT !.recipientDid = Recipient(@)]
      envelope == CreateEnvelope(params, Id, now + skew)
  IN  /\ send.pc = "idle" /\ SendStep
      /\ CASE params.recipientDid = None \/ ~Creatable(params) ->
                SendEnds("INVALID_ENVELOPE")
           [] params.recipientDid # None /\ Creatable(params) /\ key = "bad" ->
                SendEnds("SIGNING_FAILED")
           [] OTHER ->
                send' = [send EXCEPT !.pc = "posted", !.key = key,
                           !.envelope = IF key = None THEN envelope
                                        ELSE SignEnvelope(envelope, key)]

(* The middleware.                                                         *)
RouterValidates ==
  /\ send.pc = "posted" /\ SendStep
  /\ IF RouterAccepts(Received(send.envelope)) /\ InTime(send.envelope, now)
     THEN send' = [send EXCEPT !.pc = "checking"]
     ELSE Answers("400")

(* send.ts up to the write: denied, over the limit, on the threat feed, or *)
(* the store cannot be reached.                                            *)
RouterRefuses ==
  /\ send.pc = "checking" /\ SendStep
  /\ \E code \in {"403 PERMISSION_DENIED", "429 RATE_LIMIT_EXCEEDED",
                  "403 SENDER_BLOCKLISTED", "503"} :
       Answers(code)

Row(e) ==
  [sender |-> e.senderDid, recipient |-> e.recipientDid, createdAt |-> e.createdAt,
   expiresAt |-> e.createdAt + e.ttl, node |-> CHOOSE n \in Nodes : TRUE]

RouterRecords ==
  /\ send.pc = "checking"
  /\ SubmitMessage(Id, Row(send.envelope), None)
  /\ send' = [send EXCEPT !.pc = "delivering", !.envelope = None, !.key = None,
                !.until = send.envelope.createdAt + send.envelope.ttl]
  /\ UNCHANGED wait

(* Delivery ends, and is acked: 202, with status delivered or pending.  An *)
(* ack that is lost does not change the answer.                            *)
RouterSettles ==
  /\ send.pc = "delivering"
  /\ \E status \in {"delivered", "failed"} :
       UpdateAck(Id, status, None, None) \/ UNCHANGED storeVars
  /\ Answers("202") /\ UNCHANGED wait

(* _mapRouterError.                                                        *)
MapRouterError(code) ==
  CASE code = "403 SENDER_BLOCKLISTED" -> "SENDER_BLOCKLISTED"
    [] code = "403 RATE_LIMIT_EXCEEDED" -> "RATE_LIMIT_EXCEEDED"
    [] code = "403 PERMISSION_DENIED" -> "PERMISSION_DENIED"
    [] code = "404" -> "RECIPIENT_NOT_FOUND"
    [] code = "400" -> "INVALID_ENVELOPE"
    [] OTHER -> "ROUTER_ERROR"

SendReturns ==
  /\ send.pc = "answered" /\ SendStep
  /\ SendEnds(IF send.code = "202" THEN "sent" ELSE MapRouterError(send.code))

-----------------------------------------------------------------------------
(* waitForAck: ask while the deadline has not come, sleep in between.      *)

AskOrGiveUp(deadline) ==
  IF now < deadline
  THEN wait' = [wait EXCEPT !.pc = "asking", !.deadline = deadline, !.asked = now,
                            !.wake = 0]
  ELSE wait' = [wait EXCEPT !.pc = "done", !.deadline = deadline, !.result = "TIMEOUT"]

StartWaiting(timeout) ==
  /\ wait.pc = "idle" /\ send.result = "sent"
  /\ AskOrGiveUp(now + timeout) /\ WaitStep

(* status.ts over getAck: the row is read here and told later.             *)
StatusIsRead ==
  /\ wait.pc = "asking" /\ WaitStep
  /\ wait' = [wait EXCEPT !.pc = "told",
                !.ack = IF acks[Id] = None THEN None ELSE acks[Id].status]

StatusFails ==
  /\ wait.pc = "asking" /\ WaitStep
  /\ WaitEnds("ROUTER_ERROR")

(* Mutated form: it sleeps a whole interval.                               *)
SleepWhole(remaining) == ACK_POLL_INTERVAL

Sleep(remaining) == IF remaining < ACK_POLL_INTERVAL THEN remaining ELSE ACK_POLL_INTERVAL

StatusArrives ==
  LET remaining == wait.deadline - now
  IN  /\ wait.pc = "told" /\ WaitStep
      /\ CASE wait.ack = None -> WaitEnds(MapRouterError("404"))
           [] wait.ack \in TerminalStatuses -> WaitEnds(wait.ack)
           [] OTHER ->
                IF remaining <= 0 THEN WaitEnds("TIMEOUT")
                ELSE wait' = [wait EXCEPT !.pc = "sleeping", !.ack = None,
                                !.wake = now + Sleep(remaining)]

Wake ==
  /\ wait.pc = "sleeping" /\ now >= wait.wake
  /\ AskOrGiveUp(wait.deadline) /\ WaitStep

-----------------------------------------------------------------------------
(* The recipient acks (bound: once), the sweep runs.                       *)
RecipientActs ==
  /\ acks[Id] # None /\ acks[Id].readAt = None /\ acks[Id].respondedAt = None
  /\ \E status \in {"read", "responded"} : UpdateAck(Id, status, None, None)
  /\ UNCHANGED <<send, wait>>

Sweep == ExpireMessages /\ UNCHANGED <<send, wait>>

Clock ==
  /\ Tick
  /\ wait.pc \in {"asking", "told"} => now - wait.asked < MaxLatency
  /\ wait.pc = "sleeping" => now < wait.wake
  /\ UNCHANGED <<send, wait>>

Steps ==
  \/ \E p \in SendParams, skew \in Skews, key \in Keys \cup {None, "bad"} :
       Send(p, skew, key)
  \/ RouterValidates \/ RouterRefuses \/ RouterRecords \/ RouterSettles \/ SendReturns
  \/ \E timeout \in Timeouts : StartWaiting(timeout)
  \/ StatusIsRead \/ StatusFails \/ StatusArrives \/ Wake
  \/ RecipientActs \/ Sweep \/ Clock

Ends(ack) == ack # None /\ ack.status # "pending"

Next ==
  /\ Steps
  /\ settled' = IF settled = None /\ Ends(acks'[Id]) THEN now ELSE settled

Spec == ClientInit /\ [][Next]_allVars

-----------------------------------------------------------------------------
(* client.ts:178, "Maximum time to wait".  waitForAck outlives its         *)
(* deadline by no more than the answer it is waiting for.                  *)
WaitEndsInTime ==
  wait.pc \in {"asking", "told", "sleeping"} => now <= wait.deadline + MaxLatency

(* A wait that asked at all gives up only when, a poll and an answer before*)
(* the deadline, the message had not come to an end: no status that came   *)
(* in good time is missed by the sleeping, the polling or the set of       *)
(* statuses (client.ts:175, "until the message reaches a terminal status").*)
TimeoutsAreTrue ==
  wait.result = "TIMEOUT" /\ wait.asked # None /\ settled # None =>
    settled >= wait.deadline - ACK_POLL_INTERVAL - MaxLatency

(* A message the router answered 202 for is known to a later query, unless *)
(* its ttl ran out between the check of the middleware and the store's.    *)
SentIsKnown ==
  wait.result = "RECIPIENT_NOT_FOUND" => send.until <= now

(* envelope.ts:255, "mirror the router's validate.ts".  Of what            *)
(* createEnvelope makes, the router refuses nothing that the SDK's         *)
(* validation lets pass except a payload JSON cannot carry, and lets pass  *)
(* nothing the SDK refuses except a priority that is NaN and a reply_to    *)
(* that is no text.  A signed envelope verifies at the other end with its  *)
(* key and no other: all but a payload with dates in it, which is not what *)
(* was signed.                                                             *)
EnvelopesTravel ==
  LET e == send.envelope
      received == Received(e)
  IN  e # None =>
        /\ SdkAccepts(e) /\ e.payload # "not in JSON" => RouterAccepts(received)
        /\ RouterAccepts(received) /\ e.priority # NaN /\ e.replyTo # "no text" =>
             SdkAccepts(e)
        /\ \A key \in Keys :
             VerifyEnvelope(received, key) <=> send.key = key /\ e.payload # "dated"

=============================================================================
