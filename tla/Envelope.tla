------------------------------- MODULE Envelope -------------------------------
(***************************************************************************)
(* Envelopes as the SDK makes, signs and checks them (sdk/src/envelope.ts, *)
(* did.ts) and as the router's middleware checks them                      *)
(* (router/router-node/src/middleware/validate.ts).                        *)
(*                                                                         *)
(* A DID is the sequence of its parts between colons, a wire intent the    *)
(* sequence of its words between dots; the empty sequence is the empty     *)
(* string.  A payload is one of the kinds that signing and JSON tell       *)
(* apart, and so are a priority that is no number and a reply_to that is   *)
(* no text: TypeScript forbids them, and nothing else does.  ed25519 is    *)
(* ideal: a signature is the key and what it signs.                        *)
(***************************************************************************)
EXTENDS Integers, Sequences, SequencesExt

CONSTANTS
  None,            \* undefined, or null
  NaN,             \* a priority that is NaN
  EntityCodes,     \* VALID_ENTITY_TYPES
  IntentClasses,   \* VALID_INTENT_NAMESPACES
  MAX_TTL,         \* seven days
  MAX_SKEW         \* five minutes

ChiPrefix == <<"did", "chi">>

(* createDID; it throws (None) on the empty string.                        *)
CreateDID(address) ==
  CASE address = <<>> -> None
    [] IsPrefix(ChiPrefix, address) /\ Len(address) > Len(ChiPrefix) -> address
    [] OTHER -> ChiPrefix \o address

IsDID(did) == did # <<>> /\ Head(did) = "did" /\ Len(did) > 1

(* What JSON carries: a Date as text, NaN as null, a function not at all.  *)
(* For sortKeys a Date is an object without keys.                          *)
OverTheWire(payload) ==
  CASE payload = "dated" -> "date as text"
    [] payload = "not in JSON" -> None
    [] OTHER -> payload
SortKeys(payload) == IF payload = "dated" THEN "date emptied" ELSE payload
NumberOverTheWire(n) == IF n = NaN THEN None ELSE n

-----------------------------------------------------------------------------
(* createEnvelope: what it throws on, and what it returns.                 *)

Creatable(p) ==
  /\ p.senderDid # <<>> /\ p.senderType # None /\ p.recipientDid # <<>>
  /\ p.intent # <<>> /\ p.content # None
  /\ p.ttl > 0 /\ p.priority \in 0..255 \cup {NaN}

CreateEnvelope(p, id, clock) ==
  [id |-> id, senderDid |-> p.senderDid, senderType |-> p.senderType,
   recipientDid |-> p.recipientDid, intent |-> p.intent, priority |-> p.priority,
   ttl |-> p.ttl, payload |-> p.content, replyTo |-> p.replyTo, createdAt |-> clock,
   signature |-> None]

(* canonicalJSON.  Mutated form: the signature is signed as well.          *)
CanonicalWithSignature(e) ==
  [e EXCEPT !.payload = OverTheWire(SortKeys(@)), !.priority = NumberOverTheWire(@)]

Canonical(e) ==
  [e EXCEPT !.payload = OverTheWire(SortKeys(@)), !.priority = NumberOverTheWire(@),
            !.signature = None]

SignEnvelope(e, key) == [e EXCEPT !.signature = [key |-> key, signed |-> Canonical(e)]]

VerifyEnvelope(e, key) ==
  /\ e.signature # None
  /\ e.signature.key = key /\ e.signature.signed = Canonical(e)

Received(e) ==
  [e EXCEPT !.payload = OverTheWire(@), !.priority = NumberOverTheWire(@)]

-----------------------------------------------------------------------------
(* validateEnvelope of the SDK, and of the router up to its clock.         *)

WireIntent(intent) == Len(intent) = 2 /\ Head(intent) \in IntentClasses

(* Mutated form: the SDK knows no greatest ttl.                            *)
SdkAcceptsAnyTtl(e) ==
  /\ IsDID(e.senderDid) /\ IsDID(e.recipientDid)
  /\ e.senderType \in EntityCodes /\ WireIntent(e.intent)
  /\ e.priority \in 0..255 /\ e.ttl >= 1 /\ e.payload # None
  /\ e.replyTo # "no text"

SdkAccepts(e) ==
  /\ IsDID(e.senderDid) /\ IsDID(e.recipientDid)
  /\ e.senderType \in EntityCodes /\ WireIntent(e.intent)
  /\ e.priority \in 0..255 /\ e.ttl \in 1..MAX_TTL
  /\ e.payload # None /\ e.replyTo # "no text"

(* Number(null) is 0, and reply_to is not looked at.                       *)
RouterAccepts(e) ==
  /\ e.payload # None /\ IsDID(e.senderDid) /\ IsDID(e.recipientDid)
  /\ e.senderType \in EntityCodes /\ WireIntent(e.intent)
  /\ e.ttl > 0 /\ e.ttl <= MAX_TTL /\ e.priority \in 0..255 \cup {None}

InTime(e, now) == e.createdAt + e.ttl > now /\ e.createdAt <= now + MAX_SKEW
=============================================================================
