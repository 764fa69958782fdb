--------------------------- MODULE DeliveryRecord ---------------------------
(***************************************************************************)
(* What a router promises of the messages it is sent, without handlers,    *)
(* tables, caches, crashes or calls that are applied late: which messages  *)
(* it has taken on, what is on record of each, on which channels each has  *)
(* reached its recipient, and on which its senders were told that it did.  *)
(*                                                                         *)
(*   - only a message that was taken on is recorded or reaches anyone, and *)
(*     one that left anything behind can no longer be refused;             *)
(*   - a record begins pending, once; it closes with a channel only if the *)
(*     message reached its recipient there, and never opens again;         *)
(*   - a sender is told of a channel only if the message reached it;       *)
(*   - every act is about one message, except that time closes many.       *)
(*                                                                         *)
(* A retry may close a closed record anew: after a failure or an expiry,   *)
(* with a channel, and after a delivery as a failure.                      *)
(***************************************************************************)
CONSTANTS
  MessageIds,
  Channels     \* channels that lead to a recipient

VARIABLES
  sent,        \* the messages with a send that was not refused
  outcome,     \* message -> what its record says, the channel if delivered
  carried,     \* message -> the channels on which it reached the recipient
  told         \* message -> the channels its senders were told of

vars == <<sent, outcome, carried, told>>

Init ==
  /\ sent = {}
  /\ outcome = [id \in MessageIds |-> "unrecorded"]
  /\ carried = [id \in MessageIds |-> {}]
  /\ told = [id \in MessageIds |-> {}]

Send(id) == sent' = sent \cup {id} /\ UNCHANGED <<outcome, carried, told>>

(* The last send of a message that is still open is refused.               *)
Refuse(id) ==
  /\ outcome[id] = "unrecorded" /\ carried[id] = {}
  /\ sent' = sent \ {id}
  /\ UNCHANGED <<outcome, carried, told>>

Record(id) ==
  /\ id \in sent /\ outcome[id] = "unrecorded"
  /\ outcome' = [outcome EXCEPT ![id] = "pending"]
  /\ UNCHANGED <<sent, carried, told>>

(* The recipient gets the message.  Nobody need know: a webhook may take   *)
(* it and answer with an error, a call may be applied after its timeout.   *)
Reach(id, channel) ==
  /\ id \in sent
  /\ carried' = [carried EXCEPT ![id] = @ \cup {channel}]
  /\ UNCHANGED <<sent, outcome, told>>

(* A delivery ends: the record is closed, or the sender is told, or both.  *)
(* Either may be lost, and there may be no record to close.                *)
Close(id, result) ==
  /\ id \in sent /\ result \in carried[id] \cup {"failed"}
  /\ \/ outcome' = outcome
     \/ outcome[id] # "unrecorded" /\ outcome' = [outcome EXCEPT ![id] = result]
  /\ \/ told' = told
     \/ result # "failed" /\ told' = [told EXCEPT ![id] = @ \cup {result}]
  /\ UNCHANGED <<sent, carried>>

(* Time closes records, delivered ones too, but no failed ones.            *)
Expire(ids) ==
  /\ \A id \in ids : outcome[id] \in Channels \cup {"pending"}
  /\ outcome' = [id \in MessageIds |-> IF id \in ids THEN "expired" ELSE outcome[id]]
  /\ UNCHANGED <<sent, carried, told>>

Next ==
  \/ \E id \in MessageIds :
       \/ Send(id) \/ Refuse(id) \/ Record(id)
       \/ \E channel \in Channels : Reach(id, channel)
       \/ \E result \in Channels \cup {"failed"} : Close(id, result)
  \/ \E ids \in SUBSET MessageIds : Expire(ids)

Spec == Init /\ [][Next]_vars
=============================================================================
