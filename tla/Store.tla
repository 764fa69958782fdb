-------------------------------- MODULE Store --------------------------------
(***************************************************************************)
(* The federation store: the tables and reducers of the SpacetimeDB module *)
(* (router/spacetimedb-module/src/lib.rs).  A reducer is one transaction.  *)
(* The reducers are public and check almost nothing about their caller, so *)
(* the environment of this module may call any of them at any time;        *)
(* Router composes them with the one caller the repository has.            *)
(*                                                                         *)
(* A table is a function from its primary key, with None where there is no *)
(* row.  Columns that no reducer and no query looks at are left out.       *)
(***************************************************************************)
EXTENDS Integers, FiniteSets

CONSTANTS
  MessageIds, Senders, Recipients, Nodes,
  None,            \* no row, or Option::None
  CallStatuses,    \* status arguments that callers pass to update_ack
  CallChannels,    \* channel_used arguments, the wire names of channels
  CallErrors,      \* error_code arguments
  Lifetimes,       \* expires_at - created_at of the submitted messages
  PrefTtls,        \* ttl_seconds of cached preferences
  NODE_TIMEOUT,    \* the five minutes after which a silent node is evicted
  MaxTime          \* bound on the clock

Statuses == {"pending", "delivered", "read", "responded", "expired", "failed"}
Times == 0..MaxTime

VARIABLES
  messages,     \* table messages, by message_id
  threads,      \* table message_threads: message_id -> reply_to
  acks,         \* table acks, by message_id
  inbox,        \* table agent_inbox, by message_id
  nodes,        \* table router_nodes, by node_id
  prefRows,     \* table preference_cache, by recipient
  now           \* the clock, in the store's transactions and in the routers

tables == <<messages, threads, acks, inbox, nodes, prefRows>>
storeVars == <<tables, now>>

Messages ==
  [sender : Senders, recipient : Recipients, createdAt : Int, expiresAt : Int,
   node : Nodes]
Acks ==
  [status : Statuses, channel : CallChannels \cup {None},
   deliveredAt : Times \cup {None}, readAt : Times \cup {None},
   respondedAt : Times \cup {None}, error : CallErrors \cup {None, "TTL_ELAPSED"}]
InboxEntries == [recipient : Recipients, sender : Senders, read : BOOLEAN]
NodeRows == [lastSeen : Times, routed : Nat]
PrefRows == [cachedAt : Times, ttl : PrefTtls]

ASSUME StoreAssumption ==
  /\ MaxTime \in Nat /\ NODE_TIMEOUT \in Nat
  /\ Lifetimes \subseteq Nat /\ PrefTtls \subseteq Nat
  /\ None \notin Nat \cup MessageIds \cup CallChannels \cup CallErrors
  /\ None \notin Messages /\ None \notin Acks /\ None \notin InboxEntries
  /\ None \notin NodeRows /\ None \notin PrefRows

StoreInit ==
  /\ messages = [id \in MessageIds |-> None]
  /\ threads = [id \in MessageIds |-> None]
  /\ acks = [id \in MessageIds |-> None]
  /\ inbox = [id \in MessageIds |-> None]
  /\ nodes = [n \in Nodes |-> None]
  /\ prefRows = [r \in Recipients |-> None]
  /\ now = 0

-----------------------------------------------------------------------------
(* submit_message.  A submission that is too late or already known returns *)
(* without an error: the caller cannot tell it from an accepted one.       *)

PendingAck ==
  [status |-> "pending", channel |-> None, deliveredAt |-> None,
   readAt |-> None, respondedAt |-> None, error |-> None]

(* Mutated form: a known message is written again, with a fresh ack.       *)
AcceptsKnown(id, m) == m.expiresAt > now

Accepts(id, m) == m.expiresAt > now /\ messages[id] = None

(* Mutated form: the ack is not seeded.                                    *)
InsertMessageUnacked(id, m, replyTo) ==
  /\ Accepts(id, m)
  /\ messages' = [messages EXCEPT ![id] = m]
  /\ threads' = [threads EXCEPT ![id] = replyTo]
  /\ nodes' = IF nodes[m.node] = None THEN nodes
              ELSE [nodes EXCEPT ![m.node].routed = @ + 1]
  /\ UNCHANGED <<acks, inbox, prefRows, now>>

InsertMessage(id, m, replyTo) ==
  /\ Accepts(id, m)
  /\ messages' = [messages EXCEPT ![id] = m]
  /\ threads' = [threads EXCEPT ![id] = replyTo]
  /\ acks' = [acks EXCEPT ![id] = PendingAck]
  /\ nodes' = IF nodes[m.node] = None THEN nodes
              ELSE [nodes EXCEPT ![m.node].routed = @ + 1]
  /\ UNCHANGED <<inbox, prefRows, now>>

(* Mutated form: the node's counter is bumped before the checks.           *)
SubmitMessageCountingAll(id, m, replyTo) ==
  \/ InsertMessage(id, m, replyTo)
  \/ /\ ~Accepts(id, m) /\ nodes[m.node] # None
     /\ nodes' = [nodes EXCEPT ![m.node].routed = @ + 1]
     /\ UNCHANGED <<messages, threads, acks, inbox, prefRows, now>>

SubmitMessage(id, m, replyTo) ==
  \/ InsertMessage(id, m, replyTo)
  \/ ~Accepts(id, m) /\ UNCHANGED storeVars

-----------------------------------------------------------------------------
(* update_ack.  Any known status may follow any other.                     *)

(* Mutated form: a read message gets another delivery stamp.               *)
StampReadAsDelivered(ack, status, channel, error) ==
  [ack EXCEPT
     !.status = status,
     !.deliveredAt = IF status \in {"delivered", "read"} THEN now ELSE @,
     !.channel = IF status = "delivered" /\ channel # None THEN channel ELSE @,
     !.respondedAt = IF status = "responded" THEN now ELSE @,
     !.error = IF status \in {"failed", "expired"} THEN error ELSE @]

Stamp(ack, status, channel, error) ==
  [ack EXCEPT
     !.status = status,
     !.deliveredAt = IF status = "delivered" THEN now ELSE @,
     !.channel = IF status = "delivered" /\ channel # None THEN channel ELSE @,
     !.readAt = IF status = "read" THEN now ELSE @,
     !.respondedAt = IF status = "responded" THEN now ELSE @,
     !.error = IF status \in {"failed", "expired"} THEN error ELSE @]

UpdateAck(id, status, channel, error) ==
  \/ /\ acks[id] # None /\ status \in Statuses
     /\ acks' = [acks EXCEPT ![id] = Stamp(@, status, channel, error)]
     /\ UNCHANGED <<messages, threads, inbox, nodes, prefRows, now>>
  \/ ~(acks[id] # None /\ status \in Statuses) /\ UNCHANGED storeVars

-----------------------------------------------------------------------------
(* cache_preferences, register_node, write_agent_inbox, mark_inbox_read.   *)

CachePreferences(recipient, policy, ttl) ==
  /\ policy \in {"block", "allow"}
  /\ prefRows' = [prefRows EXCEPT ![recipient] = [cachedAt |-> now, ttl |-> ttl]]
  /\ UNCHANGED <<messages, threads, acks, inbox, nodes, now>>

(* Mutated form: a heartbeat writes the whole row anew.                    *)
RegisterNodeAnew(node) ==
  /\ nodes' = [nodes EXCEPT ![node] = [lastSeen |-> now, routed |-> 0]]
  /\ UNCHANGED <<messages, threads, acks, inbox, prefRows, now>>

RegisterNode(node) ==
  /\ nodes' = [nodes EXCEPT ![node] =
                 [lastSeen |-> now,
                  routed |-> IF nodes[node] = None THEN 0 ELSE nodes[node].routed]]
  /\ UNCHANGED <<messages, threads, acks, inbox, prefRows, now>>

(* Mutated form: a redelivery writes the entry again.                      *)
WriteAgentInboxAgain(id, recipient, sender) ==
  /\ inbox' = [inbox EXCEPT ![id] =
                 [recipient |-> recipient, sender |-> sender, read |-> FALSE]]
  /\ UNCHANGED <<messages, threads, acks, nodes, prefRows, now>>

WriteAgentInbox(id, recipient, sender) ==
  /\ inbox' = IF inbox[id] # None THEN inbox
              ELSE [inbox EXCEPT ![id] =
                      [recipient |-> recipient, sender |-> sender, read |-> FALSE]]
  /\ UNCHANGED <<messages, threads, acks, nodes, prefRows, now>>

MarkInboxRead(id) ==
  /\ inbox[id] # None
  /\ inbox' = [inbox EXCEPT ![id].read = TRUE]
  /\ UNCHANGED <<messages, threads, acks, nodes, prefRows, now>>

-----------------------------------------------------------------------------
(* expire_messages: one pass over acks, cached preferences and nodes.      *)

Elapsed(id) == messages[id] # None /\ messages[id].expiresAt < now

Overdue(id) ==
  /\ Elapsed(id)
  /\ acks[id] # None /\ acks[id].status \in {"pending", "delivered"}

StaleRow(recipient) ==
  /\ prefRows[recipient] # None
  /\ prefRows[recipient].cachedAt + prefRows[recipient].ttl < now

SilentNode(node) ==
  nodes[node] # None /\ now - nodes[node].lastSeen > NODE_TIMEOUT

(* Mutated form: it returns early when there is no ack to expire.          *)
ExpireMessagesOnlyAfterAcks ==
  /\ \E id \in MessageIds : Overdue(id)
  /\ acks' = [id \in MessageIds |->
                IF Overdue(id)
                THEN [acks[id] EXCEPT !.status = "expired", !.error = "TTL_ELAPSED"]
                ELSE acks[id]]
  /\ prefRows' = [r \in Recipients |-> IF StaleRow(r) THEN None ELSE prefRows[r]]
  /\ nodes' = [n \in Nodes |-> IF SilentNode(n) THEN None ELSE nodes[n]]
  /\ UNCHANGED <<messages, threads, inbox, now>>

ExpireMessages ==
  /\ acks' = [id \in MessageIds |->
                IF Overdue(id)
                THEN [acks[id] EXCEPT !.status = "expired", !.error = "TTL_ELAPSED"]
                ELSE acks[id]]
  /\ prefRows' = [r \in Recipients |-> IF StaleRow(r) THEN None ELSE prefRows[r]]
  /\ nodes' = [n \in Nodes |-> IF SilentNode(n) THEN None ELSE nodes[n]]
  /\ UNCHANGED <<messages, threads, inbox, now>>

(* Time passes (bound: MaxTime).                                           *)
Tick == now < MaxTime /\ now' = now + 1 /\ UNCHANGED tables

-----------------------------------------------------------------------------
(* The store with any callers.  Created-at times are the sender's: here    *)
(* the present or the past.                                                *)

AnySubmit ==
  \E id \in MessageIds, s \in Senders, r \in Recipients, n \in Nodes,
     created \in 0..now, life \in Lifetimes, replyTo \in MessageIds \cup {None} :
    SubmitMessage(id, [sender |-> s, recipient |-> r, createdAt |-> created,
                       expiresAt |-> created + life, node |-> n], replyTo)

AnyUpdateAck ==
  \E id \in MessageIds, status \in CallStatuses,
     channel \in CallChannels \cup {None}, error \in CallErrors \cup {None} :
    UpdateAck(id, status, channel, error)

AnyInboxCall ==
  \E id \in MessageIds :
    \/ \E r \in Recipients, s \in Senders : WriteAgentInbox(id, r, s)
    \/ MarkInboxRead(id)

StoreNext ==
  \/ AnySubmit
  \/ AnyUpdateAck
  \/ AnyInboxCall
  \/ \E r \in Recipients, policy \in {"block", "allow", "other"}, ttl \in PrefTtls :
       CachePreferences(r, policy, ttl)
  \/ \E n \in Nodes : RegisterNode(n)
  \/ ExpireMessages
  \/ Tick

StoreSpec == StoreInit /\ [][StoreNext]_storeVars

(* The routers call expire_messages every five minutes for ever, and time  *)
(* goes on.                                                                *)
FairStoreSpec ==
  StoreSpec /\ WF_storeVars(ExpireMessages) /\ WF_storeVars(Tick)
=============================================================================
