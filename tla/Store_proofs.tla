----------------------------- MODULE Store_proofs -----------------------------
(***************************************************************************)
(* Proofs about the federation store, for any callers, any number of       *)
(* messages and nodes, any lifetimes and any end of the clock.             *)
(***************************************************************************)
EXTENDS StoreProperties, FiniteSetTheorems, TLAPS

(* Stamping a well-formed ack with a known status gives a well-formed ack. *)
LEMMA StampTyped ==
  ASSUME NEW ack \in Acks, NEW status \in Statuses,
         NEW channel \in CallChannels \cup {None},
         NEW error \in CallErrors \cup {None}, now \in Times
  PROVE  Stamp(ack, status, channel, error) \in Acks
  BY DEF Acks, Stamp

(* Closing an ack by the sweep gives a well-formed ack that keeps its time *)
(* stamps.                                                                 *)
LEMMA ExpiryTyped ==
  ASSUME NEW ack \in Acks
  PROVE  LET new == [ack EXCEPT !.status = "expired", !.error = "TTL_ELAPSED"]
         IN  new \in Acks /\ new.deliveredAt = ack.deliveredAt
             /\ new.readAt = ack.readAt /\ new.respondedAt = ack.respondedAt
             /\ new.status = "expired"
  BY DEF Acks, Statuses

(* A submitted row is a row of the table.                                  *)
LEMMA RowTyped ==
  ASSUME NEW s \in Senders, NEW r \in Recipients, NEW n \in Nodes,
         now \in Times, NEW created \in 0..now, NEW life \in Lifetimes
  PROVE  [sender |-> s, recipient |-> r, createdAt |-> created,
          expiresAt |-> created + life, node |-> n] \in Messages
  BY StoreAssumption DEF Messages, Times

-----------------------------------------------------------------------------
(* Each reducer keeps the types of the tables.                             *)

LEMMA InsertTyped ==
  ASSUME StoreTypeOK, NEW id \in MessageIds, NEW m \in Messages,
         NEW replyTo \in MessageIds \cup {None}, InsertMessage(id, m, replyTo)
  PROVE  StoreTypeOK'
  <1>1. messages' \in [MessageIds -> Messages \cup {None}]
    BY DEF StoreTypeOK, InsertMessage
  <1>2. threads' \in [MessageIds -> MessageIds \cup {None}]
    BY DEF StoreTypeOK, InsertMessage
  <1>3. PendingAck \in Acks
    BY DEF PendingAck, Acks, Statuses
  <1>4. acks' \in [MessageIds -> Acks \cup {None}]
    BY <1>3 DEF StoreTypeOK, InsertMessage
  <1>5. nodes' \in [Nodes -> NodeRows \cup {None}]
    BY DEF StoreTypeOK, InsertMessage, NodeRows, Messages
  <1> QED BY <1>1, <1>2, <1>4, <1>5 DEF StoreTypeOK, InsertMessage

LEMMA UpdateAckTyped ==
  ASSUME StoreTypeOK, NEW id \in MessageIds, NEW status,
         NEW channel \in CallChannels \cup {None},
         NEW error \in CallErrors \cup {None},
         UpdateAck(id, status, channel, error)
  PROVE  StoreTypeOK'
  <1>1. CASE acks[id] # None /\ status \in Statuses
    <2>1. Stamp(acks[id], status, channel, error) \in Acks
      BY <1>1, StampTyped DEF StoreTypeOK
    <2> QED BY <1>1, <2>1 DEF StoreTypeOK, UpdateAck
  <1>2. CASE ~(acks[id] # None /\ status \in Statuses)
    BY <1>2 DEF StoreTypeOK, UpdateAck, storeVars, tables
  <1> QED BY <1>1, <1>2

LEMMA ExpireTyped ==
  ASSUME StoreTypeOK, ExpireMessages
  PROVE  StoreTypeOK'
  <1>1. \A id \in MessageIds : acks'[id] \in Acks \cup {None}
    <2> TAKE id \in MessageIds
    <2>1. CASE Overdue(id)
      <3>1. acks[id] \in Acks
        BY <2>1 DEF StoreTypeOK, Overdue
      <3> QED BY <2>1, <3>1, ExpiryTyped DEF ExpireMessages
    <2>2. CASE ~Overdue(id)
      BY <2>2 DEF StoreTypeOK, ExpireMessages
    <2> QED BY <2>1, <2>2
  <1>2. acks' \in [MessageIds -> Acks \cup {None}]
    BY <1>1 DEF ExpireMessages
  <1>3. prefRows' \in [Recipients -> PrefRows \cup {None}]
    BY DEF StoreTypeOK, ExpireMessages
  <1>4. nodes' \in [Nodes -> NodeRows \cup {None}]
    BY DEF StoreTypeOK, ExpireMessages
  <1> QED BY <1>2, <1>3, <1>4 DEF StoreTypeOK, ExpireMessages

LEMMA SmallReducersTyped ==
  ASSUME StoreTypeOK,
         \/ AnyInboxCall
         \/ \E r \in Recipients, policy \in {"block", "allow", "other"},
               ttl \in PrefTtls : CachePreferences(r, policy, ttl)
         \/ \E n \in Nodes : RegisterNode(n)
         \/ Tick
  PROVE  StoreTypeOK'
  <1>1. ASSUME NEW id \in MessageIds, NEW r \in Recipients, NEW s \in Senders,
               WriteAgentInbox(id, r, s)
        PROVE  StoreTypeOK'
    BY <1>1 DEF StoreTypeOK, WriteAgentInbox, InboxEntries
  <1>2. ASSUME NEW id \in MessageIds, MarkInboxRead(id)
        PROVE  StoreTypeOK'
    BY <1>2 DEF StoreTypeOK, MarkInboxRead, InboxEntries
  <1>3. ASSUME NEW r \in Recipients, NEW policy, NEW ttl \in PrefTtls,
               CachePreferences(r, policy, ttl)
        PROVE  StoreTypeOK'
    BY <1>3 DEF StoreTypeOK, CachePreferences, PrefRows
  <1>4. ASSUME NEW n \in Nodes, RegisterNode(n)
        PROVE  StoreTypeOK'
    BY <1>4 DEF StoreTypeOK, RegisterNode, NodeRows
  <1>5. CASE Tick
    BY <1>5, StoreAssumption DEF StoreTypeOK, Tick, tables, Times
  <1> QED BY <1>1, <1>2, <1>3, <1>4, <1>5 DEF AnyInboxCall

(* One step of any caller keeps the types.                                 *)
LEMMA StoreNextTyped == StoreTypeOK /\ [StoreNext]_storeVars => StoreTypeOK'
  <1> SUFFICES ASSUME StoreTypeOK, [StoreNext]_storeVars PROVE StoreTypeOK'
    OBVIOUS
  <1>1. CASE UNCHANGED storeVars
    BY <1>1 DEF StoreTypeOK, storeVars, tables
  <1>2. CASE AnySubmit
    <2>1. now \in Times
      BY DEF StoreTypeOK
    <2> QED BY <1>1, <1>2, <2>1, RowTyped, InsertTyped DEF AnySubmit, SubmitMessage
  <1>3. CASE AnyUpdateAck
    BY <1>3, UpdateAckTyped DEF AnyUpdateAck
  <1>4. CASE ExpireMessages
    BY <1>4, ExpireTyped
  <1> QED BY <1>1, <1>2, <1>3, <1>4, SmallReducersTyped DEF StoreNext

(* Type correctness of the tables, whoever calls.                          *)
THEOREM StoreTypeCorrect == StoreSpec => []StoreTypeOK
  <1>1. StoreInit => StoreTypeOK
    BY StoreAssumption DEF StoreInit, StoreTypeOK, Times
  <1> QED BY <1>1, StoreNextTyped, PTL DEF StoreSpec

-----------------------------------------------------------------------------
(* What a step does to the rows of one message.  The definitions name the  *)
(* cases; RowsChange shows that there are no others.                       *)

Born(id) ==
  /\ messages[id] = None
  /\ messages'[id] \in Messages
  /\ acks'[id] = PendingAck

Stamped(id) ==
  \E status \in Statuses, channel \in CallChannels \cup {None},
     error \in CallErrors \cup {None} :
    acks'[id] = Stamp(acks[id], status, channel, error)

Closed(id) ==
  acks'[id] = [acks[id] EXCEPT !.status = "expired", !.error = "TTL_ELAPSED"]

Kept(id) ==
  /\ messages'[id] = messages[id]
  /\ threads'[id] = threads[id]
  /\ acks'[id] = acks[id] \/ (acks[id] # None /\ (Stamped(id) \/ Closed(id)))

(* A message's rows are born together, and afterwards only its ack         *)
(* changes: by update_ack or by the sweep.                                 *)
LEMMA RowsChange ==
  ASSUME StoreTypeOK, [StoreNext]_storeVars, NEW id \in MessageIds
  PROVE  Born(id) \/ Kept(id)
  <1>1. CASE AnySubmit
    <2>1. PICK i \in MessageIds, s \in Senders, r \in Recipients, n \in Nodes,
               created \in 0..now, life \in Lifetimes,
               replyTo \in MessageIds \cup {None} :
            SubmitMessage(i, [sender |-> s, recipient |-> r, createdAt |-> created,
                              expiresAt |-> created + life, node |-> n], replyTo)
      BY <1>1 DEF AnySubmit
    <2> DEFINE m == [sender |-> s, recipient |-> r, createdAt |-> created,
                     expiresAt |-> created + life, node |-> n]
    <2>2. m \in Messages
      BY RowTyped DEF StoreTypeOK
    <2> HIDE DEF m
    <2>3. CASE InsertMessage(i, m, replyTo) /\ i = id
      BY <2>2, <2>3 DEF InsertMessage, Accepts, StoreTypeOK, Born
    <2>4. CASE InsertMessage(i, m, replyTo) /\ i # id
      BY <2>4 DEF InsertMessage, StoreTypeOK, Kept
    <2>5. CASE UNCHANGED storeVars
      BY <2>5 DEF storeVars, tables, Kept
    <2> QED BY <2>1, <2>3, <2>4, <2>5 DEF SubmitMessage, m
  <1>2. CASE AnyUpdateAck
    <2>1. PICK i \in MessageIds, status \in CallStatuses,
               channel \in CallChannels \cup {None},
               error \in CallErrors \cup {None} :
            UpdateAck(i, status, channel, error)
      BY <1>2 DEF AnyUpdateAck
    <2>2. CASE acks[i] # None /\ status \in Statuses /\ i = id
      <3>1. acks' = [acks EXCEPT ![id] = Stamp(acks[id], status, channel, error)]
        BY <2>1, <2>2 DEF UpdateAck
      <3>2. acks'[id] = Stamp(acks[id], status, channel, error)
        BY <3>1 DEF StoreTypeOK
      <3>3. Stamped(id)
        BY <2>2, <3>2 DEF Stamped
      <3>4. messages' = messages /\ threads' = threads
        BY <2>1, <2>2 DEF UpdateAck
      <3> QED BY <2>2, <3>3, <3>4 DEF Kept
    <2>3. CASE i # id
      BY <2>1, <2>3 DEF UpdateAck, StoreTypeOK, Kept, storeVars, tables
    <2>4. CASE ~(acks[i] # None /\ status \in Statuses)
      BY <2>1, <2>4 DEF UpdateAck, Kept, storeVars, tables
    <2> QED BY <2>2, <2>3, <2>4
  <1>3. CASE ExpireMessages
    <2>1. messages' = messages /\ threads' = threads
      BY <1>3 DEF ExpireMessages
    <2>2. acks'[id] = acks[id] \/ (acks[id] # None /\ Closed(id))
      BY <1>3 DEF ExpireMessages, Overdue, Closed
    <2> QED BY <2>1, <2>2 DEF Kept
  <1>4. CASE UNCHANGED <<messages, threads, acks>>
    BY <1>4 DEF Kept
  <1> QED
    BY <1>1, <1>2, <1>3, <1>4
    DEF StoreNext, AnyInboxCall, WriteAgentInbox, MarkInboxRead,
        CachePreferences, RegisterNode, Tick, storeVars, tables

(* Stamping keeps what was stamped before and stamps what the status says. *)
LEMMA StampKeeps ==
  ASSUME NEW ack \in Acks, NEW status \in Statuses,
         NEW channel \in CallChannels \cup {None},
         NEW error \in CallErrors \cup {None}, now \in Times
  PROVE  LET new == Stamp(ack, status, channel, error)
         IN  /\ new.status = status
             /\ ack.deliveredAt # None => new.deliveredAt # None
             /\ status = "delivered" => new.deliveredAt # None
             /\ status = "read" => new.readAt # None
             /\ status = "responded" => new.respondedAt # None
  <1>1. now # None
    BY StoreAssumption DEF Times
  <1> QED BY <1>1 DEF Stamp, Acks

(* A message and its ack live together, for any callers and any number of  *)
(* messages.                                                               *)
THEOREM RowsStayTogether == StoreSpec => []RowsTogether
  <1>1. StoreInit => RowsTogether
    BY DEF StoreInit, RowsTogether
  <1>2. StoreTypeOK /\ StoreTypeOK' /\ RowsTogether /\ [StoreNext]_storeVars
          => RowsTogether'
    <2> SUFFICES ASSUME StoreTypeOK, StoreTypeOK', RowsTogether,
                        [StoreNext]_storeVars, NEW id \in MessageIds
                 PROVE  /\ messages'[id] # None <=> acks'[id] # None
                        /\ threads'[id] # None => messages'[id] # None
      BY DEF RowsTogether
    <2>1. CASE Born(id)
      <3>1. PendingAck \in Acks
        BY DEF PendingAck, Acks, Statuses
      <3> QED BY <2>1, <3>1, StoreAssumption DEF Born
    <2>2. CASE Kept(id)
      <3>1. acks[id] # None => acks'[id] # None
        <4> SUFFICES ASSUME acks[id] # None PROVE acks'[id] # None
          OBVIOUS
        <4>1. acks[id] \in Acks /\ now \in Times
          BY DEF StoreTypeOK
        <4>2. Stamped(id) => acks'[id] \in Acks
          BY <4>1, StampTyped DEF Stamped
        <4>3. Closed(id) => acks'[id] \in Acks
          BY <4>1, ExpiryTyped DEF Closed
        <4> QED BY <2>2, <4>2, <4>3, StoreAssumption DEF Kept
      <3> QED BY <2>2, <3>1 DEF Kept, RowsTogether
    <2> QED BY <2>1, <2>2, RowsChange
  <1> QED BY <1>1, <1>2, StoreTypeCorrect, PTL DEF StoreSpec

(* The status of an ack always has its time stamp.                         *)
THEOREM StampsAgree == StoreSpec => []StampsMatchStatus
  <1>1. StoreInit => StampsMatchStatus
    BY DEF StoreInit, StampsMatchStatus
  <1>2. StoreTypeOK /\ StampsMatchStatus /\ [StoreNext]_storeVars
          => StampsMatchStatus'
    <2> SUFFICES ASSUME StoreTypeOK, StampsMatchStatus, [StoreNext]_storeVars,
                        NEW id \in MessageIds, acks'[id] # None
                 PROVE  /\ acks'[id].status = "delivered" => acks'[id].deliveredAt # None
                        /\ acks'[id].status = "read" => acks'[id].readAt # None
                        /\ acks'[id].status = "responded" => acks'[id].respondedAt # None
      BY DEF StampsMatchStatus
    <2>1. CASE Born(id)
      BY <2>1 DEF Born, PendingAck
    <2>2. CASE acks'[id] = acks[id]
      BY <2>2 DEF StampsMatchStatus
    <2>3. CASE acks[id] # None /\ Stamped(id)
      <3>1. PICK status \in Statuses, channel \in CallChannels \cup {None},
                 error \in CallErrors \cup {None} :
              acks'[id] = Stamp(acks[id], status, channel, error)
        BY <2>3 DEF Stamped
      <3>2. acks[id] \in Acks /\ now \in Times
        BY <2>3 DEF StoreTypeOK
      <3> QED BY <3>1, <3>2, StampKeeps
    <2>4. CASE acks[id] # None /\ Closed(id)
      BY <2>4, ExpiryTyped DEF Closed, StoreTypeOK
    <2> QED BY <2>1, <2>2, <2>3, <2>4, RowsChange DEF Kept
  <1> QED BY <1>1, <1>2, StoreTypeCorrect, PTL DEF StoreSpec

-----------------------------------------------------------------------------
(* The inbox entries: written once, never unread again.                    *)

EntryKept(id) ==
  inbox[id] # None =>
    /\ inbox'[id] # None
    /\ inbox'[id].sender = inbox[id].sender
    /\ inbox[id].read => inbox'[id].read

LEMMA EntriesKept ==
  ASSUME StoreTypeOK, [StoreNext]_storeVars, NEW id \in MessageIds
  PROVE  EntryKept(id)
  <1>1. ASSUME NEW i \in MessageIds, NEW r \in Recipients, NEW s \in Senders,
               WriteAgentInbox(i, r, s)
        PROVE  inbox[id] # None => inbox'[id] = inbox[id]
    BY <1>1 DEF WriteAgentInbox, StoreTypeOK
  <1>2. ASSUME NEW i \in MessageIds, MarkInboxRead(i)
        PROVE  EntryKept(id)
    <2>1. CASE i = id
      <3>1. inbox[id] \in InboxEntries
        BY <1>2, <2>1 DEF MarkInboxRead, StoreTypeOK
      <3>2. inbox'[id] = [inbox[id] EXCEPT !.read = TRUE]
        BY <1>2, <2>1 DEF MarkInboxRead, StoreTypeOK
      <3>3. /\ inbox'[id] \in InboxEntries /\ inbox'[id].read
            /\ inbox'[id].sender = inbox[id].sender
        BY <3>1, <3>2 DEF InboxEntries
      <3> QED BY <3>3, StoreAssumption DEF EntryKept
    <2>2. CASE i # id
      <3>1. inbox'[id] = inbox[id]
        BY <1>2, <2>2 DEF MarkInboxRead, StoreTypeOK
      <3> QED BY <3>1 DEF EntryKept
    <2> QED BY <2>1, <2>2
  <1>3. inbox' = inbox => EntryKept(id)
    BY DEF EntryKept
  <1>4. CASE AnySubmit \/ AnyUpdateAck
    <2>1. ASSUME NEW i, NEW m, NEW replyTo, SubmitMessage(i, m, replyTo)
          PROVE  inbox' = inbox
      BY <2>1 DEF SubmitMessage, InsertMessage, storeVars, tables
    <2>2. ASSUME NEW i, NEW status, NEW channel, NEW error,
                 UpdateAck(i, status, channel, error)
          PROVE  inbox' = inbox
      BY <2>2 DEF UpdateAck, storeVars, tables
    <2> QED BY <1>3, <1>4, <2>1, <2>2 DEF AnySubmit, AnyUpdateAck
  <1>5. CASE AnyInboxCall
    BY <1>1, <1>2, <1>5 DEF AnyInboxCall, EntryKept
  <1>6. CASE UNCHANGED inbox
    BY <1>3, <1>6
  <1> QED
    BY <1>4, <1>5, <1>6
    DEF StoreNext, ExpireMessages, CachePreferences, RegisterNode, Tick,
        storeVars, tables

(* History is only added to, for any callers, any messages and any clock:  *)
(* no step rewrites a row or its thread, erases a delivery time, or makes  *)
(* an inbox entry unread.  It rests on RowsTogether: a submission writes   *)
(* a fresh ack, and only because a message that has an ack has a row is    *)
(* that never an overwrite.                                                *)
THEOREM HistoryIsKept == StoreSpec => HistoryKept
  <1>1. StoreTypeOK /\ RowsTogether /\ [StoreNext]_storeVars =>
          [\A id \in MessageIds :
             /\ messages[id] # None =>
                  messages'[id] = messages[id] /\ threads'[id] = threads[id]
             /\ acks[id] # None /\ acks[id].deliveredAt # None =>
                  acks'[id] # None /\ acks'[id].deliveredAt # None
             /\ inbox[id] # None =>
                  /\ inbox'[id] # None
                  /\ inbox'[id].sender = inbox[id].sender
                  /\ inbox[id].read => inbox'[id].read]_storeVars
    <2> SUFFICES
          ASSUME StoreTypeOK, RowsTogether, [StoreNext]_storeVars,
                 NEW id \in MessageIds
          PROVE  /\ messages[id] # None =>
                      messages'[id] = messages[id] /\ threads'[id] = threads[id]
                 /\ acks[id] # None /\ acks[id].deliveredAt # None =>
                      acks'[id] # None /\ acks'[id].deliveredAt # None
                 /\ EntryKept(id)
      BY DEF EntryKept
    <2>1. messages[id] # None =>
            messages'[id] = messages[id] /\ threads'[id] = threads[id]
      BY RowsChange DEF Born, Kept
    <2>2. ASSUME acks[id] # None, acks[id].deliveredAt # None
          PROVE  acks'[id] # None /\ acks'[id].deliveredAt # None
      <3>1. acks[id] \in Acks /\ now \in Times
        BY <2>2 DEF StoreTypeOK
      <3>2. CASE Stamped(id)
        <4>1. PICK status \in Statuses, channel \in CallChannels \cup {None},
                   error \in CallErrors \cup {None} :
                acks'[id] = Stamp(acks[id], status, channel, error)
          BY <3>2 DEF Stamped
        <4>2. acks'[id] \in Acks
          BY <3>1, <4>1, StampTyped
        <4>3. acks'[id].deliveredAt # None
          BY <2>2, <3>1, <4>1, StampKeeps
        <4> QED BY <4>2, <4>3, StoreAssumption
      <3>3. CASE Closed(id)
        BY <2>2, <3>1, <3>3, ExpiryTyped, StoreAssumption DEF Closed
      <3>4. CASE acks'[id] = acks[id]
        BY <2>2, <3>4
      <3>5. CASE Born(id)
        BY <2>2, <3>5 DEF Born, RowsTogether
      <3> QED BY <3>2, <3>3, <3>4, <3>5, RowsChange DEF Kept
    <2> QED BY <2>1, <2>2, EntriesKept
  <1> QED BY <1>1, StoreTypeCorrect, RowsStayTogether, PTL DEF StoreSpec, HistoryKept

-----------------------------------------------------------------------------
(* The nodes and their counters.                                           *)

(* Whatever a step does to a node that has beaten recently, the node stays *)
(* and its counter does not fall.                                          *)
THEOREM LiveNodesRemain == StoreSpec => LiveNodesStay
  <1>1. StoreTypeOK /\ [StoreNext]_storeVars =>
          [\A n \in Nodes :
             nodes[n] # None /\ now - nodes[n].lastSeen <= NODE_TIMEOUT =>
               nodes'[n] # None /\ nodes'[n].routed >= nodes[n].routed]_storeVars
    <2> SUFFICES
          ASSUME StoreTypeOK, [StoreNext]_storeVars, NEW n \in Nodes,
                 nodes[n] # None, now - nodes[n].lastSeen <= NODE_TIMEOUT
          PROVE  nodes'[n] # None /\ nodes'[n].routed >= nodes[n].routed
      OBVIOUS
    <2>1. nodes[n] \in NodeRows /\ nodes[n].routed \in Nat /\ now \in Times
      BY DEF StoreTypeOK, NodeRows
    <2>2. nodes'[n] = nodes[n] => nodes'[n] # None /\ nodes'[n].routed >= nodes[n].routed
      BY <2>1
    <2>3. ASSUME NEW id, NEW m \in Messages, NEW replyTo, InsertMessage(id, m, replyTo)
          PROVE  nodes'[n] # None /\ nodes'[n].routed >= nodes[n].routed
      <3>1. CASE nodes[m.node] # None /\ m.node = n
        <4>1. nodes'[n] = [nodes[n] EXCEPT !.routed = @ + 1]
          BY <2>3, <3>1 DEF InsertMessage, StoreTypeOK
        <4>2. nodes'[n] \in NodeRows /\ nodes'[n].routed = nodes[n].routed + 1
          BY <2>1, <4>1 DEF NodeRows
        <4> QED BY <2>1, <4>2, StoreAssumption
      <3>2. CASE ~(nodes[m.node] # None /\ m.node = n)
        <4>1. nodes'[n] = nodes[n]
          BY <2>3, <3>2 DEF InsertMessage, StoreTypeOK
        <4> QED BY <2>2, <4>1
      <3> QED BY <3>1, <3>2
    <2>4. CASE AnySubmit
      <3>1. CASE UNCHANGED nodes
        BY <2>2, <3>1
      <3>2. now \in Times
        BY DEF StoreTypeOK
      <3> QED
        BY <2>3, <2>4, <3>1, <3>2, RowTyped DEF AnySubmit, SubmitMessage, storeVars, tables
    <2>5. ASSUME NEW k \in Nodes, RegisterNode(k)
          PROVE  nodes'[n] # None /\ nodes'[n].routed >= nodes[n].routed
      <3>1. CASE k = n
        <4>1. nodes'[n] = [lastSeen |-> now, routed |-> nodes[n].routed]
          BY <2>5, <3>1 DEF RegisterNode, StoreTypeOK
        <4>2. nodes'[n] \in NodeRows /\ nodes'[n].routed = nodes[n].routed
          BY <2>1, <4>1 DEF NodeRows
        <4> QED BY <2>1, <4>2, StoreAssumption
      <3>2. CASE k # n
        <4>1. nodes'[n] = nodes[n]
          BY <2>5, <3>2 DEF RegisterNode, StoreTypeOK
        <4> QED BY <2>2, <4>1
      <3> QED BY <3>1, <3>2
    <2>6. CASE ExpireMessages
      <3>1. ~(now - nodes[n].lastSeen > NODE_TIMEOUT)
        BY <2>1, StoreAssumption DEF NodeRows, Times
      <3>2. nodes'[n] = nodes[n]
        BY <2>6, <3>1 DEF ExpireMessages, SilentNode
      <3> QED BY <2>2, <3>2
    <2>7. CASE UNCHANGED nodes
      BY <2>2, <2>7
    <2> QED
      BY <2>4, <2>5, <2>6, <2>7
      DEF StoreNext, AnyUpdateAck, UpdateAck, AnyInboxCall, WriteAgentInbox,
          MarkInboxRead, CachePreferences, Tick, storeVars, tables
  <1> QED BY <1>1, StoreTypeCorrect, PTL DEF StoreSpec, LiveNodesStay

(* The messages a node has routed, and the strengthening of                *)
(* CountersWithinRows that is inductive: a count of a set bounds a counter *)
(* only while the set is finite.                                           *)
RoutedBy(n) == {id \in MessageIds : messages[id] # None /\ messages[id].node = n}

CountersInv ==
  \A n \in Nodes :
    /\ IsFiniteSet(RoutedBy(n))
    /\ nodes[n] # None => nodes[n].routed <= Cardinality(RoutedBy(n))

(* A step that leaves the messages alone and raises no counter.            *)
LEMMA CountersLeft ==
  ASSUME StoreTypeOK, CountersInv, messages' = messages,
         \A n \in Nodes : nodes'[n] # None =>
            \/ nodes'[n].routed = 0
            \/ nodes[n] # None /\ nodes'[n].routed = nodes[n].routed
  PROVE  CountersInv'
  <1> SUFFICES ASSUME NEW n \in Nodes
               PROVE  /\ IsFiniteSet(RoutedBy(n)')
                      /\ nodes'[n] # None => nodes'[n].routed <= Cardinality(RoutedBy(n)')
    BY DEF CountersInv
  <1>1. RoutedBy(n)' = RoutedBy(n)
    BY DEF RoutedBy
  <1>2. IsFiniteSet(RoutedBy(n)) /\ Cardinality(RoutedBy(n)) \in Nat
    BY FS_CardinalityType DEF CountersInv
  <1>3. 0 <= Cardinality(RoutedBy(n))
    BY <1>2
  <1> QED BY <1>1, <1>2, <1>3 DEF CountersInv

(* A new message raises its node's counter and its node's set by one.      *)
LEMMA CountersRaised ==
  ASSUME StoreTypeOK, CountersInv, NEW id \in MessageIds, NEW m \in Messages,
         NEW replyTo, InsertMessage(id, m, replyTo)
  PROVE  CountersInv'
  <1> SUFFICES ASSUME NEW n \in Nodes
               PROVE  /\ IsFiniteSet(RoutedBy(n)')
                      /\ nodes'[n] # None => nodes'[n].routed <= Cardinality(RoutedBy(n)')
    BY DEF CountersInv
  <1>1. IsFiniteSet(RoutedBy(n)) /\ Cardinality(RoutedBy(n)) \in Nat
    BY FS_CardinalityType DEF CountersInv
  <1>2. messages[id] = None /\ messages' = [messages EXCEPT ![id] = m]
    BY DEF InsertMessage, Accepts
  <1>3. CASE m.node = n
    <2>1. RoutedBy(n)' = RoutedBy(n) \cup {id} /\ id \notin RoutedBy(n)
      BY <1>2, <1>3, StoreAssumption DEF RoutedBy, StoreTypeOK
    <2>2. /\ IsFiniteSet(RoutedBy(n)')
          /\ Cardinality(RoutedBy(n)') = Cardinality(RoutedBy(n)) + 1
      BY <1>1, <2>1, FS_AddElement
    <2>3. ASSUME nodes'[n] # None
          PROVE  nodes'[n].routed <= Cardinality(RoutedBy(n)) + 1
      <3>1. nodes[n] # None
        BY <1>3, <2>3 DEF InsertMessage
      <3>2. nodes[n] \in NodeRows
        BY <3>1 DEF StoreTypeOK
      <3>3. nodes'[n] = [nodes[n] EXCEPT !.routed = @ + 1]
        BY <1>3, <3>1 DEF InsertMessage, StoreTypeOK
      <3>4. nodes'[n].routed = nodes[n].routed + 1 /\ nodes[n].routed \in Nat
        BY <3>2, <3>3 DEF NodeRows
      <3>5. nodes[n].routed <= Cardinality(RoutedBy(n))
        BY <3>1 DEF CountersInv
      <3> QED BY <1>1, <3>4, <3>5
    <2> QED BY <2>2, <2>3
  <1>4. CASE m.node # n
    <2>1. RoutedBy(n)' = RoutedBy(n)
      BY <1>2, <1>4 DEF RoutedBy, StoreTypeOK
    <2>2. nodes'[n] = nodes[n]
      BY <1>4 DEF InsertMessage, StoreTypeOK
    <2> QED BY <2>1, <2>2 DEF CountersInv
  <1> QED BY <1>3, <1>4

(* No node's counter exceeds the number of messages recorded for it, with  *)
(* any number of messages and nodes: duplicates and late submissions never *)
(* count.                                                                  *)
THEOREM CountersBounded == StoreSpec => []CountersWithinRows
  <1>1. StoreInit => CountersInv
    <2> SUFFICES ASSUME StoreInit, NEW n \in Nodes
                 PROVE  IsFiniteSet(RoutedBy(n)) /\ nodes[n] = None
      BY DEF CountersInv
    <2>1. RoutedBy(n) = {}
      BY DEF StoreInit, RoutedBy
    <2> QED BY <2>1, FS_EmptySet DEF StoreInit
  <1>2. StoreTypeOK /\ CountersInv /\ [StoreNext]_storeVars => CountersInv'
    <2> SUFFICES ASSUME StoreTypeOK, CountersInv, [StoreNext]_storeVars
                 PROVE  CountersInv'
      OBVIOUS
    <2>1. CASE UNCHANGED <<messages, nodes>>
      BY <2>1, CountersLeft
    <2>2. CASE AnySubmit
      <3>1. CASE UNCHANGED storeVars
        BY <2>1, <3>1 DEF storeVars, tables
      <3>2. now \in Times
        BY DEF StoreTypeOK
      <3> QED BY <2>2, <3>1, <3>2, RowTyped, CountersRaised DEF AnySubmit, SubmitMessage
    <2>3. ASSUME NEW k \in Nodes, RegisterNode(k)
          PROVE  CountersInv'
      <3>1. \A n \in Nodes : nodes'[n] # None =>
              \/ nodes'[n].routed = 0
              \/ nodes[n] # None /\ nodes'[n].routed = nodes[n].routed
        BY <2>3 DEF RegisterNode, StoreTypeOK
      <3> QED BY <2>3, <3>1, CountersLeft DEF RegisterNode
    <2>4. CASE ExpireMessages
      <3>1. \A n \in Nodes : nodes'[n] # None =>
              nodes[n] # None /\ nodes'[n].routed = nodes[n].routed
        BY <2>4 DEF ExpireMessages
      <3> QED BY <2>4, <3>1, CountersLeft DEF ExpireMessages
    <2> QED
      BY <2>1, <2>2, <2>3, <2>4
      DEF StoreNext, AnyUpdateAck, UpdateAck, AnyInboxCall, WriteAgentInbox,
          MarkInboxRead, CachePreferences, Tick, storeVars, tables
  <1>3. CountersInv => CountersWithinRows
    BY DEF CountersInv, CountersWithinRows, RoutedBy
  <1> QED BY <1>1, <1>2, <1>3, StoreTypeCorrect, PTL DEF StoreSpec
=============================================================================
