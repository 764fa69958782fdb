--------------------------- MODULE StoreProperties ---------------------------
(***************************************************************************)
(* What must hold of the federation store whoever calls its reducers.      *)
(***************************************************************************)
EXTENDS Store

(* Type invariant of the tables.                                           *)
StoreTypeOK ==
  /\ messages \in [MessageIds -> Messages \cup {None}]
  /\ threads \in [MessageIds -> MessageIds \cup {None}]
  /\ acks \in [MessageIds -> Acks \cup {None}]
  /\ inbox \in [MessageIds -> InboxEntries \cup {None}]
  /\ nodes \in [Nodes -> NodeRows \cup {None}]
  /\ prefRows \in [Recipients -> PrefRows \cup {None}]
  /\ now \in Times

(* A message and its ack are born together and neither is ever deleted: a  *)
(* status query answers for exactly the recorded messages, and a thread    *)
(* link belongs to a recorded message.                                     *)
RowsTogether ==
  \A id \in MessageIds :
    /\ messages[id] # None <=> acks[id] # None
    /\ threads[id] # None => messages[id] # None

(* messages_routed never counts a message twice or one that was refused:   *)
(* duplicates and late submissions leave it alone, and eviction can only   *)
(* lose counts.                                                            *)
CountersWithinRows ==
  \A n \in Nodes : nodes[n] # None =>
    nodes[n].routed <=
      Cardinality({id \in MessageIds : messages[id] # None /\ messages[id].node = n})

(* The status and the time stamps of an ack tell one story: whoever sets   *)
(* a status also stamps it.                                                *)
StampsMatchStatus ==
  \A id \in MessageIds : acks[id] # None =>
    LET ack == acks[id]
    IN  /\ ack.status = "delivered" => ack.deliveredAt # None
        /\ ack.status = "read" => ack.readAt # None
        /\ ack.status = "responded" => ack.respondedAt # None

(* History is only ever added to.  A second submission under a known id    *)
(* does not touch the first row, its ack or its thread; an inbox entry is  *)
(* written once and never becomes unread; no delivery time is erased, not  *)
(* even by the sweep.                                                      *)
HistoryKept ==
  [][\A id \in MessageIds :
       /\ messages[id] # None =>
            messages'[id] = messages[id] /\ threads'[id] = threads[id]
       /\ acks[id] # None /\ acks[id].deliveredAt # None =>
            acks'[id] # None /\ acks'[id].deliveredAt # None
       /\ inbox[id] # None =>
            /\ inbox'[id] # None
            /\ inbox'[id].sender = inbox[id].sender
            /\ inbox[id].read => inbox'[id].read]_storeVars

(* A node that keeps beating is never evicted: the sweep removes a node    *)
(* only when its last heartbeat is older than the limit, and only then     *)
(* does its counter start again.                                           *)
LiveNodesStay ==
  [][\A n \in Nodes :
       nodes[n] # None /\ now - nodes[n].lastSeen <= NODE_TIMEOUT =>
         nodes'[n] # None /\ nodes'[n].routed >= nodes[n].routed]_storeVars

(* The periodic sweep catches up, whatever the callers do between two of   *)
(* its runs: a message whose time ran out before it was delivered does not *)
(* stay pending for ever, nor does a cached preference outlive its ttl for *)
(* ever, nor does a node that fell silent stay listed for ever.            *)
Undelivered(id) == Elapsed(id) /\ acks[id] # None /\ acks[id].status = "pending"

SweepCatchesUp ==
  /\ \A id \in MessageIds : Undelivered(id) ~> ~Undelivered(id)
  /\ \A r \in Recipients : StaleRow(r) ~> ~StaleRow(r)
  /\ \A n \in Nodes : SilentNode(n) ~> ~SilentNode(n)
=============================================================================
