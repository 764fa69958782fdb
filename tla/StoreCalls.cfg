\* One message, every reducer, every ack transition a caller can ask for.
CONSTANTS
  MessageIds = {m1}
  Senders = {s1}
  Recipients = {r1}
  Nodes = {n1}
  None = None
  CallStatuses <- MCAllStatuses
  CallChannels = {"webhook"}
  CallErrors = {"WEBHOOK_HTTP_500"}
  Lifetimes = {1}
  PrefTtls = {0}
  NODE_TIMEOUT = 1
  MaxTime = 2
SPECIFICATION FairStoreSpec
INVARIANTS
  StampsMatchStatus
  RowsTogether
  CountersWithinRows
PROPERTIES
  HistoryKept
  LiveNodesStay
  SweepCatchesUp
