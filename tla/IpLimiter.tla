------------------------------- MODULE IpLimiter -------------------------------
(***************************************************************************)
(* The per-address limiter every request to a router passes first          *)
(* (router/router-node/src/middleware/rateLimit.ts): a bucket per address  *)
(* that counts the requests of a window, and a timer that prunes buckets   *)
(* nobody has used for long.                                               *)
(***************************************************************************)
EXTENDS RouterClock, FiniteSets

CONSTANTS
  Addresses,       \* client addresses
  WINDOW,          \* WINDOW_MS: one minute
  MAX_REQUESTS     \* 200 per window

ASSUME LimiterAssumption ==
  /\ WINDOW \in Nat /\ MAX_REQUESTS \in Nat \ {0}
  /\ IsFiniteSet(Requests)
  /\ None \notin Addresses \cup Nat /\ None \notin [count : Nat, windowStart : Nat]

VARIABLES
  buckets,    \* buckets: address -> count and windowStart, or None
  source,     \* request -> the address it came from, or None
  letIn       \* ghost: request -> when this process let it in, or None

limiterVars == <<buckets, source, letIn>>

LimiterInit ==
  /\ buckets = [a \in Addresses |-> None]
  /\ source = [r \in Requests |-> None]
  /\ letIn = [r \in Requests |-> None]

(* Mutated form: a window ends one moment too early.                       *)
NeedsNewBucketEarly(a) == buckets[a] # None => now - buckets[a].windowStart >= WINDOW

NeedsNewBucket(a) == buckets[a] # None => now - buckets[a].windowStart > WINDOW

LetIn(r, a) ==
  /\ source' = [source EXCEPT ![r] = a]
  /\ letIn' = [letIn EXCEPT ![r] = now]

OpenWindow(r, a) ==
  /\ NeedsNewBucket(a)
  /\ buckets' = [buckets EXCEPT ![a] = [count |-> 1, windowStart |-> now]]
  /\ LetIn(r, a)

Counted(a) == buckets' = [buckets EXCEPT ![a].count = @ + 1]

(* Mutated form: the request that exceeds the maximum is let in.           *)
CountInOffByOne(r, a) ==
  /\ ~NeedsNewBucket(a)
  /\ buckets[a].count <= MAX_REQUESTS
  /\ Counted(a)
  /\ LetIn(r, a)

CountIn(r, a) ==
  /\ ~NeedsNewBucket(a)
  /\ buckets[a].count + 1 <= MAX_REQUESTS
  /\ Counted(a)
  /\ LetIn(r, a)

(* 429.  A refused request counts as well.                                 *)
TurnAway(r, a) ==
  /\ ~NeedsNewBucket(a)
  /\ buckets[a].count + 1 > MAX_REQUESTS
  /\ Counted(a)
  /\ source' = [source EXCEPT ![r] = a]
  /\ UNCHANGED letIn

(* Mutated form: every bucket is pruned.                                   *)
PruneAll == buckets' = [a \in Addresses |-> None] /\ UNCHANGED <<source, letIn>>

(* The pruning timer; when it fires is independent of the windows.         *)
Prune ==
  /\ buckets' = [a \in Addresses |->
                   IF buckets[a] # None /\ now - buckets[a].windowStart > 2 * WINDOW
                   THEN None ELSE buckets[a]]
  /\ UNCHANGED <<source, letIn>>

(* The process is started again: its buckets are gone, and what was let in *)
(* before is not its doing.                                                *)
ForgetBuckets ==
  /\ buckets' = [a \in Addresses |-> None]
  /\ letIn' = [r \in Requests |-> None]
  /\ UNCHANGED source
=============================================================================
