------------------------------- MODULE FrontDoor -------------------------------
(***************************************************************************)
(* What a router process remembers of its clients between requests, and    *)
(* forgets when it is started again: the buckets of the per-address        *)
(* limiter and the answers of the threat feed.  A request passes the       *)
(* limiter first; the steps of a send between it and the threat check      *)
(* (Router) may take any time and may refuse the request.                  *)
(***************************************************************************)
EXTENDS IpLimiter, ThreatFeed

CONSTANT MaxRestarts    \* bound on restarts of the process

ASSUME RestartAssumption == MaxRestarts \in Nat

VARIABLE restarts

vars == <<limiterVars, feedVars, restarts, now>>

Init == LimiterInit /\ FeedInit /\ restarts = 0 /\ now = 0

(* index.ts: app.use(rateLimitMiddleware) comes before the routes.         *)
Arrive(r, a) ==
  /\ source[r] = None
  /\ OpenWindow(r, a) \/ CountIn(r, a) \/ TurnAway(r, a)
  /\ UNCHANGED <<feedVars, restarts, now>>

(* Step 6 of a send, for a request the limiter let in.                     *)
Check(r, did) ==
  /\ letIn[r] # None
  /\ CheckCached(r, did) \/ CheckSkipped(r, did) \/ AskFeed(r, did)
  /\ UNCHANGED <<limiterVars, restarts, now>>

Answer(r) ==
  /\ FeedAnswers(r) \/ FeedFails(r)
  /\ UNCHANGED <<limiterVars, restarts, now>>

PruneTimer == Prune /\ UNCHANGED <<feedVars, restarts, now>>

FeedChanges(did) == Relist(did) /\ UNCHANGED <<limiterVars, restarts, now>>

Restart ==
  /\ restarts < MaxRestarts
  /\ restarts' = restarts + 1
  /\ ForgetBuckets /\ ForgetAnswers
  /\ UNCHANGED now

(* Time passes (bound: MaxTime), but no query outlives its timeout.        *)
Clock ==
  /\ now < MaxTime /\ QueriesInTime
  /\ now' = now + 1
  /\ UNCHANGED <<limiterVars, feedVars, restarts>>

Next ==
  \/ \E r \in Requests, a \in Addresses : Arrive(r, a)
  \/ \E r \in Requests, d \in Dids : Check(r, d)
  \/ \E r \in Requests : Answer(r)
  \/ \E d \in Dids : FeedChanges(d)
  \/ PruneTimer \/ Restart \/ Clock

Spec == Init /\ [][Next]_vars

-----------------------------------------------------------------------------
(* Type invariant.                                                         *)
FrontDoorTypeOK ==
  /\ buckets \in [Addresses -> [count : Nat, windowStart : Nat] \cup {None}]
  /\ source \in [Requests -> Addresses \cup {None}]
  /\ letIn \in [Requests -> Nat \cup {None}]
  /\ configured \in BOOLEAN
  /\ listed \in [Dids -> BOOLEAN] /\ since \in [Dids -> Nat] /\ listings \in Nat
  /\ threatCache \in [Dids -> [blocked : BOOLEAN, expires : Nat] \cup {None}]
  /\ check \in [Requests -> Checks]
  /\ \A r \in Requests : check[r].pc \in {"asked", "done"} => check[r].did \in Dids
  /\ restarts \in Nat /\ now \in Nat

(* rateLimit.ts: "per IP per window".  Since the window of an address      *)
(* began, this process let in at most MAX_REQUESTS of its requests, also   *)
(* when the pruning timer fires in between.                                *)
LetInSince(a, t) ==
  {r \in Requests : source[r] = a /\ letIn[r] # None /\ letIn[r] >= t}

WindowWithinMax ==
  \A a \in Addresses : buckets[a] # None =>
    Cardinality(LetInSince(a, buckets[a].windowStart)) <= MAX_REQUESTS

(* Windows begin where a client's requests fall, so a client can spend two *)
(* windows in one, but for the request that opened the first of them: no   *)
(* span of a window's length has twice the maximum.                        *)
SpanWithinTwiceMax ==
  \A a \in Addresses, t \in 0..MaxTime :
    Cardinality({r \in LetInSince(a, t) : letIn[r] <= t + WINDOW}) < 2 * MAX_REQUESTS

(* nullcone.ts: "5 minutes for clean DIDs, 1 minute for blocked DIDs".  A  *)
(* verdict on the feed's word differs from the feed only for that long,    *)
(* and the life of a query, after the feed changed: although an answer     *)
(* from before the change may be cached after it and over a newer one.     *)
Answers(r) ==
  check[r].pc # "done" /\ check'[r].pc = "done" /\ check'[r].from \in {"cache", "feed"}

FeedChangesAreSeen ==
  [][\A r \in Requests : Answers(r) =>
       LET d == check'[r].did
           blocked == check'[r].blocked
       IN  blocked # listed[d] =>
             now - since[d] <= (IF blocked THEN BLOCKED_TTL ELSE CLEAN_TTL) + TIMEOUT]_vars
=============================================================================
