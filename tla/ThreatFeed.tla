------------------------------ MODULE ThreatFeed ------------------------------
(***************************************************************************)
(* The client of the threat feed (router/router-node/src/services/         *)
(* nullcone.ts checkSender): a cache that keeps clean and blocked answers  *)
(* for different times, filled by queries that run concurrently, fail      *)
(* open, and are broken off after TIMEOUT.  The feed itself is external:   *)
(* it lists and unlists senders at any time.                               *)
(***************************************************************************)
EXTENDS RouterClock

CONSTANTS
  Dids,            \* sender DIDs
  CLEAN_TTL,       \* five minutes: life of a cached clean answer
  BLOCKED_TTL,     \* one minute: life of a cached listing
  TIMEOUT,         \* three seconds: life of a query
  MaxListings      \* bound on changes of the feed

ASSUME FeedAssumption ==
  /\ CLEAN_TTL \in Nat \ {0} /\ BLOCKED_TTL \in Nat \ {0} /\ TIMEOUT \in Nat
  /\ MaxListings \in Nat
  /\ None \notin Dids /\ None \notin [blocked : BOOLEAN, expires : Nat]

VARIABLES
  configured,  \* config.nullcone_url is set, and is not an example
  listed,      \* the feed: did -> whether it is listed
  since,       \* ghost: did -> when the feed last changed its mind
  listings,    \* how often it did
  threatCache, \* threatCache: did -> answer and expiry, or None
  check        \* request -> the state of its threat check

feedVars == <<configured, listed, since, listings, threatCache, check>>

(* `blocked' is the answer under way and then the verdict, `from' what the *)
(* verdict rests on.                                                       *)
Checks ==
  [pc : {"waiting", "asked", "done", "lost"}, did : Dids \cup {None},
   blocked : BOOLEAN, asked : Nat, from : {"none", "cache", "feed", "failure", "off"}]
NoCheck ==
  [pc |-> "waiting", did |-> None, blocked |-> FALSE, asked |-> 0, from |-> "none"]

FeedInit ==
  /\ configured \in BOOLEAN
  /\ listed = [d \in Dids |-> FALSE]
  /\ since = [d \in Dids |-> 0]
  /\ listings = 0
  /\ threatCache = [d \in Dids |-> None]
  /\ check = [r \in Requests |-> NoCheck]

(* Mutated form: the expiry is not looked at.                              *)
FreshForAllTime(did) == threatCache[did] # None

Fresh(did) == threatCache[did] # None /\ now < threatCache[did].expires

Verdict(did, blocked, from) ==
  [pc |-> "done", did |-> did, blocked |-> blocked, asked |-> 0, from |-> from]

CheckCached(r, did) ==
  /\ check[r].pc = "waiting" /\ Fresh(did)
  /\ check' = [check EXCEPT ![r] = Verdict(did, threatCache[did].blocked, "cache")]
  /\ UNCHANGED <<configured, listed, since, listings, threatCache>>

CheckSkipped(r, did) ==
  /\ check[r].pc = "waiting" /\ ~Fresh(did) /\ ~configured
  /\ check' = [check EXCEPT ![r] = Verdict(did, FALSE, "off")]
  /\ UNCHANGED <<configured, listed, since, listings, threatCache>>

(* The feed evaluates the query; 404 and `blocked: false' are both clean.  *)
AskFeed(r, did) ==
  /\ check[r].pc = "waiting" /\ ~Fresh(did) /\ configured
  /\ check' = [check EXCEPT ![r] = [pc |-> "asked", did |-> did,
                 blocked |-> listed[did], asked |-> now, from |-> "none"]]
  /\ UNCHANGED <<configured, listed, since, listings, threatCache>>

Life(blocked) == IF blocked THEN BLOCKED_TTL ELSE CLEAN_TTL

(* The answer is back, and is cached from now on, over a newer one too.    *)
FeedAnswers(r) ==
  /\ check[r].pc = "asked"
  /\ threatCache' = [threatCache EXCEPT ![check[r].did] =
       [blocked |-> check[r].blocked, expires |-> now + Life(check[r].blocked)]]
  /\ check' = [check EXCEPT ![r] = Verdict(@.did, @.blocked, "feed")]
  /\ UNCHANGED <<configured, listed, since, listings>>

(* An error status, a timeout or no connection: clean, and not cached.     *)
FeedFails(r) ==
  /\ check[r].pc = "asked"
  /\ check' = [check EXCEPT ![r] = Verdict(@.did, FALSE, "failure")]
  /\ UNCHANGED <<configured, listed, since, listings, threatCache>>

(* The feed lists or unlists a sender.                                     *)
Relist(did) ==
  /\ listings < MaxListings
  /\ listings' = listings + 1
  /\ listed' = [listed EXCEPT ![did] = ~@]
  /\ since' = [since EXCEPT ![did] = now]
  /\ UNCHANGED <<configured, threatCache, check>>

(* The process is started again, and may be configured otherwise.          *)
ForgetAnswers ==
  /\ configured' \in BOOLEAN
  /\ threatCache' = [d \in Dids |-> None]
  /\ check' = [r \in Requests |->
                 IF check[r].pc = "asked" THEN [NoCheck EXCEPT !.pc = "lost"] ELSE check[r]]
  /\ UNCHANGED <<listed, since, listings>>

QueriesInTime == \A r \in Requests : check[r].pc = "asked" => now - check[r].asked < TIMEOUT
=============================================================================
