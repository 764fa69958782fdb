---------------------------- MODULE FrontDoor_proofs ----------------------------
(***************************************************************************)
(* Proofs about a router's front door, for any clients, senders, requests, *)
(* window lengths, lifetimes, restarts and any end of the clock.           *)
(***************************************************************************)
EXTENDS FrontDoor, FiniteSetTheorems, TLAPS

Buckets == [count : Nat, windowStart : Nat]
Entries == [blocked : BOOLEAN, expires : Nat]

LimiterTypes ==
  /\ buckets \in [Addresses -> Buckets \cup {None}]
  /\ source \in [Requests -> Addresses \cup {None}]
  /\ letIn \in [Requests -> Nat \cup {None}]

FeedTypes ==
  /\ configured \in BOOLEAN
  /\ listed \in [Dids -> BOOLEAN] /\ since \in [Dids -> Nat] /\ listings \in Nat
  /\ threatCache \in [Dids -> Entries \cup {None}]
  /\ check \in [Requests -> Checks]
  /\ \A r \in Requests : check[r].pc \in {"asked", "done"} => check[r].did \in Dids

LEMMA TypeParts ==
  FrontDoorTypeOK <=> LimiterTypes /\ FeedTypes /\ restarts \in Nat /\ now \in Nat
  BY DEF FrontDoorTypeOK, LimiterTypes, FeedTypes, Buckets, Entries

-----------------------------------------------------------------------------
(* Each step of the limiter keeps its types.                               *)

LEMMA CountTyped ==
  ASSUME LimiterTypes, NEW a \in Addresses, ~NeedsNewBucket(a), Counted(a)
  PROVE  /\ buckets' \in [Addresses -> Buckets \cup {None}]
         /\ buckets[a] # None /\ buckets[a] \in Buckets
         /\ buckets'[a] = [count |-> buckets[a].count + 1,
                           windowStart |-> buckets[a].windowStart]
         /\ \A b \in Addresses : b # a => buckets'[b] = buckets[b]
  <1>1. buckets[a] # None /\ buckets[a] \in Buckets
    BY DEF LimiterTypes, NeedsNewBucket
  <1> DEFINE new == [count |-> buckets[a].count + 1, windowStart |-> buckets[a].windowStart]
  <1>2. new \in Buckets
    BY <1>1 DEF Buckets
  <1>3. [buckets[a] EXCEPT !.count = @ + 1] = new
    BY <1>1 DEF Buckets
  <1>4. buckets' = [buckets EXCEPT ![a] = new]
    BY <1>3 DEF Counted
  <1> QED BY <1>1, <1>2, <1>4 DEF LimiterTypes

LEMMA ArriveTyped ==
  ASSUME FrontDoorTypeOK, NEW r \in Requests, NEW a \in Addresses, Arrive(r, a)
  PROVE  LimiterTypes'
  <1>1. LimiterTypes /\ now \in Nat
    BY TypeParts
  <1>2. CASE OpenWindow(r, a)
    BY <1>1, <1>2 DEF OpenWindow, LetIn, LimiterTypes, Buckets
  <1>3. CASE CountIn(r, a)
    BY <1>1, <1>3, CountTyped DEF CountIn, LetIn, LimiterTypes
  <1>4. CASE TurnAway(r, a)
    BY <1>1, <1>4, CountTyped DEF TurnAway, LimiterTypes
  <1> QED BY <1>2, <1>3, <1>4 DEF Arrive

(* Each step of the feed's client keeps its types.                         *)

LEMMA CheckTyped ==
  ASSUME FrontDoorTypeOK, NEW r \in Requests, NEW d \in Dids, Check(r, d)
  PROVE  FeedTypes'
  <1>1. FeedTypes /\ now \in Nat
    BY TypeParts
  <1>2. CASE CheckCached(r, d)
    <2>1. threatCache[d] \in Entries
      BY <1>1, <1>2 DEF CheckCached, Fresh, FeedTypes
    <2>2. Verdict(d, threatCache[d].blocked, "cache") \in Checks
      BY <2>1 DEF Verdict, Checks, Entries
    <2> QED BY <1>1, <1>2, <2>2 DEF CheckCached, Verdict, FeedTypes
  <1>3. CASE CheckSkipped(r, d)
    BY <1>1, <1>3 DEF CheckSkipped, Verdict, FeedTypes, Checks
  <1>4. CASE AskFeed(r, d)
    BY <1>1, <1>4 DEF AskFeed, FeedTypes, Checks
  <1> QED BY <1>2, <1>3, <1>4 DEF Check

LEMMA AnswerTyped ==
  ASSUME FrontDoorTypeOK, NEW r \in Requests, Answer(r)
  PROVE  FeedTypes'
  <1>1. FeedTypes /\ now \in Nat
    BY TypeParts
  <1>2. check[r] \in Checks /\ check[r].pc = "asked" /\ check[r].did \in Dids
        /\ check[r].blocked \in BOOLEAN
    BY <1>1 DEF Answer, FeedAnswers, FeedFails, FeedTypes, Checks
  <1>3. CASE FeedAnswers(r)
    <2>1. Verdict(check[r].did, check[r].blocked, "feed") \in Checks
      BY <1>2 DEF Verdict, Checks
    <2>2. check' = [check EXCEPT ![r] = Verdict(check[r].did, check[r].blocked, "feed")]
      BY <1>3 DEF FeedAnswers
    <2>3. check' \in [Requests -> Checks]
          /\ \A q \in Requests : check'[q].pc \in {"asked", "done"} => check'[q].did \in Dids
      BY <1>1, <1>2, <2>1, <2>2 DEF FeedTypes, Verdict
    <2>4. [blocked |-> check[r].blocked, expires |-> now + Life(check[r].blocked)] \in Entries
      BY <1>1, <1>2, FeedAssumption DEF Entries, Life
    <2>5. threatCache' \in [Dids -> Entries \cup {None}]
      BY <1>1, <1>2, <1>3, <2>4 DEF FeedAnswers, FeedTypes
    <2> QED BY <1>1, <1>3, <2>3, <2>5 DEF FeedAnswers, FeedTypes
  <1>4. CASE FeedFails(r)
    <2>1. Verdict(check[r].did, FALSE, "failure") \in Checks
      BY <1>2 DEF Verdict, Checks
    <2>2. check' = [check EXCEPT ![r] = Verdict(check[r].did, FALSE, "failure")]
      BY <1>4 DEF FeedFails
    <2> QED BY <1>1, <1>2, <1>4, <2>1, <2>2 DEF FeedFails, FeedTypes, Verdict
  <1> QED BY <1>3, <1>4 DEF Answer

LEMMA RestartTyped ==
  ASSUME FrontDoorTypeOK, Restart
  PROVE  FrontDoorTypeOK'
  <1>1. NoCheck \in Checks /\ [NoCheck EXCEPT !.pc = "lost"] \in Checks
    BY DEF NoCheck, Checks
  <1>2. [NoCheck EXCEPT !.pc = "lost"].pc = "lost"
    BY DEF NoCheck
  <1>3. check' \in [Requests -> Checks]
    BY <1>1 DEF Restart, ForgetAnswers, FrontDoorTypeOK
  <1>4. \A r \in Requests : check'[r].pc \in {"asked", "done"} => check'[r].did \in Dids
    BY <1>2 DEF Restart, ForgetAnswers, FrontDoorTypeOK
  <1>5. LimiterTypes /\ FeedTypes /\ restarts \in Nat /\ now \in Nat
    BY TypeParts
  <1>6. LimiterTypes'
    BY <1>5 DEF Restart, ForgetBuckets, LimiterTypes
  <1>7. FeedTypes'
    <2>1. /\ configured' \in BOOLEAN
          /\ threatCache' \in [Dids -> Entries \cup {None}]
          /\ UNCHANGED <<listed, since, listings>>
      BY DEF Restart, ForgetAnswers
    <2> QED BY <1>3, <1>4, <1>5, <2>1 DEF FeedTypes
  <1>8. restarts' \in Nat /\ now' \in Nat
    BY <1>5 DEF Restart
  <1> QED BY <1>6, <1>7, <1>8, TypeParts DEF FrontDoorTypeOK, LimiterTypes, FeedTypes, Buckets, Entries

LEMMA TypeStep ==
  ASSUME FrontDoorTypeOK, [Next]_vars
  PROVE  FrontDoorTypeOK'
  <1>1. ASSUME NEW r \in Requests, NEW a \in Addresses, Arrive(r, a)
        PROVE  FrontDoorTypeOK'
    <2>1. LimiterTypes'
      BY <1>1, ArriveTyped
    <2> QED BY <1>1, <2>1, TypeParts
              DEF Arrive, FrontDoorTypeOK, LimiterTypes, Buckets, feedVars
  <1>2. ASSUME NEW r \in Requests, NEW d \in Dids, Check(r, d)
        PROVE  FrontDoorTypeOK'
    <2>1. FeedTypes'
      BY <1>2, CheckTyped
    <2> QED BY <1>2, <2>1 DEF Check, FrontDoorTypeOK, FeedTypes, Entries, limiterVars
  <1>3. ASSUME NEW r \in Requests, Answer(r)
        PROVE  FrontDoorTypeOK'
    <2>1. FeedTypes'
      BY <1>3, AnswerTyped
    <2> QED BY <1>3, <2>1 DEF Answer, FrontDoorTypeOK, FeedTypes, Entries, limiterVars
  <1>4. ASSUME NEW d \in Dids, FeedChanges(d)
        PROVE  FrontDoorTypeOK'
    BY <1>4 DEF FeedChanges, Relist, FrontDoorTypeOK, limiterVars
  <1>5. CASE PruneTimer
    BY <1>5 DEF PruneTimer, Prune, FrontDoorTypeOK, feedVars
  <1>6. CASE Restart
    BY <1>6, RestartTyped
  <1>7. CASE Clock
    BY <1>7 DEF Clock, FrontDoorTypeOK, limiterVars, feedVars
  <1>8. CASE UNCHANGED vars
    BY <1>8 DEF vars, FrontDoorTypeOK, limiterVars, feedVars
  <1> QED BY <1>1, <1>2, <1>3, <1>4, <1>5, <1>6, <1>7, <1>8 DEF Next

LEMMA InitTyped == Init => FrontDoorTypeOK
  BY DEF Init, LimiterInit, FeedInit, FrontDoorTypeOK, NoCheck, Checks

(* Whatever requests come, and whenever the timer fires or the process is  *)
(* started again: buckets, cached answers and checks are well formed.      *)
THEOREM FrontDoorTypeCorrect == Spec => []FrontDoorTypeOK
  BY InitTyped, TypeStep, PTL DEF Spec

-----------------------------------------------------------------------------
(* The limiter.  Windows of an address begin more than WINDOW apart; the   *)
(* invariant counts what was let in during the open one and during the     *)
(* WINDOW before it, which the request that opened the window before falls *)
(* short of: each window begins with a request of its own.                 *)

Within(src, let, a, lo, hi) ==
  {r \in Requests : src[r] = a /\ let[r] # None /\ lo <= let[r] /\ let[r] <= hi}

Counts(a, lo, hi, max) == Cardinality(Within(source, letIn, a, lo, hi)) <= max

NoWindow(a) ==
  \A r \in Requests : source[r] = a /\ letIn[r] # None => letIn[r] + WINDOW < now

Opened(src, let, a, t) == \E r \in Requests : src[r] = a /\ let[r] = t

InWindow(a, t) ==
  /\ t <= now
  /\ Opened(source, letIn, a, t)
  /\ \A r \in Requests : source[r] = a /\ letIn[r] # None => letIn[r] <= t + WINDOW
  /\ Counts(a, t, t + WINDOW, buckets[a].count)
  /\ Counts(a, t, t + WINDOW, MAX_REQUESTS)
  /\ Counts(a, t - WINDOW, t - 1, MAX_REQUESTS - 1)

WindowInv(a) ==
  /\ buckets[a] = None => NoWindow(a)
  /\ buckets[a] # None => InWindow(a, buckets[a].windowStart)

SpanInv(a) == \A t \in Int : Counts(a, t, t + WINDOW, 2 * MAX_REQUESTS - 1)

LetInInv ==
  \A r \in Requests : /\ source[r] = None => letIn[r] = None
                      /\ letIn[r] # None => letIn[r] <= now

LimiterInv == LetInInv /\ \A a \in Addresses : WindowInv(a) /\ SpanInv(a)

LEMMA WithinFinite ==
  ASSUME NEW src, NEW let, NEW a, NEW lo, NEW hi
  PROVE  /\ IsFiniteSet(Within(src, let, a, lo, hi))
         /\ Cardinality(Within(src, let, a, lo, hi)) \in Nat
  <1>1. Within(src, let, a, lo, hi) \in SUBSET Requests
    BY DEF Within
  <1> QED BY <1>1, LimiterAssumption, FS_Subset, FS_CardinalityType

LEMMA WithinSmaller ==
  ASSUME NEW src, NEW let, NEW a, NEW lo, NEW hi, NEW S \in SUBSET Within(src, let, a, lo, hi)
  PROVE  Cardinality(S) \in Nat /\ Cardinality(S) <= Cardinality(Within(src, let, a, lo, hi))
  BY WithinFinite, FS_Subset, FS_CardinalityType

(* Letting one request in adds at most that one.                           *)
LEMMA WithinGrows ==
  ASSUME LimiterTypes, NEW r \in Requests, NEW a \in Addresses, LetIn(r, a),
         NEW b, NEW lo, NEW hi
  PROVE  /\ Within(source', letIn', b, lo, hi) \subseteq
              Within(source, letIn, b, lo, hi) \cup {r}
         /\ Cardinality(Within(source', letIn', b, lo, hi)) \in Nat
         /\ Cardinality(Within(source', letIn', b, lo, hi))
              <= Cardinality(Within(source, letIn, b, lo, hi)) + 1
  <1> DEFINE old == Within(source, letIn, b, lo, hi)
             new == Within(source', letIn', b, lo, hi)
  <1>1. new \subseteq old \cup {r}
    BY DEF Within, LetIn, LimiterTypes
  <1>2. IsFiniteSet(old) /\ Cardinality(old) \in Nat /\ Cardinality(new) \in Nat
    BY WithinFinite
  <1>3. IsFiniteSet(old \cup {r})
        /\ Cardinality(old \cup {r}) \in {Cardinality(old), Cardinality(old) + 1}
    BY <1>2, FS_AddElement
  <1>4. Cardinality(new) <= Cardinality(old \cup {r})
    BY <1>1, <1>3, FS_Subset
  <1>5. Cardinality(old \cup {r}) <= Cardinality(old) + 1
    BY <1>2, <1>3
  <1>6. Cardinality(old \cup {r}) \in Nat
    BY <1>3, FS_CardinalityType
  <1> HIDE DEF old, new
  <1>7. Cardinality(new) <= Cardinality(old) + 1
    BY <1>2, <1>4, <1>5, <1>6
  <1> QED BY <1>1, <1>2, <1>7 DEF old, new

(* Where nothing is added, nothing is counted more.                        *)
LEMMA CountsKept ==
  ASSUME NEW a, NEW lo, NEW hi, NEW max \in Nat, Counts(a, lo, hi, max),
         Within(source', letIn', a, lo, hi) \subseteq Within(source, letIn, a, lo, hi)
  PROVE  Cardinality(Within(source', letIn', a, lo, hi)) <= max
  <1>1. Cardinality(Within(source', letIn', a, lo, hi)) \in Nat
        /\ Cardinality(Within(source', letIn', a, lo, hi))
             <= Cardinality(Within(source, letIn, a, lo, hi))
    BY WithinSmaller
  <1>2. Cardinality(Within(source, letIn, a, lo, hi)) \in Nat
    BY WithinFinite
  <1> QED BY <1>1, <1>2 DEF Counts

(* A span that reaches up to now meets the open window, and at most the    *)
(* WINDOW before it.                                                       *)
LEMMA SpanOfTwo ==
  ASSUME NEW src, NEW let, NEW a, NEW t0 \in Int, NEW t \in Int, NEW n \in Int,
         \A r \in Requests : let[r] # None => let[r] \in Int,
         \A r \in Requests : src[r] = a /\ let[r] # None => let[r] <= t0 + WINDOW,
         t0 <= n, n <= t + WINDOW,
         Cardinality(Within(src, let, a, t0, t0 + WINDOW)) <= MAX_REQUESTS,
         Cardinality(Within(src, let, a, t0 - WINDOW, t0 - 1)) <= MAX_REQUESTS - 1
  PROVE  Cardinality(Within(src, let, a, t, t + WINDOW)) <= 2 * MAX_REQUESTS - 1
  <1> DEFINE open == Within(src, let, a, t0, t0 + WINDOW)
             before == Within(src, let, a, t0 - WINDOW, t0 - 1)
             span == Within(src, let, a, t, t + WINDOW)
  <1>1. span \subseteq before \cup open
    BY LimiterAssumption DEF Within
  <1>2. /\ IsFiniteSet(open) /\ Cardinality(open) \in Nat
        /\ IsFiniteSet(before) /\ Cardinality(before) \in Nat
        /\ Cardinality(span) \in Nat
    BY WithinFinite
  <1>3. /\ IsFiniteSet(before \cup open)
        /\ Cardinality(before \cup open)
             = Cardinality(before) + Cardinality(open) - Cardinality(before \cap open)
    BY <1>2, FS_Union
  <1>4. Cardinality(before \cap open) \in Nat
    BY <1>2, FS_Intersection, FS_CardinalityType
  <1>5. Cardinality(span) <= Cardinality(before \cup open)
    BY <1>1, <1>3, FS_Subset
  <1> HIDE DEF open, before, span
  <1>6. Cardinality(open) <= MAX_REQUESTS /\ Cardinality(before) <= MAX_REQUESTS - 1
    BY DEF open, before
  <1>7. Cardinality(span) <= 2 * MAX_REQUESTS - 1
    BY <1>2, <1>3, <1>4, <1>5, <1>6, LimiterAssumption
  <1> QED BY <1>7 DEF span

LEMMA OtherAddress ==
  ASSUME LimiterTypes, NEW r \in Requests, NEW a \in Addresses, NEW b \in Addresses, a # b,
         LetIn(r, a), NEW lo, NEW hi
  PROVE  Within(source', letIn', b, lo, hi) \subseteq Within(source, letIn, b, lo, hi)
  BY DEF LimiterTypes, LetIn, Within

LEMMA OutOfRange ==
  ASSUME LimiterTypes, NEW r \in Requests, NEW a \in Addresses, LetIn(r, a),
         NEW lo, NEW hi, ~(lo <= now /\ now <= hi)
  PROVE  Within(source', letIn', a, lo, hi) \subseteq Within(source, letIn, a, lo, hi)
  BY DEF LimiterTypes, LetIn, Within

(* The request that opened a window was let in already.                    *)
LEMMA OpenerStays ==
  ASSUME LimiterTypes, NEW r \in Requests, NEW a \in Addresses, source[r] = None,
         source' = [source EXCEPT ![r] = a],
         letIn' = letIn \/ letIn' = [letIn EXCEPT ![r] = now],
         NEW b \in Addresses, NEW t, Opened(source, letIn, b, t)
  PROVE  Opened(source', letIn', b, t)
  <1>1. PICK q \in Requests : source[q] = b /\ letIn[q] = t
    BY DEF Opened
  <1>2. q # r
    BY <1>1, LimiterAssumption
  <1>3. source'[q] = b /\ letIn'[q] = t
    BY <1>1, <1>2 DEF LimiterTypes
  <1> QED BY <1>3 DEF Opened

(* What is left for another address when r is let in for a.                *)
LEMMA OthersKept ==
  ASSUME LimiterTypes, now \in Nat, NEW r \in Requests, NEW a \in Addresses, LetIn(r, a),
         source[r] = None,
         NEW b \in Addresses, a # b, buckets'[b] = buckets[b], UNCHANGED now,
         WindowInv(b), SpanInv(b)
  PROVE  WindowInv(b)' /\ SpanInv(b)'
  <1>1. \A q \in Requests : source'[q] = b /\ letIn'[q] # None
                              => source[q] = b /\ letIn[q] # None /\ letIn'[q] = letIn[q]
    BY DEF LimiterTypes, LetIn
  <1>2. SpanInv(b)'
    BY CountsKept, OtherAddress, LimiterAssumption DEF SpanInv, Counts
  <1>3. CASE buckets[b] = None
    BY <1>1, <1>2, <1>3 DEF WindowInv, NoWindow
  <1>4. CASE buckets[b] # None
    <2> DEFINE t == buckets[b].windowStart
    <2>1. buckets[b].count \in Nat /\ InWindow(b, t)
      BY <1>4 DEF LimiterTypes, Buckets, WindowInv
    <2>2. /\ Cardinality(Within(source', letIn', b, t, t + WINDOW)) <= buckets[b].count
          /\ Cardinality(Within(source', letIn', b, t, t + WINDOW)) <= MAX_REQUESTS
          /\ Cardinality(Within(source', letIn', b, t - WINDOW, t - 1)) <= MAX_REQUESTS - 1
      BY <2>1, CountsKept, OtherAddress, LimiterAssumption DEF InWindow
    <2>3. Opened(source', letIn', b, t)
      BY <2>1, OpenerStays DEF InWindow, LetIn
    <2> QED BY <1>1, <1>2, <1>4, <2>1, <2>2, <2>3 DEF WindowInv, InWindow, Counts
  <1> QED BY <1>3, <1>4

(* A request is let in while a window t0 is open: what it needs to hold.   *)
LEMMA LetInSpans ==
  ASSUME LimiterTypes, now \in Nat, LetInInv, UNCHANGED now,
         NEW r \in Requests, NEW a \in Addresses, LetIn(r, a), SpanInv(a),
         NEW t0 \in Nat, t0 <= now,
         \A q \in Requests : source'[q] = a /\ letIn'[q] # None => letIn'[q] <= t0 + WINDOW,
         Cardinality(Within(source', letIn', a, t0, t0 + WINDOW)) <= MAX_REQUESTS,
         Cardinality(Within(source', letIn', a, t0 - WINDOW, t0 - 1)) <= MAX_REQUESTS - 1
  PROVE  SpanInv(a)'
  <1>1. \A q \in Requests : letIn'[q] # None => letIn'[q] \in Int
    BY DEF LimiterTypes, LetIn
  <1>2. ASSUME NEW t \in Int
        PROVE  Cardinality(Within(source', letIn', a, t, t + WINDOW)) <= 2 * MAX_REQUESTS - 1
    <2>1. CASE now <= t + WINDOW
      BY <1>1, <2>1, SpanOfTwo
    <2>2. CASE ~(now <= t + WINDOW)
      <3>1. Within(source', letIn', a, t, t + WINDOW)
              \subseteq Within(source, letIn, a, t, t + WINDOW)
        BY <2>2, OutOfRange
      <3>2. Counts(a, t, t + WINDOW, 2 * MAX_REQUESTS - 1) /\ 2 * MAX_REQUESTS - 1 \in Nat
        BY LimiterAssumption DEF SpanInv
      <3> QED BY <3>1, <3>2, CountsKept
    <2> QED BY <2>1, <2>2
  <1> QED BY <1>2 DEF SpanInv, Counts

LEMMA OpenWindowKeeps ==
  ASSUME LimiterTypes, now \in Nat, LetInInv, UNCHANGED now,
         NEW r \in Requests, NEW a \in Addresses, source[r] = None, OpenWindow(r, a),
         WindowInv(a), SpanInv(a)
  PROVE  WindowInv(a)' /\ SpanInv(a)'
  <1>1. LetIn(r, a)
    BY DEF OpenWindow
  <1>2. buckets'[a] # None /\ buckets'[a].count = 1 /\ buckets'[a].windowStart = now
    <2>1. [count |-> 1, windowStart |-> now] # None
      BY LimiterAssumption
    <2> QED BY <2>1 DEF OpenWindow, LimiterTypes
  <1>3. \A q \in Requests : source[q] = a /\ letIn[q] # None => letIn[q] \in Nat /\ letIn[q] < now
    BY LimiterAssumption
       DEF OpenWindow, NeedsNewBucket, WindowInv, NoWindow, InWindow, LimiterTypes, Buckets
  <1>4. \A q \in Requests : source'[q] = a /\ letIn'[q] # None => letIn'[q] <= now + WINDOW
    BY <1>1, <1>3, LimiterAssumption DEF LetIn, LimiterTypes
  <1>5. Cardinality(Within(source', letIn', a, now, now + WINDOW)) <= 1
    <2>1. Within(source, letIn, a, now, now + WINDOW) = {}
      BY <1>3 DEF Within
    <2> QED BY <1>1, <2>1, WithinGrows, FS_EmptySet
  <1>6. Cardinality(Within(source', letIn', a, now - WINDOW, now - 1)) <= MAX_REQUESTS - 1
    <2>1. Within(source', letIn', a, now - WINDOW, now - 1)
            \subseteq Within(source, letIn, a, now - WINDOW, now - 1)
      BY <1>1, OutOfRange
    <2>2. Counts(a, now - WINDOW, now - 1, MAX_REQUESTS - 1)
      <3>1. CASE buckets[a] = None
        <4>1. Within(source, letIn, a, now - WINDOW, now - 1) = {}
          BY <3>1, LimiterAssumption DEF WindowInv, NoWindow, Within, LimiterTypes
        <4>2. Cardinality(Within(source, letIn, a, now - WINDOW, now - 1)) = 0
          BY <4>1, FS_EmptySet
        <4> QED BY <4>2, LimiterAssumption DEF Counts
      <3>2. CASE buckets[a] # None
        <4> DEFINE t == buckets[a].windowStart
        <4>1. InWindow(a, t) /\ t \in Nat /\ now - t > WINDOW
          BY <3>2 DEF WindowInv, OpenWindow, NeedsNewBucket, LimiterTypes, Buckets
        <4>2. Within(source, letIn, a, now - WINDOW, now - 1)
                \subseteq Within(source, letIn, a, t, t + WINDOW)
          BY <4>1, LimiterAssumption DEF Within, InWindow, LimiterTypes
        <4> DEFINE closed == Within(source, letIn, a, t, t + WINDOW)
                   before == Within(source, letIn, a, now - WINDOW, now - 1)
        <4>3. PICK q \in Requests : source[q] = a /\ letIn[q] = t
          BY <4>1 DEF InWindow, Opened
        <4>4. q \in closed /\ before \subseteq closed \ {q}
          <5>1. q \in closed
            BY <4>1, <4>3, LimiterAssumption DEF Within
          <5>2. t < now - WINDOW
            BY <4>1, LimiterAssumption
          <5>3. q \notin before
            BY <4>1, <4>3, <5>2, LimiterAssumption DEF Within
          <5> QED BY <4>2, <5>1, <5>3
        <4>5. /\ IsFiniteSet(closed) /\ Cardinality(closed) \in Nat
              /\ Cardinality(before) \in Nat /\ Cardinality(closed) <= MAX_REQUESTS
          BY <4>1, WithinFinite DEF InWindow, Counts
        <4>6. IsFiniteSet(closed \ {q}) /\ Cardinality(closed \ {q}) = Cardinality(closed) - 1
          BY <4>4, <4>5, FS_RemoveElement
        <4>7. Cardinality(before) <= Cardinality(closed \ {q})
          BY <4>4, <4>6, FS_Subset
        <4>8. Cardinality(before) <= MAX_REQUESTS - 1
          <5> HIDE DEF before, closed
          <5> QED BY <4>5, <4>6, <4>7, LimiterAssumption
        <4> QED BY <4>8 DEF Counts
      <3> QED BY <3>1, <3>2
    <2> QED BY <2>1, <2>2, CountsKept, LimiterAssumption
  <1>7. Cardinality(Within(source', letIn', a, now, now + WINDOW)) <= MAX_REQUESTS
    BY <1>5, WithinFinite, LimiterAssumption
  <1>8. SpanInv(a)'
    BY <1>1, <1>4, <1>6, <1>7, LetInSpans
  <1>9. Opened(source', letIn', a, now)
    BY <1>1 DEF Opened, LetIn, LimiterTypes
  <1> QED BY <1>2, <1>4, <1>5, <1>6, <1>7, <1>8, <1>9 DEF WindowInv, InWindow, Counts

LEMMA CountInKeeps ==
  ASSUME LimiterTypes, now \in Nat, LetInInv, UNCHANGED now,
         NEW r \in Requests, NEW a \in Addresses, source[r] = None, CountIn(r, a),
         WindowInv(a), SpanInv(a)
  PROVE  WindowInv(a)' /\ SpanInv(a)'
  <1> DEFINE t == buckets[a].windowStart
             count == buckets[a].count
  <1>1. LetIn(r, a) /\ count + 1 <= MAX_REQUESTS /\ now - t <= WINDOW /\ buckets[a] # None
        /\ t \in Nat /\ count \in Nat
    <2>1. buckets[a] # None /\ buckets[a] \in Buckets
      BY CountTyped DEF CountIn
    <2> QED BY <2>1, LimiterAssumption DEF CountIn, NeedsNewBucket, Buckets
  <1>2. buckets'[a] # None /\ buckets'[a].count = count + 1 /\ buckets'[a].windowStart = t
    <2>1. buckets'[a] = [count |-> count + 1, windowStart |-> t]
      BY CountTyped DEF CountIn
    <2>2. [count |-> count + 1, windowStart |-> t] \in [count : Nat, windowStart : Nat]
      BY <1>1
    <2> QED BY <2>1, <2>2, LimiterAssumption
  <1>3. InWindow(a, t)
    BY <1>1 DEF WindowInv
  <1> HIDE DEF t, count
  <1>4. \A q \in Requests : source'[q] = a /\ letIn'[q] # None => letIn'[q] <= t + WINDOW
    BY <1>1, <1>3, LimiterAssumption DEF LetIn, LimiterTypes, InWindow
  <1>5. Cardinality(Within(source', letIn', a, t, t + WINDOW)) <= count + 1
        /\ Cardinality(Within(source', letIn', a, t, t + WINDOW)) <= MAX_REQUESTS
    <2>1. Cardinality(Within(source, letIn, a, t, t + WINDOW)) <= count
      BY <1>3 DEF InWindow, Counts, count
    <2> QED BY <1>1, <2>1, WithinGrows, WithinFinite, LimiterAssumption
  <1>6. Cardinality(Within(source', letIn', a, t - WINDOW, t - 1)) <= MAX_REQUESTS - 1
    <2>1. ~(t - WINDOW <= now /\ now <= t - 1)
      BY <1>1, <1>3 DEF InWindow
    <2>2. Within(source', letIn', a, t - WINDOW, t - 1)
            \subseteq Within(source, letIn, a, t - WINDOW, t - 1)
      BY <1>1, <2>1, OutOfRange
    <2> QED BY <1>3, <2>2, CountsKept, LimiterAssumption DEF InWindow
  <1>7. SpanInv(a)'
    BY <1>1, <1>3, <1>4, <1>5, <1>6, LetInSpans DEF InWindow
  <1>8. t <= now /\ Opened(source', letIn', a, t)
    BY <1>1, <1>3, OpenerStays DEF InWindow, LetIn
  <1> QED BY <1>2, <1>4, <1>5, <1>6, <1>7, <1>8 DEF WindowInv, InWindow, Counts

LEMMA TurnAwayKeeps ==
  ASSUME LimiterTypes, now \in Nat, LetInInv, UNCHANGED now,
         NEW r \in Requests, NEW a \in Addresses, source[r] = None, TurnAway(r, a),
         NEW b \in Addresses, WindowInv(b), SpanInv(b)
  PROVE  WindowInv(b)' /\ SpanInv(b)'
  <1>1. letIn[r] = None /\ letIn' = letIn /\ source' = [source EXCEPT ![r] = a]
    BY DEF LetInInv, TurnAway
  <1>2. \A q \in Requests : source'[q] = b /\ letIn'[q] # None => source[q] = b /\ letIn[q] # None
    BY <1>1 DEF LimiterTypes
  <1>3. ASSUME NEW lo, NEW hi
        PROVE  Within(source', letIn', b, lo, hi) \subseteq Within(source, letIn, b, lo, hi)
    BY <1>1, <1>2 DEF Within
  <1>4. SpanInv(b)'
    BY <1>3, CountsKept, LimiterAssumption DEF SpanInv, Counts
  <1>5. CASE buckets[b] = None
    <2>1. buckets'[b] = None
      BY <1>5, CountTyped DEF TurnAway
    <2> QED BY <1>1, <1>2, <1>4, <1>5, <2>1 DEF WindowInv, NoWindow
  <1>6. CASE buckets[b] # None
    <2> DEFINE t == buckets[b].windowStart
               count == buckets[b].count
    <2>1. count \in Nat /\ t \in Nat /\ InWindow(b, t)
      BY <1>6 DEF LimiterTypes, Buckets, WindowInv
    <2>2. /\ buckets'[b] # None /\ buckets'[b].windowStart = t
          /\ buckets'[b].count \in {count, count + 1}
      <3>1. CASE a # b
        <4>1. buckets'[b] = buckets[b]
          BY <3>1, CountTyped DEF TurnAway
        <4> QED BY <1>6, <4>1
      <3>2. CASE a = b
        <4>1. buckets'[b] = [count |-> count + 1, windowStart |-> t]
          BY <3>2, CountTyped DEF TurnAway
        <4>2. [count |-> count + 1, windowStart |-> t] \in [count : Nat, windowStart : Nat]
          BY <2>1
        <4> QED BY <4>1, <4>2, LimiterAssumption
      <3> QED BY <3>1, <3>2
    <2> HIDE DEF t, count
    <2>3. /\ Cardinality(Within(source', letIn', b, t, t + WINDOW)) <= count
          /\ Cardinality(Within(source', letIn', b, t, t + WINDOW)) <= MAX_REQUESTS
          /\ Cardinality(Within(source', letIn', b, t - WINDOW, t - 1)) <= MAX_REQUESTS - 1
      <3>1. Counts(b, t, t + WINDOW, count)
        BY <2>1 DEF InWindow, count
      <3> QED BY <1>3, <2>1, <3>1, CountsKept, LimiterAssumption DEF InWindow
    <2>4. Cardinality(Within(source', letIn', b, t, t + WINDOW)) <= buckets'[b].count
      BY <2>1, <2>2, <2>3, WithinFinite
    <2>5. Opened(source', letIn', b, t)
      BY <1>1, <2>1, OpenerStays DEF InWindow
    <2> QED BY <1>1, <1>2, <1>4, <2>1, <2>2, <2>3, <2>4, <2>5 DEF WindowInv, InWindow, Counts
  <1> QED BY <1>5, <1>6

LEMMA PruneKeeps ==
  ASSUME LimiterTypes, now \in Nat, UNCHANGED now, Prune,
         NEW b \in Addresses, WindowInv(b), SpanInv(b)
  PROVE  WindowInv(b)' /\ SpanInv(b)'
  <1>1. SpanInv(b)' /\ source' = source /\ letIn' = letIn
    BY DEF Prune, SpanInv, Counts
  <1>2. CASE buckets'[b] = buckets[b]
    BY <1>1, <1>2 DEF WindowInv, NoWindow, InWindow, Counts, Opened
  <1>3. CASE buckets'[b] # buckets[b]
    <2> DEFINE t == buckets[b].windowStart
    <2>1. buckets'[b] = None /\ buckets[b] # None /\ now - t > 2 * WINDOW
      BY <1>3 DEF Prune
    <2>2. t \in Nat
      BY <2>1 DEF LimiterTypes, Buckets
    <2>3. \A q \in Requests : source[q] = b /\ letIn[q] # None =>
            letIn[q] \in Nat /\ letIn[q] <= t + WINDOW
      BY <2>1 DEF WindowInv, InWindow, LimiterTypes
    <2> HIDE DEF t
    <2>4. NoWindow(b)'
      BY <1>1, <2>1, <2>2, <2>3, LimiterAssumption DEF NoWindow
    <2> QED BY <1>1, <2>1, <2>4 DEF WindowInv
  <1> QED BY <1>2, <1>3

LEMMA ForgetKeeps ==
  ASSUME LimiterTypes, ForgetBuckets, NEW b \in Addresses
  PROVE  WindowInv(b)' /\ SpanInv(b)'
  <1>1. \A q \in Requests : letIn'[q] = None
    BY DEF ForgetBuckets
  <1>2. buckets'[b] = None
    BY DEF ForgetBuckets
  <1>3. ASSUME NEW lo, NEW hi
        PROVE  Cardinality(Within(source', letIn', b, lo, hi)) = 0
    <2>1. Within(source', letIn', b, lo, hi) = {}
      BY <1>1 DEF Within
    <2> QED BY <2>1, FS_EmptySet
  <1>4. SpanInv(b)'
    BY <1>3, LimiterAssumption DEF SpanInv, Counts
  <1> QED BY <1>1, <1>2, <1>4 DEF WindowInv, NoWindow

LEMMA LimiterStep ==
  ASSUME FrontDoorTypeOK, LimiterInv, [Next]_vars
  PROVE  LimiterInv'
  <1>1. LimiterTypes /\ now \in Nat /\ LetInInv
    BY TypeParts DEF LimiterInv
  <1>2. ASSUME NEW r \in Requests, NEW a \in Addresses, Arrive(r, a)
        PROVE  LimiterInv'
    <2>1. source[r] = None /\ UNCHANGED now
      BY <1>2 DEF Arrive
    <2>2. LetInInv'
      BY <1>1, <1>2, <2>1, LimiterAssumption
         DEF Arrive, OpenWindow, CountIn, TurnAway, LetIn, LetInInv, LimiterTypes
    <2>3. ASSUME NEW b \in Addresses
          PROVE  WindowInv(b)' /\ SpanInv(b)'
      <3>1. WindowInv(b) /\ SpanInv(b)
        BY DEF LimiterInv
      <3>2. CASE OpenWindow(r, a)
        <4>1. LetIn(r, a) /\ (a # b => buckets'[b] = buckets[b])
          BY <1>1, <3>2 DEF OpenWindow, LimiterTypes
        <4> QED BY <1>1, <2>1, <3>1, <3>2, <4>1, OpenWindowKeeps, OthersKept
      <3>3. CASE CountIn(r, a)
        <4>1. LetIn(r, a) /\ (a # b => buckets'[b] = buckets[b])
          BY <1>1, <3>3, CountTyped DEF CountIn
        <4> QED BY <1>1, <2>1, <3>1, <3>3, <4>1, CountInKeeps, OthersKept
      <3>4. CASE TurnAway(r, a)
        BY <1>1, <2>1, <3>1, <3>4, TurnAwayKeeps
      <3> QED BY <1>2, <3>2, <3>3, <3>4 DEF Arrive
    <2> QED BY <2>2, <2>3 DEF LimiterInv
  <1>3. CASE UNCHANGED <<limiterVars, now>>
    BY <1>3 DEF limiterVars, LimiterInv, LetInInv, WindowInv, SpanInv, NoWindow, InWindow, Counts,
       Opened
  <1>4. CASE PruneTimer
    <2>1. Prune /\ UNCHANGED now
      BY <1>4 DEF PruneTimer
    <2>2. LetInInv'
      BY <1>1, <2>1 DEF Prune, LetInInv
    <2> QED BY <1>1, <2>1, <2>2, PruneKeeps DEF LimiterInv
  <1>5. CASE Restart
    <2>1. ForgetBuckets
      BY <1>5 DEF Restart
    <2>2. LetInInv'
      BY <2>1 DEF ForgetBuckets, LetInInv
    <2> QED BY <1>1, <2>1, <2>2, ForgetKeeps DEF LimiterInv
  <1>6. CASE Clock
    <2>1. UNCHANGED limiterVars /\ now' = now + 1
      BY <1>6 DEF Clock
    <2>2. \A b \in Addresses : WindowInv(b) /\ SpanInv(b)
      BY DEF LimiterInv
    <2>3. \A b \in Addresses : buckets[b] # None => buckets[b].windowStart \in Nat
      BY <1>1 DEF LimiterTypes, Buckets
    <2>4. LetInInv'
      BY <1>1, <2>1 DEF limiterVars, LetInInv, LimiterTypes
    <2>5. \A b \in Addresses : SpanInv(b)'
      BY <2>1, <2>2 DEF limiterVars, SpanInv, Counts
    <2>6. \A b \in Addresses : WindowInv(b)'
      BY <1>1, <2>1, <2>2, <2>3, LimiterAssumption
         DEF limiterVars, WindowInv, NoWindow, InWindow, Counts, Opened, LimiterTypes
    <2> QED BY <2>4, <2>5, <2>6 DEF LimiterInv
  <1> QED
    BY <1>2, <1>3, <1>4, <1>5, <1>6
       DEF Next, vars, Check, Answer, FeedChanges

LEMMA LimiterAtFirst == Init => LimiterInv
  <1> SUFFICES ASSUME Init PROVE LimiterInv
    OBVIOUS
  <1>1. \A r \in Requests : letIn[r] = None /\ source[r] = None
    BY DEF Init, LimiterInit
  <1>2. \A a \in Addresses : buckets[a] = None
    BY DEF Init, LimiterInit
  <1>3. ASSUME NEW a, NEW lo, NEW hi
        PROVE  Cardinality(Within(source, letIn, a, lo, hi)) = 0
    <2>1. Within(source, letIn, a, lo, hi) = {}
      BY <1>1 DEF Within
    <2> QED BY <2>1, FS_EmptySet
  <1> QED BY <1>1, <1>2, <1>3, LimiterAssumption
          DEF LimiterInv, LetInInv, WindowInv, NoWindow, SpanInv, Counts

LEMMA LimiterHolds == Spec => [](FrontDoorTypeOK /\ LimiterInv)
  BY InitTyped, TypeStep, LimiterAtFirst, LimiterStep, PTL DEF Spec

(* However requests, the pruning timer and restarts interleave: since an   *)
(* address's window began, at most MAX_REQUESTS of its requests passed.    *)
THEOREM WindowsWithinMax == Spec => []WindowWithinMax
  <1>1. FrontDoorTypeOK /\ LimiterInv => WindowWithinMax
    <2> SUFFICES ASSUME FrontDoorTypeOK, LimiterInv, NEW a \in Addresses, buckets[a] # None
                 PROVE  Cardinality(LetInSince(a, buckets[a].windowStart)) <= MAX_REQUESTS
      BY DEF WindowWithinMax
    <2> DEFINE t == buckets[a].windowStart
    <2>1. InWindow(a, t)
      BY DEF LimiterInv, WindowInv
    <2>2. LetInSince(a, t) = Within(source, letIn, a, t, t + WINDOW)
      BY <2>1 DEF InWindow, LetInSince, Within
    <2> QED BY <2>1, <2>2 DEF InWindow, Counts
  <1> QED BY <1>1, LimiterHolds, PTL

(* And in any span of a window's length at most twice that many, wherever  *)
(* the span lies over the windows.                                         *)
THEOREM SpansWithinTwiceMax == Spec => []SpanWithinTwiceMax
  <1>1. FrontDoorTypeOK /\ LimiterInv => SpanWithinTwiceMax
    <2> SUFFICES ASSUME LimiterInv, NEW a \in Addresses, NEW t \in 0..MaxTime
                 PROVE  Cardinality({r \in LetInSince(a, t) : letIn[r] <= t + WINDOW})
                          < 2 * MAX_REQUESTS
      BY DEF SpanWithinTwiceMax
    <2>1. {r \in LetInSince(a, t) : letIn[r] <= t + WINDOW}
            = Within(source, letIn, a, t, t + WINDOW)
      BY DEF LetInSince, Within
    <2>2. t \in Int /\ SpanInv(a)
      BY ClockAssumption DEF LimiterInv
    <2>3. Cardinality(Within(source, letIn, a, t, t + WINDOW)) <= 2 * MAX_REQUESTS - 1
      BY <2>2 DEF SpanInv, Counts
    <2>4. Cardinality(Within(source, letIn, a, t, t + WINDOW)) \in Nat
      BY WithinFinite
    <2>5. Cardinality(Within(source, letIn, a, t, t + WINDOW)) < 2 * MAX_REQUESTS
      BY <2>3, <2>4, LimiterAssumption
    <2> QED BY <2>1, <2>5
  <1> QED BY <1>1, LimiterHolds, PTL

-----------------------------------------------------------------------------
(* The feed's client.  An answer that differs from the feed was asked for  *)
(* before the feed changed, and a query ends within TIMEOUT.               *)

CacheInv(d) ==
  /\ since[d] <= now
  /\ threatCache[d] # None =>
       LET c == threatCache[d]
       IN  /\ c.expires <= now + Life(c.blocked)
           /\ c.blocked # listed[d] => c.expires <= since[d] + TIMEOUT + Life(c.blocked)

QueryInv(r) ==
  check[r].pc = "asked" =>
    /\ check[r].asked <= now /\ now <= check[r].asked + TIMEOUT
    /\ check[r].blocked # listed[check[r].did] => check[r].asked <= since[check[r].did]

FeedInv == (\A d \in Dids : CacheInv(d)) /\ \A r \in Requests : QueryInv(r)

LEMMA LifeTyped == \A blocked \in BOOLEAN : Life(blocked) \in Nat
  BY FeedAssumption DEF Life

LEMMA FeedAtFirst == Init => FeedInv
  <1> SUFFICES ASSUME Init PROVE FeedInv
    OBVIOUS
  <1>1. \A d \in Dids : since[d] = 0 /\ threatCache[d] = None /\ now = 0
    BY DEF Init, FeedInit
  <1>2. \A r \in Requests : check[r].pc = "waiting"
    BY DEF Init, FeedInit, NoCheck
  <1> QED BY <1>1, <1>2 DEF FeedInv, CacheInv, QueryInv

LEMMA CheckKeeps ==
  ASSUME FeedTypes, now \in Nat, FeedInv, NEW r \in Requests, NEW d \in Dids, Check(r, d)
  PROVE  FeedInv'
  <1>1. UNCHANGED <<listed, since, threatCache, now>>
    BY DEF Check, CheckCached, CheckSkipped, AskFeed
  <1>2. \A q \in Requests : q # r => check'[q] = check[q]
    BY DEF Check, CheckCached, CheckSkipped, AskFeed, FeedTypes
  <1>3. \/ check'[r].pc = "done"
        \/ check'[r].asked = now /\ check'[r].blocked = listed[d] /\ check'[r].did = d
    BY DEF Check, CheckCached, CheckSkipped, AskFeed, FeedTypes, Verdict
  <1>4. QueryInv(r)'
    BY <1>1, <1>3, FeedAssumption DEF QueryInv
  <1>5. \A q \in Requests : q # r => QueryInv(q)'
    BY <1>1, <1>2 DEF FeedInv, QueryInv
  <1>6. \A e \in Dids : CacheInv(e)'
    BY <1>1 DEF FeedInv, CacheInv
  <1> QED BY <1>4, <1>5, <1>6 DEF FeedInv

LEMMA AnswerKeeps ==
  ASSUME FeedTypes, now \in Nat, FeedInv, NEW r \in Requests, Answer(r)
  PROVE  FeedInv'
  <1>0. PICK d \in Dids, b \in BOOLEAN : d = check[r].did /\ b = check[r].blocked
    BY DEF Answer, FeedAnswers, FeedFails, FeedTypes, Checks
  <1>1. UNCHANGED <<listed, since, now>>
    BY DEF Answer, FeedAnswers, FeedFails
  <1>2. check[r].pc = "asked" /\ check[r].asked \in Nat /\ since[d] \in Nat
    BY DEF Answer, FeedAnswers, FeedFails, FeedTypes, Checks
  <1>3. check'[r].pc = "done"
    BY DEF Answer, FeedAnswers, FeedFails, FeedTypes, Verdict
  <1>4. \A q \in Requests : q # r => check'[q] = check[q]
    BY DEF Answer, FeedAnswers, FeedFails, FeedTypes
  <1>5. \A q \in Requests : QueryInv(q)'
    BY <1>1, <1>3, <1>4 DEF FeedInv, QueryInv
  <1>6. CASE FeedFails(r)
    BY <1>1, <1>5, <1>6 DEF FeedFails, FeedInv, CacheInv
  <1>7. CASE FeedAnswers(r)
    <2>1. threatCache'[d] = [blocked |-> b, expires |-> now + Life(b)]
      BY <1>0, <1>7 DEF FeedAnswers, FeedTypes
    <2>2. b # listed[d] => now <= since[d] + TIMEOUT
      BY <1>0, <1>2, FeedAssumption DEF FeedInv, QueryInv
    <2>3. since[d] <= now
      BY DEF FeedInv, CacheInv
    <2>4. Life(b) \in Nat
      BY LifeTyped
    <2>5. \A e \in Dids : e # d => threatCache'[e] = threatCache[e]
      BY <1>0, <1>7 DEF FeedAnswers, FeedTypes
    <2>6. \A e \in Dids : e # d => CacheInv(e)'
      BY <1>1, <2>5 DEF FeedInv, CacheInv
    <2>7. CacheInv(d)'
      BY <1>1, <1>2, <2>1, <2>2, <2>3, <2>4, FeedAssumption DEF CacheInv
    <2> QED BY <1>5, <2>6, <2>7 DEF FeedInv
  <1> QED BY <1>6, <1>7 DEF Answer

LEMMA FeedStep ==
  ASSUME FrontDoorTypeOK, FeedInv, [Next]_vars
  PROVE  FeedInv'
  <1>1. FeedTypes /\ now \in Nat
    BY TypeParts
  <1>2. ASSUME NEW r \in Requests, NEW d \in Dids, Check(r, d)
        PROVE  FeedInv'
    BY <1>1, <1>2, CheckKeeps
  <1>3. ASSUME NEW r \in Requests, Answer(r)
        PROVE  FeedInv'
    BY <1>1, <1>3, AnswerKeeps
  <1>4. ASSUME NEW d \in Dids, FeedChanges(d)
        PROVE  FeedInv'
    <2>1. /\ since' = [since EXCEPT ![d] = now] /\ listed' = [listed EXCEPT ![d] = ~listed[d]]
          /\ UNCHANGED <<threatCache, check, now>>
      BY <1>4 DEF FeedChanges, Relist
    <2>2. ASSUME NEW e \in Dids
          PROVE  CacheInv(e)'
      <3>1. CASE e = d
        <4>1. since'[e] = now
          BY <1>1, <2>1, <3>1 DEF FeedTypes
        <4>2. threatCache[e] # None => threatCache[e].expires \in Nat
                /\ Life(threatCache[e].blocked) \in Nat
                /\ threatCache[e].expires <= now + Life(threatCache[e].blocked)
          BY <1>1, LifeTyped DEF FeedTypes, Entries, FeedInv, CacheInv
        <4> QED BY <1>1, <2>1, <4>1, <4>2, FeedAssumption DEF CacheInv
      <3>2. CASE e # d
        BY <1>1, <2>1, <3>2 DEF FeedTypes, FeedInv, CacheInv
      <3> QED BY <3>1, <3>2
    <2>3. ASSUME NEW r \in Requests
          PROVE  QueryInv(r)'
      <3>1. since'[check[r].did] = IF check[r].did = d THEN now ELSE since[check[r].did]
        BY <1>1, <2>1 DEF FeedTypes
      <3>2. check[r].did # d => listed'[check[r].did] = listed[check[r].did]
        BY <1>1, <2>1 DEF FeedTypes
      <3> QED BY <1>1, <2>1, <3>1, <3>2 DEF FeedInv, QueryInv
    <2> QED BY <2>2, <2>3 DEF FeedInv
  <1>5. CASE UNCHANGED <<feedVars, now>>
    BY <1>5 DEF feedVars, FeedInv, CacheInv, QueryInv
  <1>6. CASE Restart
    <2>1. /\ UNCHANGED <<listed, since, now>> /\ \A d \in Dids : threatCache'[d] = None
          /\ \A r \in Requests : check'[r].pc # "asked"
      BY <1>6 DEF Restart, ForgetAnswers, NoCheck
    <2> QED BY <2>1 DEF FeedInv, CacheInv, QueryInv
  <1>7. CASE Clock
    <2>1. UNCHANGED feedVars /\ now' = now + 1 /\ QueriesInTime
      BY <1>7 DEF Clock
    <2>2. ASSUME NEW d \in Dids
          PROVE  CacheInv(d)'
      <3>1. since[d] \in Nat
        BY <1>1 DEF FeedTypes
      <3>2. threatCache[d] # None =>
              threatCache[d].expires \in Nat /\ Life(threatCache[d].blocked) \in Nat
        BY <1>1, LifeTyped DEF FeedTypes, Entries
      <3> QED BY <1>1, <2>1, <3>1, <3>2 DEF feedVars, FeedInv, CacheInv
    <2>3. ASSUME NEW r \in Requests
          PROVE  QueryInv(r)'
      <3>1. check[r].asked \in Nat
        BY <1>1 DEF FeedTypes, Checks
      <3> QED BY <1>1, <2>1, <3>1, FeedAssumption DEF feedVars, FeedInv, QueryInv, QueriesInTime
    <2> QED BY <2>2, <2>3 DEF FeedInv
  <1> QED
    BY <1>2, <1>3, <1>4, <1>5, <1>6, <1>7 DEF Next, vars, Arrive, PruneTimer

(* A verdict on the feed's word, or on the cache's, is never more than the *)
(* life of its kind of answer and of a query behind the feed.              *)
LEMMA VerdictIsRecent ==
  ASSUME FrontDoorTypeOK, FeedInv, [Next]_vars, NEW r \in Requests, Answers(r),
         check'[r].blocked # listed[check'[r].did]
  PROVE  now - since[check'[r].did]
           <= (IF check'[r].blocked THEN BLOCKED_TTL ELSE CLEAN_TTL) + TIMEOUT
  <1>1. FeedTypes /\ now \in Nat
    BY TypeParts
  <1>2. check'[r] # check[r]
    BY DEF Answers
  <1>3. (\E d \in Dids : CheckCached(r, d)) \/ FeedAnswers(r)
    <2>1. ASSUME NEW q \in Requests, NEW d \in Dids, Check(q, d)
          PROVE  q = r /\ CheckCached(r, d)
      <3>1. q = r
        BY <1>1, <1>2, <2>1 DEF Check, CheckCached, CheckSkipped, AskFeed, FeedTypes
      <3> QED BY <1>1, <2>1, <3>1
              DEF Check, CheckSkipped, AskFeed, FeedTypes, Verdict, Answers
    <2>2. ASSUME NEW q \in Requests, Answer(q)
          PROVE  q = r /\ FeedAnswers(r)
      <3>1. q = r
        BY <1>1, <1>2, <2>2 DEF Answer, FeedAnswers, FeedFails, FeedTypes
      <3> QED BY <1>1, <2>2, <3>1 DEF Answer, FeedFails, FeedTypes, Verdict, Answers
    <2>3. ~Restart
      BY <1>2 DEF Restart, ForgetAnswers, NoCheck, Answers
    <2>4. check' # check
      BY <1>2
    <2> QED
      BY <2>1, <2>2, <2>3, <2>4
         DEF Next, vars, feedVars, Arrive, FeedChanges, Relist, PruneTimer, Clock
  <1>4. ASSUME NEW d \in Dids, CheckCached(r, d)
        PROVE  now - since[check'[r].did]
                 <= (IF check'[r].blocked THEN BLOCKED_TTL ELSE CLEAN_TTL) + TIMEOUT
    <2>1. check'[r].did = d /\ check'[r].blocked = threatCache[d].blocked
      BY <1>1, <1>4 DEF CheckCached, FeedTypes, Verdict
    <2>2. threatCache[d] # None /\ now < threatCache[d].expires
          /\ threatCache[d].expires \in Nat /\ since[d] \in Nat
          /\ threatCache[d].blocked \in BOOLEAN
      BY <1>1, <1>4 DEF CheckCached, Fresh, FeedTypes, Entries
    <2>3. threatCache[d].expires <= since[d] + TIMEOUT + Life(threatCache[d].blocked)
      BY <2>1, <2>2 DEF FeedInv, CacheInv
    <2> QED BY <1>1, <2>1, <2>2, <2>3, FeedAssumption DEF Life
  <1>5. ASSUME FeedAnswers(r)
        PROVE  now - since[check'[r].did]
                 <= (IF check'[r].blocked THEN BLOCKED_TTL ELSE CLEAN_TTL) + TIMEOUT
    <2>1. check'[r].did = check[r].did /\ check'[r].blocked = check[r].blocked
          /\ check[r].pc = "asked"
      BY <1>1, <1>5 DEF FeedAnswers, FeedTypes, Verdict
    <2>2. check[r].asked \in Nat /\ since[check[r].did] \in Nat
      BY <1>1, <2>1 DEF FeedTypes, Checks
    <2>3. check[r].asked <= since[check[r].did] /\ now <= check[r].asked + TIMEOUT
      BY <2>1 DEF FeedInv, QueryInv
    <2> QED BY <1>1, <2>1, <2>2, <2>3, FeedAssumption
  <1> QED BY <1>3, <1>4, <1>5

(* Cached answers run out, also when an old answer was cached over a newer *)
(* one: a change of the feed is seen in time.                              *)
THEOREM FeedChangesSeen == Spec => FeedChangesAreSeen
  <1>1. FrontDoorTypeOK /\ FeedInv /\ [Next]_vars =>
          [\A r \in Requests : Answers(r) =>
             LET d == check'[r].did
                 blocked == check'[r].blocked
             IN  blocked # listed[d] =>
                   now - since[d] <= (IF blocked THEN BLOCKED_TTL ELSE CLEAN_TTL) + TIMEOUT]_vars
    BY VerdictIsRecent
  <1> QED BY <1>1, InitTyped, TypeStep, FeedAtFirst, FeedStep, PTL DEF Spec, FeedChangesAreSeen
=============================================================================
