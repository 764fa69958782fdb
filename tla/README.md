# ContactHI: a verification development

ContactHI lets a person declare, in a contract on a chain, who may contact them
and how; routers ask the contract before they deliver a message and keep the
record of messages in a federation store that all of them share.  This
directory holds TLA+ modules of the parts that decide and record, the TLC runs
that check them on small instances, and TLAPS proofs about them.

## Inventory

| Component | State | Operations | What is hard | What makes it correct |
|---|---|---|---|---|
| preference registry contract (`contracts/src`) | per owner: a profile (rules, default policy, webhook) and a set of blocked patterns | register, update, add rule, remove rule, block, unblock, delete; queries check_permission, is_blocked | which of several matching rules decides; windows that wrap midnight; limits tested by four handlers; the blocklist outlives the profile | an owner's answers change by that owner's acts and the clock only; a bar holds until lifted; limits hold; the two queries agree |
| federation store (`router/spacetimedb-module`) | tables of messages, thread links, acks, inbox entries, router nodes, cached preferences | seven reducers, each a transaction | duplicate and late calls; the sweep against late acks; eviction of nodes | a message and its ack live together; history is only added to; the sweep catches up with what is left pending, stale or silent |
| send handler (`router/router-node/src/routes/send.ts`) and envelope validation | locals of the requests under way | POST /v1/send: validate, ask the registry, rate limit, threat feed, record, find endpoints, deliver, ack, answer | seven awaits; every one can fail or answer late; handlers interleave; the process can die | a refused send leaves nothing; "delivered" is true; every request is answered |
| registry client (`services/registry.ts`) | two caches of five minutes | checkPermission, getPreferences | an answer read before a change is cached after it; fail-open | a withdrawn permission is used for a bounded time |
| sender rate limit (`services/rateLimit.ts`) | none: it counts rows of the store | enforceRateLimit | the count and the write are apart; created_at is another clock's time | the overshoot is bounded |
| store client and timers (`services/spacetime.ts`) | timers | reducer calls with a timeout, count, heartbeat, sweep | a call that timed out is applied later | the store and the answer given do not contradict each other for ever |
| delivery (`services/delivery.ts`) | none | channels in order until one succeeds | a channel that succeeded but answered with an error | see send handler |
| threat feed client (`services/nullcone.ts`) | a cache with two lifetimes | checkSender | queries overlap and their answers are cached in any order; stale clean entries; fail-open | a change of the feed is seen within a cache life and a query |
| per-IP limiter (`middleware/rateLimit.ts`) | a bucket per address | one middleware, one pruning timer | window boundary, pruning between two requests | at most the maximum per window, fewer than twice that in any span of a window's length |
| other routes, start-up, configuration | none of their own | status, health, check-permission; main | check-permission fills the cache that send reads; the posture without a registry | a question leaves no trace; no start without an explicit choice |
| SDK client and envelopes (`sdk/src/client.ts`, `envelope.ts`, `did.ts`) | configuration only | create, sign, verify, validate, send, waitForAck | two validators that must agree; a deadline, a poll interval and a late answer | what is sent is judged alike on both sides; a wait ends in time and its timeout is true |
| SDK preferences (`sdk/src/preferences.ts`) | configuration only | register, update, addRule, removeRule, blockSender, unblockSender, get | read-modify-write over the network, positions that shift, a write whose answer is lost | what a caller did not mention survives; a removal hits the rule its caller saw; a confirmed block bars |
| browser extension (`extension/src`) | settings and model status in browser storage, a model in the worker's memory, marks in pages | detect, scan, decorate, save, load the model | concurrent scans and saves; the worker dies; storage fails | a text is decorated once; off means off; every scan ends; only overlapping saves undo each other |
| detection heuristics (`extension/src/detection/adapters/stub.ts`) | none | a score of a text | - | - |
| web pages, schema, scripts | none | - | - | - |

The parts interact by calls only.  The router queries the contract (a read) and
calls reducers of the store; the recipient writes to the contract and reads the
store's inbox; the sender talks to the router, and the SDK does so for it.  The
extension talks to nothing but Chrome and the host of its model.  `PROJECT.json` lists the
hazards at their lines, each with the properties that would notice.

## Modules

| Module | Models |
|---|---|
| `Patterns` | the blocklist patterns: a DID is a sequence of chunks, `*` and `.` being chunks of their own |
| `Registry` | the contract: `prefs` is `PREFERENCES`, `blocklist` is `BLOCKLIST`, `now` the block time; one action per execute message, an operator per query |
| `Consent` | the abstract specification: who has a profile, who is barred, what is granted at which time |
| `RegistryProperties` | the contract's properties and the refinement mapping to `Consent` |
| `Registry_proofs` | theorems about the contract: its state, and the answers it gives |
| `Store`, `StoreProperties` | the tables and reducers, with any caller; what must hold of them |
| `Store_proofs` | theorems about the store |
| `Router`, `RouterProperties` | `Store` composed with the request handlers of one router, its caches, its timers and the registry as it answers; what must hold of all together |
| `DeliveryRecord` | the abstract specification of what a router promises: which messages it took on, what is on record of each, where each reached its recipient, what its senders were told; the mapping is in `RouterProperties` |
| `Router_proofs`, `Delivery_proofs` | theorems about the router: consent and endpoints; what a send leaves in the store, the delivery record, how far a rate limit can be overshot |
| `RouterClock` | the requests and the clock that parts of a router process share |
| `IpLimiter`, `ThreatFeed` | the per-address limiter; the client of the threat feed and its cache |
| `FrontDoor` | the two together in one process that may be started again |
| `FrontDoor_proofs` | theorems about both |
| `Preferences` | `Registry` composed with the calls of the SDK's `PreferencesManager` and a relay between them |
| `Preferences_proofs` | theorems about these calls |
| `Envelope` | envelopes and DIDs as the SDK makes, signs and checks them, and as the router checks them |
| `Client` | `Store` and `Envelope` composed with one `send` and one `waitForAck` of the SDK |
| `Client_proofs` | theorems about both calls and about what the SDK sends |
| `ShieldSettings`, `LocalModel` | the extension's settings object and its saves; its worker and the load of the model |
| `Extension` | the two composed with the scanners in the pages |
| `Extension_proofs` | theorems about saves, and about worker and scanners |
| `MCRegistry`, `MCStore`, `MCRouter`, `MCFrontDoor`, `MCPreferences`, `MCClient`, `MCExtension` | values of the constants for TLC |

Operators whose comment begins with "Mutated form" are not part of any
specification: each is a plausible bug, named in `PROJECT.json` with the
property that notices it.

**Registry.** A transaction that fails is rolled back, so an action's guard is
the conjunction of the handler's checks and a failed call is no step.  The sender of a
transaction is the owner it acts for.  The loop of `find_best_rule` is specified
by what it returns (`IsBestRule`); the loop itself is `FindBestRuleLoop`, one
`BetterRule` per rule, and `LoopFindsBestRule` compares the two.  `updated_at`, events and the two queries
that return a profile as it is are left out.

**Store.** A table is a function from its key, with `None` for no row.  A
reducer that returns early is a step that leaves everything unchanged, since its
caller cannot tell.

**Router.** A handler holds the processor between two awaits, so an action is
the code from one await to the next together with what the awaited service
did; `handler[h].pc` names the await.  A registry query is two actions
(`AskRegistry` on the chain, `RegistryAnswers` in the router) because the cache
is written at the second.  A store call is one action when it returns in time;
when it throws, its call is put into `late` and may be applied at any later
moment or never (`LateCall`).  `Crash` loses the handlers and the caches.
`chain` is the registry seen through `check_permission`; its recipients, rules
and contact hours appear as changes of the answer; `webhooks` is the part of the
profiles that `getPreferences` returns.  `CheckArrives` is POST
/v1/check-permission, a handler without a message that shares the cache and the
count with the sends.  Ghost variables: `lastAllowed` and `lastHeld` (when the
registry last allowed a pair, when a webhook was last its recipient's),
`accepted` (when a row was written, and by what count its send was let through),
`posts` (deliveries a webhook received), and the field `count` of a handler (the
limit and the window its send was counted in, if it was).  `CountsFail` lets the
count of messages fail apart from the store's other calls.

**FrontDoor.** `buckets` and `threatCache` are the maps of the same names.  A
request passes the limiter in one action, since the middleware awaits nothing;
a query to the feed is two actions, and the feed evaluates it at the first.
`letIn`, `since` and the field `from` are ghosts.  `Restart` empties both maps.

**Preferences.** A call that writes is under way until the relay applies it as
an action of `Registry` or refuses it, and what its caller is told is a step of
its own: it may come before the write does.  The relay is not part of the
repository: the router has no `/v1/preferences`.  `get` may return null for a
profile that exists, because it takes any error whose text contains "unknown" or
"not found" for a missing profile (`preferences.ts:246`).  `moved` and `undone`
are ghosts.

**Client, Envelope.** The router is reduced to what a sender can tell of it: a
refusal, or a row in `Store` and an ack.  A DID is the sequence of its parts, a
payload one of a few kinds that JSON and the canonical serialisation tell
apart, a signature the key and what was signed.

**Extension.** A run of a scanner goes from one await to the next.  The promise
of the model is `loader`, named for the await it hangs in; `modelStatus` is in
storage and outlives the worker.  `Popups` and `OptionsPages` are calls of
`saveSettings` that may be under way at one time; a page that is clicked twice has
two.  A call to storage may fail, which takes the
load through its catch block and, when that fails too, leaves a rejected promise
for good ("stuck"): all later detections then fall back to the heuristics.  When
storage fails under a DETECT or a GET_SETTINGS the page's run ends with the error
(`HandlerFails`).

## Runs

| Run | Shows | Instance |
|---|---|---|
| `RegistryOwners` | limits, agreement of the queries, refinement of `Consent` | two owners, two senders, rules of three kinds (one invalid), at most two rules and one pattern, two minutes |
| `RegistryRules` | which rule decides; what adding and removing a rule changes | one owner, eight rules, two of every tier, at most three at a time |
| `RegistryHours` | windows | one rule with any of 400 windows (bounds out of range too), a day of 4 hours of 3 minutes, two days |
| `StoreCalls` | rows together, stamps, counters, history, eviction; the sweep catches up | one message, every status and an unknown one, three instants |
| `RouterConsent` | a withdrawn permission, and a webhook given up, are used for less than a cache life plus the latency of a query; refused sends leave nothing | two handlers at once, sends or questions for permission, one change on the chain, registry failures, threat listings, heartbeats, inbox readers |
| `RouterLimit` | overshoot of a limit of one by overlapping sends | three sends, two at a time, created at the router's clock or a tick behind it, counts that fail, windows of two ticks |
| `RouterDelivery` | what is reported delivered was; every request is answered; every message settled; `DeliveryRecord` is implemented | a send and its retry, all failures, late calls, one crash, the sweep |
| `FrontDoor` | at most the maximum per window, fewer than twice it in a span; a change of the threat feed is seen in time | four requests of one client, a limit of two, two changes of a listing, a restart, four ticks |
| `SdkPreferences` | what survives concurrent calls of one person's apps | three calls of every kind, two rules, at most three in a profile, a pattern typed with and without white space, one change elsewhere |
| `SdkClient` | a wait ends in time and with what happened; where the two sides judge an envelope alike | one send with a good message and twenty-three faulty, borderline or ill-typed ones, three clock skews, two keys; a wait shorter and one longer than the poll interval |
| `Extension` | single decoration, the switch, saves, the model's status, the end of every scan | two scans of a pane, an inbox row or another page, two saves, one death of the worker or failure of storage |
| `LimitClock` | *violated*: a limit of one accepts two in a window although sends never overlap | two sends created a tick before they arrive |

The bounds.  Owners only meet in "the others are untouched", so two suffice, and since
nothing else tells them apart the run `RegistryOwners` takes them as symmetric;
three rules are the least for which a removal can reorder two others; the eight rules contain every
pair of tiers and ties in each tier.  Rows of the store are independent by key
except for a node's counter, for which duplicates of one message are enough.
The clock needs one value before, at and after each expiry: one or two ticks
are enough for ttl, cache life, latency and node timeout.  In the two runs
about the rate limit a ttl is two ticks, so that a message created in one window
can still be counted in the next, and a cached answer outlives the run.  `MaxTime`, `MaxChanges`,
`MaxCrashes`, `MaxInFlight` and `MaxLatency` bound the environment and not the
code; `MaxInFlight` and `MaxLatency` appear in the properties that depend on
them.  In `RouterLimit` two sends overlap and a third comes after them, in the same
window or the next: the bound, one message above the limit of one, is reached.
In `RouterConsent` two handlers run: that a third one uses a grant which came
back late and overwrote a newer denial is covered by the theorem
`WithdrawalsHonoured` only.
In `FrontDoor` a bucket is opened by one request and counts a second, and the
requests of two windows of one tick meet in a span: three of the four get into it,
which is the bound.  The theorems hold for every limit.
Three calls are needed for a write between the read and the write of another call and a third that lifts or repeats it.  In `SdkClient` the poll
interval is three ticks and a status request takes one, so that a wait can
overrun by an answer, by a poll, or not at all.  In `Extension` two scans of
one text overlap, and one mishap is enough to reach every state of `loader`.

Deadlock is checked in the runs of the contract, the store and the router.  The
others end when their requests, calls, saves or ticks are used up, so
`CHECK_DEADLOCK` is off there.

The fairness.  `FairStoreSpec` and `FairSpec` assume that the five-minute timer
keeps calling `expire_messages` and that time goes on; the timer is set for
the life of the process and set again at every start.  `FairSpec` assumes in
addition that a handler at an await goes on.  Store, threat feed and webhook
calls have a timeout in the code.  The registry query has none: there the
assumption is about the RPC node and its connection.  Nothing is assumed of
senders, recipients, late calls and crashes.  `FairSpec` of `Extension` assumes
that Chrome starts the worker again for a message that waits, that the tasks of
the worker and of a page run, and that the download of the model ends, with the
model or with an error.  Nothing is assumed of deaths and failing storage, of
users, or of pages that change.

## Proofs

`Registry_proofs` proves for every value of the constants that satisfy the
assumptions in `Registry`:

- `TypeCorrect`: `Spec => []TypeOK`.
- `LimitsKept`: `Spec => []WithinLimits`.  `WithinLimits` is not inductive by
  itself: that the cardinality grows by at most one needs the blocklist to be
  finite, so `LimitsInv` adds that to it and to `TypeOK`.
- `ConsentImplemented`: `Spec => ConsentKept`, the refinement.  What is granted is
  mapped to a function of time, the answer `CheckPermissionAt` gives at every
  reading of the clock, so that the passing of time can be told from a change of
  rules.  Every reachable state satisfies what `Consent` promises (nothing granted
  without a profile or to a barred sender, at any time); every contract call is
  mapped to Declare, Forget, Bar or Unbar and leaves the answers of other owners
  alone (`StepIsLocal`); a block takes away exactly the blocked senders' grants
  (`BlockBars`) and an unblock nothing (`UnblockUnbars`); and the clock is mapped
  to TimePasses, which changes time only.  It rests on `TypeCorrect`.

The assumptions are about the inputs: rules are well typed, https URLs are
among the URLs, the limits are natural numbers, hours and minutes are positive, `None` is no profile.
Nothing is assumed about how many owners, senders or rules there are.

and what the contract answers:

- `LoopFindsBest` (`LoopFindsBestRule`): the loop of `find_best_rule` and its
  specification agree for every list an owner can store.  `BestSoFar` is the
  invariant of the loop: after n rules it holds the first of them of the least
  tier that matches, or 0 if none does (`BetterIsBest` is the step).  The
  induction is over the number of rules seen, for the one predicate needed, by
  a least counterexample.
- `QueriesAlwaysAgree` (`QueriesAgree`) from types alone, since both queries
  read one blocklist.
- `AppendedRulesYield` (`AppendedRuleYields`) and `RemovalsAreLocal`
  (`RemovalIsLocal`).  Both reduce to `SameDecision`: an answer stays when the
  rule that decides it is the same one, wherever it stands.  That there is a
  best rule among those that match (least tier, then least position) rests on the
  well-foundedness of the natural numbers; that there is only one, on its
  definition.
- `AnswersTurnAtBounds` (`AnswersChangeAtBounds`) and `WindowsOpenAsLong`
  (`WindowsOpenForTheirLength`), with `LimitsInv`, because only a usable window
  lies within a day: arithmetic modulo the length of a day, for any number of
  hours and minutes, and a count of the open minutes of a window that passes
  midnight.

`Store_proofs` proves, for any callers and any number of messages and nodes,
with or without fairness:

- `StoreTypeCorrect`: `StoreSpec => []StoreTypeOK`, one lemma per reducer.
- `RowsStayTogether` (`RowsTogether`), `StampsAgree` (`StampsMatchStatus`) and
  `HistoryIsKept` (`HistoryKept`).  All three follow from one lemma,
  `RowsChange`: a step either creates a message's rows (`Born`) or keeps its row
  and thread and leaves, stamps or closes its ack (`Kept`).  `HistoryKept` holds
  because of `RowsTogether`: a submission looks for a message and then writes an
  ack, and without that invariant it could overwrite one.
- `LiveNodesRemain` (`LiveNodesStay`), from types alone.
- `CountersBounded` (`CountersWithinRows`).  The inductive invariant
  `CountersInv` adds that the messages of a node are finitely many, without
  which their number does not grow by one.

The assumptions are in `Store`: times and lifetimes are natural numbers and
`None` is no row and no value of a column.

`FrontDoor_proofs` proves, for any number of clients, requests, senders and
restarts and any window, limit, lives and timeout:

- `FrontDoorTypeCorrect`: `Spec => []FrontDoorTypeOK`.
- `WindowsWithinMax` (`WindowWithinMax`) and `SpansWithinTwiceMax`
  (`SpanWithinTwiceMax`).  A bucket says nothing of what was let in before it
  was opened, so the invariant `LimiterInv` also counts that: while a bucket
  stands, the requests let in since its window began are at most its count and
  the maximum, those let in during the window's length before it are fewer than
  the maximum, since a window begins with a request of its own and ends before the
  next one begins, and nothing was let in after its window's end.  It is kept
  because windows begin more than a window's length apart and only buckets of an
  age of more than two windows are pruned.  With it, any span overlaps two such
  counts at most.
- `FeedChangesSeen` (`FeedChangesAreSeen`).  `FeedInv` says of every cached
  answer and every query under way that differs from the feed that it was asked
  before the feed last changed; with the bound on a query's life that limits
  the expiry of the entry, whichever of two answers was cached last.

The assumptions are in `RouterClock`, `IpLimiter`, `ThreatFeed` and `FrontDoor`:
the requests of a behaviour are finitely many, the constants are natural
numbers, and `None` is no value.

`Router_proofs` proves, for any number of handlers at a time, any registry,
recipients who change their minds at any time, failing services, calls applied
late and crashes:

- `RouterTypeCorrect` (`RouterTypeOK`).  `RouterTyped` says of each step what a
  handler at it knows (`Coherent`): a running handler its pair, one past the
  permission a channel to try, one past the limit a message, and only one that
  is done has a response.
- `WithdrawalsHonoured` (`WithdrawalsAreHonoured`).  The property speaks of one
  step, so the invariant `AnswersBacked` speaks of what waits: an answer on its
  way was the chain's when the query was evaluated, at most `MaxLatency` ago, and
  a cached answer was so at most `MaxLatency` before it was cached.  Nothing is
  said of the order in which answers come back, so an old grant may overwrite a
  newer denial and the bound holds all the same.
- `MovedWebhooksLeft` (`MovedWebhooksAreLeft`): the same for the endpoints, which
  are asked for and cached apart (`EndpointsHeld`); it also says that a handler
  knows no endpoint before it has asked, without which the failed query could
  deliver to an old one.

`Delivery_proofs` adds the store and the calls under way:

- `TablesTyped`: the router's calls, late ones included, keep the tables' types.
  `AnyStoreStep` shows that whatever happens is, for the store, one reducer call,
  a tick or nothing.
- `DeliveredIsReached` (`DeliveredMeansReached`).  The invariant `ClaimsTrue`
  follows the claim wherever it is kept: in a handler's result, in a call the
  handler gave up on, in the ack and in the response.
- `RefusedLeftNothing` (`RefusedLeavesNoTrace`).  `TracesOwned`: whatever there is
  of a message, calls under way included, belongs to a send of it that is past
  the write; `WroteStays`: such a send is never answered as refused.
- `DeliveryImplemented` (`DeliveryKept`), the refinement of `DeliveryRecord`.  Its
  invariant `DeliveryInv` is the conjunction of the above and of the store's
  `RowsTogether`, and each part is needed: a refusal may drop a message from those
  taken on only if nothing is left of it (`TracesOwned`); what a send, or a call it
  gave up on, writes must belong to a message that is still taken on (`TracesOwned`
  again); a submission that writes an ack must open a record and not reopen one
  (`RowsTogether`); and a channel may be recorded or told only after the message
  went there (`ClaimsTrue`).  Every step of the router is then one abstract act on one
  message, a sweep, or nothing.
- `RoutedRowsTogether` (`RowsTogether`): the store's invariant under the router's
  calls, late ones included, as a part of that invariant.
- `OvershootBounded` (`OvershootIsBounded`), for any skews of `created_at`, limits
  that change, queries and counts that fail, late calls and crashes.  The count of
  messages alone is not inductive: a send that was counted and has not written yet is
  one too many that nobody sees.  `WindowsFit` counts these sends (`Outstanding`)
  with the messages of a window.  A send that is let through has just found fewer
  messages than the limit (`CountCovers`), those that have not written are at most
  `MaxInFlight` with it, and a write moves a send from the one count to the other.
  The property is about what a count can promise: the messages created since a
  window began whose sends were counted against that limit, in that window or
  before (`CountedSince`).  Three kinds of messages are left out of it because nothing
  bounds them.  A message created behind the clock, in a window that is over, is
  counted by no later send (`spacetime.ts:218`, the run `LimitClock`).  When the
  registry or the count fails, the send goes on without a count (`registry.ts:245`,
  `services/rateLimit.ts:65`).  And a send the sender was told to repeat may be
  written later, when nobody counts it any more (`late`).

The assumptions are in `Store` and `Router`: the life of a cache entry is
positive, a handler may run, answers of the chain are well typed, the wire names
of channels and the error code are among the store's, and `None` is no response.

`Preferences_proofs` proves, for any number of concurrent calls of a person's
apps, any rules and patterns, a relay that refuses, loses answers and writes late,
and any number of changes made elsewhere:

- `BlocksHold` (`AcknowledgedBlocksHold`).  Between the answer "ok" and now the list
  may have been changed by any other call, so `PreferencesInv` says it of every
  applied block, confirmed or not (`BlockIsListed`): its trimmed pattern is in the
  list until an unblock of that pattern was applied.
- `OmittedFieldsKept` (`OmittedFieldsSurvive`), `RemovalsHit`
  (`RemovalHitsWhatWasSeen`) and `RulesLeaveDeliberately` (`RulesLeaveOnPurpose`).
  `SeenIsStored` carries what a call has read over to its write: as long as the
  write is on its way and nothing is known to have changed, the profile stored is
  the one the call has seen.  The last of the three also needs that registering is
  refused for an owner who has a profile, which is in the contract.

It takes over the assumptions of `Registry` and adds that the inputs of the calls
are well typed.

`Client_proofs` proves, for any message, any keys and skews, any timeout, poll
interval and latency, and any end of the clock:

- `WaitsEnd` (`WaitEndsInTime`), `TimeoutsMissNothing` (`TimeoutsAreTrue`) and
  `SentAreKnown` (`SentIsKnown`).  The invariant `ClientInv` relates the three
  clocks of a wait: a question was asked before the deadline and is not older than
  an answer may take, a sleep ends by the deadline and no later than an answer and
  an interval after the question, and a message that came to an end since the last
  question did so after it.  That an end is an end rests on the store
  (`AckStamped`): no reducer turns a settled ack into a pending one.
- `EnvelopesArrive` (`EnvelopesTravel`), for whatever is passed to `send`, values
  TypeScript forbids included.  The two validators, written in different places and
  orders, are compared in both directions over what JSON makes of an envelope, and
  the property names the values on which they differ: a payload JSON drops, a
  priority that is NaN, a `reply_to` that is no text.  Sorting keys, signing and
  parsing agree for every payload without dates.

Its assumptions are that times are natural numbers, the poll interval is positive,
what is passed to `send` has the types of the SDK's parameters, the two constants
"did" and "chi" are strings (no prover knows that a literal is in STRING),
and that `None` is no value of a field.

`Extension_proofs` proves, for any number of pages, saves, scans, texts and deaths
of the worker:

- `SavesOverlapOnly` (`SavesKeepTheRest`), from `SettingsInv`: what a save read is
  what is stored, but for the fields known to have changed since.  The attempt
  found a flaw in the ghost `stale`, which held the fields other saves were *asked*
  to change.  With three saves that is not enough: a save that puts an old value back
  changes a field nobody asked for, and a third that overlaps it puts back the other
  one.  TLC finds that with two popups, an options page and three saves, and not
  with the two saves of the run `Extension`; now the ghost holds `ChangedFields`.
  A third page and save is more than TLC can do together with worker and scanners,
  so beyond two saves the property rests on the theorem.
- `SettingsImplemented`: every step of the whole extension is a step of
  `SettingsSpec` or leaves the settings alone, so the former holds of it as well.
- `DecorationsAreSingle` (`DecoratedOnce`): a text carries as many decorations as
  marks (`MarksCount`), because the check of the mark and the decoration are one
  step; the invariant speaks of each scan alone, however many overlap.
- `StatusIsTrue` (`ReadyMeansLoaded`) and `OffIsOff` (`OffMeansOff`), the latter from
  `RunsOK`: a scan that asked while the shield was off, and was off ever since, has no
  verdict.

Its assumptions are that the defaults are settings, the three kinds of texts are
disjoint and `None` is no text.

Every safety property that a run checks is stated by one of these theorems, but for
`AcceptedWithinLimit`, which is violated.  Only model-checked is liveness
(`SweepCatchesUp`, `EveryRequestIsAnswered`,
`EveryMessageIsSettled`, `RunsEnd`), which is beyond the prover.  Only proved are the
type invariants of contract and store (`TypeCorrect`, `StoreTypeCorrect`), of the
front door (`FrontDoorTypeCorrect`) and of the tables under the router
(`TablesTyped`), which hold for every value of the constants and which every other
proof rests on.

## Where the code and its texts disagree

Shown by the run `LimitClock`, with the counterexample TLC finds:
`countMessagesInWindow` looks at `created_at`, the sender's clock
(`spacetime.ts:218`), so that a limit of one accepts two messages in a window.
The models have these as well, without a run:

- the contract decides by the most specific rule (`helpers.rs:136`, as
  `contracts/README.md:68` says, and as `LoopFindsBestRule` and `AppendedRuleYields`
  have it), while `protocol-spec.md:400` evaluates rules in order and applies the
  first that matches: with a catch-all before an exact rule the two differ;
- `blockSender` takes "a DID or domain" (`preferences.ts:168`, `sdk/README.md:228`), but a
  bare domain matches only a sender whose DID is that very text
  (`helpers.rs:199`), so such a block bars nobody;
- a domain pattern loses its dot with its star, so `*.evil.com` blocks
  `notevil.com` too (`helpers.rs:202`, against `helpers.rs:192` and
  `contracts/README.md:81`);
- a registry that cannot be reached counts as consent (`registry.ts:245`, against
  `protocol-spec.md:952` and `:975`);
- a retry under the same id is delivered again (`send.ts:111`, against
  `protocol-spec.md:1001`);
- the sweep turns the ack of a delivered message into expired (`lib.rs:415`),
  while `protocol-spec.md:778` has Expired only when the ttl ends before delivery and
  `:906` lets it remain Delivered; no property asks for either, and
  `SweepCatchesUp` speaks of undelivered messages only;
- the SDK's `validateEnvelope` is to mirror the router's (`envelope.ts:255`), but a
  priority of NaN passes `createEnvelope`, travels as null and is `Number(null) = 0`
  to the router, and the router does not look at a `reply_to` that is no text
  (`envelope.ts:318`), both of which the SDK refuses;
- the SDK turns the router's 429 into a `RouterError` and not into
  `RATE_LIMIT_EXCEEDED` (`client.ts:257`, `send.ts:74`, against
  `sdk/README.md:107`);
- the popup shows "Model error - using fallback" (`popup.ts:53`) also when the
  model is loaded and an unrelated write to storage failed;
- an inbox row is marked as scanned before it is known whether it can be
  examined, so a row whose snippet comes late is never looked at (`gmail.ts:51`);
- two overlapping sends can both pass a limit of one: each counts before the
  other writes (`send.ts:69`, `state.rs:97`); `OvershootIsBounded` says how far;
- `update_ack` accepts any known status after any other, so an expired ack can
  become delivered when a slow send ends (`lib.rs:237`; the SDK treats expired
  as terminal, `client.ts:174`);
- a send whose ttl runs out during its awaits is delivered nevertheless
  (`protocol-spec.md:553`);
- a failed delivery is answered "delivery will be retried" (`send.ts:172`), and
  `protocol-spec.md:793` and `:886` ask for up to three retries of a webhook, but
  nothing retries it: `deliver` goes on to the next channel at once, and when none
  takes the message its ack says failed while the sender is told "pending".

## Not modelled

Push, SMS and e-mail services: a profile of the contract carries no endpoint for them,
so `deliver` fails these channels at once.  The router without a registry
contract: a configuration in which every permission is one constant answer.
Decoding of SQL results, hex and text encodings, the resolution of DIDs: pure
conversions.  The SDK's reads of permissions and the health route change
nothing.  The detection heuristics of the extension score the words of a text;
`Extension` takes any verdict of theirs.  The rendering of popup and options
page, web pages, generated schema and scripts: no state.

## Plan

1. Contract, store, send handler: modules, runs, theorems about
   the contract and the store (done).
2. The per-IP limiter, the threat feed's cache, check-permission, the webhook's
   cache, with theorems about the first two (done).
3. SDK: envelopes, `send` and `waitForAck` over the store, concurrent profile
   updates over the contract.  Extension: settings, worker, scanners (done).
4. Proofs about the contract's answers, and about the router: consent,
   endpoints, limits, traces of refused sends and claims of delivery; about the
   SDK and about the extension (done).
5. An abstract delivery record that router and store implement, and the
   contract's loop over rules (done).
