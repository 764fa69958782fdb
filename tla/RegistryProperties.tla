------------------------- MODULE RegistryProperties -------------------------
(***************************************************************************)
(* What must hold of the registry contract.                                *)
(***************************************************************************)
EXTENDS Registry

Answer(owner, r) == CheckPermission(owner, r.sender, r.kind[1], r.kind[2])

Kinds == EntityTypes \X IntentTypes
Requests == [sender : Senders, kind : Kinds]

-----------------------------------------------------------------------------
(* Type invariant: every stored profile and pattern is one the messages    *)
(* can carry.                                                              *)
TypeOK ==
  /\ prefs \in [Owners -> HumanPreferences \cup {None}]
  /\ blocklist \in [Owners -> SUBSET PatternInputs]
  /\ now \in 0..MaxTime

(* Whatever sequence of messages an owner sends (register, update, rules   *)
(* one at a time, delete and register again), what is stored stays within  *)
(* MAX_RULES and MAX_BLOCKLIST, and no stored rule has a zero rate limit   *)
(* or a window bound outside the day.                                      *)
UsableRule(rule) ==
  /\ rule.rateLimit # None => rule.rateLimit.count > 0 /\ rule.rateLimit.period > 0
  /\ rule.timeWindow # None =>
       /\ rule.timeWindow.startHour < HoursPerDay
       /\ rule.timeWindow.startMinute < MinutesPerHour
       /\ rule.timeWindow.endHour < HoursPerDay
       /\ rule.timeWindow.endMinute < MinutesPerHour

WithinLimits ==
  \A o \in Owners :
    /\ prefs[o] # None =>
         /\ Len(prefs[o].rules) <= MAX_RULES
         /\ \A i \in DOMAIN prefs[o].rules : UsableRule(prefs[o].rules[i])
    /\ Cardinality(blocklist[o]) <= MAX_BLOCKLIST

(* is_blocked and check_permission are written separately and walk         *)
(* different data (all rules against the matched rule only).  A sender     *)
(* that is_blocked reports as not blocked is never refused for being       *)
(* blocked, and one that is blocked globally is refused whatever it asks.  *)
QueriesAgree ==
  \A o \in Owners, r \in Requests :
    /\ Answer(o, r).reason \in {"SENDER_GLOBALLY_BLOCKED", "SENDER_RULE_BLOCKED"}
         => QueryIsBlocked(o, r.sender)
    /\ IsGloballyBlocked(o, r.sender) => ~Answer(o, r).allowed

-----------------------------------------------------------------------------
(* The registry implements the abstract consent record: see Consent.       *)
Known == {o \in Owners : prefs[o] # None}
Barred == [o \in Owners |-> {s \in Senders : IsGloballyBlocked(o, s)}]
GrantedAt(o, t) ==
  {r \in Requests :
     CheckPermissionAt(o, r.sender, r.kind[1], r.kind[2], t).allowed}
Granted == [o \in Owners |-> [t \in 0..MaxTime |-> GrantedAt(o, t)]]

C == INSTANCE Consent
       WITH Times <- 0..MaxTime, known <- Known, barred <- Barred,
            granted <- Granted, time <- now

(* Every sequence of contract calls by all owners is a behaviour of        *)
(* Consent: no call changes another owner's answers, of the present or of  *)
(* any later time; a block takes away exactly the blocked senders' grants  *)
(* and outlives delete and register; unblocking never takes anything away; *)
(* and the clock alone changes no answer that was to be given at a time.   *)
ConsentKept == C!Spec

-----------------------------------------------------------------------------
(* Mutated form of an iteration: the last rule of the best tier wins.      *)
BetterRuleLast(rules, type, intent, best, i) ==
  IF /\ RuleMatches(rules[i], type, intent)
     /\ best # 0 => RulePriority(rules[i]) <= RulePriority(rules[best])
  THEN i
  ELSE best

(* An iteration of the loop of find_best_rule: 0 is `None', and the        *)
(* current best is replaced only by a strictly smaller tier.               *)
BetterRule(rules, type, intent, best, i) ==
  IF /\ RuleMatches(rules[i], type, intent)
     /\ best # 0 => RulePriority(rules[i]) < RulePriority(rules[best])
  THEN i
  ELSE best

(* The loop of find_best_rule: best[i] is the best after i rules.          *)
FindBestRuleLoop(rules, type, intent) ==
  LET best[i \in 0..Len(rules)] ==
        IF i = 0 THEN 0 ELSE BetterRule(rules, type, intent, best[i - 1], i)
  IN  best[Len(rules)]

(* contracts/README.md:68, "the contract selects the most specific         *)
(* matching rule": the loop finds the first rule of the best tier, and     *)
(* finds one exactly when some rule matches.  protocol-spec.md:400 asks    *)
(* for the first rule that matches, whatever its tier; the code does not.  *)
LoopFindsBestRule ==
  \A o \in Owners, k \in Kinds : prefs[o] # None =>
    LET rules == prefs[o].rules
        found == FindBestRuleLoop(rules, k[1], k[2])
    IN  IF Matching(rules, k[1], k[2]) = {}
        THEN found = 0
        ELSE found # 0 /\ IsBestRule(rules, k[1], k[2], found)

(* A rule that is appended speaks only for requests no earlier rule        *)
(* already answers at least as specifically: adding a rule for a sender    *)
(* type and intent that is already covered in the same tier changes        *)
(* nothing, and a general rule never overrides a specific one.             *)
AppendedRuleYields ==
  [][\A o \in Owners, rule \in RuleInputs : AddRule(o, rule) =>
       \A r \in Requests :
         \/ /\ RuleMatches(rule, r.kind[1], r.kind[2])
            /\ \A i \in Matching(prefs[o].rules, r.kind[1], r.kind[2]) :
                 RulePriority(rule) < RulePriority(prefs[o].rules[i])
         \/ Answer(o, r)' = Answer(o, r)]_vars

(* Removing rule `index' changes the answer only of requests that very     *)
(* rule decided; every other request keeps its answer although the         *)
(* positions of the later rules shift.                                     *)
RemovalIsLocal ==
  [][\A o \in Owners, index \in 0..MAX_RULES : RemoveRule(o, index) =>
       \A r \in Requests :
         \/ IsBestRule(prefs[o].rules, r.kind[1], r.kind[2], index + 1)
         \/ Answer(o, r)' = Answer(o, r)]_vars

-----------------------------------------------------------------------------
Day == HoursPerDay * MinutesPerHour

(* A stored window is open for exactly the minutes from its start to its   *)
(* end, around midnight if need be; one whose start is its end never       *)
(* opens.                                                                  *)
WindowLength(window) ==
  (MinuteOfDay(window.endHour, window.endMinute)
     - MinuteOfDay(window.startHour, window.startMinute)) % Day

WindowsOpenForTheirLength ==
  \A o \in Owners : prefs[o] # None =>
    \A i \in DOMAIN prefs[o].rules :
      LET window == prefs[o].rules[i].timeWindow
      IN  window # None =>
            Cardinality({m \in 0..(Day - 1) : IsWithinTimeWindow(m, window)})
              = WindowLength(window)

(* When only time passes, an answer turns from refused to allowed at the   *)
(* start of a window and from allowed to refused at its end, day after     *)
(* day: never at midnight and never one minute off.                        *)
AnswersChangeAtBounds ==
  [][\A o \in Owners, r \in Requests :
       (NextBlock /\ Answer(o, r)' # Answer(o, r)) =>
         \E i \in DOMAIN prefs[o].rules :
           LET w == prefs[o].rules[i].timeWindow
           IN  /\ w # None
               /\ now' % Day = IF Answer(o, r).allowed
                               THEN MinuteOfDay(w.endHour, w.endMinute)
                               ELSE MinuteOfDay(w.startHour, w.startMinute)]_vars

=============================================================================
