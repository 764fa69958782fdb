-------------------------- MODULE Preferences_proofs --------------------------
(***************************************************************************)
(* Proofs about the SDK's preference calls, for any number of calls, any   *)
(* rules, patches and patterns, and however often the profile is changed   *)
(* without the SDK.                                                        *)
(***************************************************************************)
EXTENDS Preferences, Registry_proofs

Ops ==
  {"none", "register", "update", "add_rule", "remove_rule", "block_sender",
   "unblock_sender"}

CallRecords ==
  [op : Ops,
   input : Registrations \cup Patches \cup RuleInputs \cup TypedPatterns \cup Nat \cup {None},
   seen : HumanPreferences \cup {None}, wire : Wires, result : Results,
   moved : BOOLEAN, undone : BOOLEAN]

Unapplied == {"unsent", "under way"}

(* What is known of a call: the kind of its argument, that a write of what *)
(* was seen has seen something, that what it has seen is what is stored    *)
(* unless it is known to have moved, and that an applied block is in the   *)
(* list unless it is known to be lifted.                                   *)
CallOK(r) ==
  /\ r.op = "none" => r.wire = "unsent" /\ r.seen = None
  /\ r.op = "register" => r.input \in Registrations
  /\ r.op = "update" => r.input \in Patches
  /\ r.op = "add_rule" => r.input \in RuleInputs
  /\ r.op = "remove_rule" => r.input \in Nat
  /\ r.op \in {"update", "remove_rule"} /\ r.wire # "unsent" => r.seen # None
  /\ r.result = "ok" => r.wire = "applied"

SeenIsStored(r) ==
  r.seen # None /\ r.wire \in Unapplied /\ ~r.moved => prefs[Me] = r.seen
BlockIsListed(r) ==
  r.op = "block_sender" /\ r.wire = "applied" /\ ~r.undone =>
    Trim(r.input) \in blocklist[Me]

StoredProfiles ==
  /\ prefs \in [Owners -> HumanPreferences \cup {None}]
  /\ DOMAIN blocklist = Owners

PreferencesInv ==
  /\ StoredProfiles
  /\ call \in [Calls -> CallRecords]
  /\ \A c \in Calls : CallOK(call[c]) /\ SeenIsStored(call[c]) /\ BlockIsListed(call[c])

-----------------------------------------------------------------------------
(* What a transaction of a call does to the lists of the contract.         *)

(* Positions count from one, indices from zero.                            *)
LEMMA PositionOfIndex ==
  ASSUME NEW i \in Nat, NEW n \in Nat, i < n
  PROVE  i + 1 \in 1..n
  OBVIOUS

(* An update that is valid writes a profile.                               *)
LEMMA FilledTyped ==
  ASSUME NEW patch \in Patches, NEW seen \in HumanPreferences,
         ValidUrl(Filled(patch, seen).webhookUrl)
  PROVE  Filled(patch, seen) \in HumanPreferences
  <1>1. patch \in [rules : RuleLists \cup {None}, defaultPolicy : Policies \cup {None},
                   webhookUrl : UrlInputs \cup {None}]
    BY CallsAssumption
  <1> DEFINE rules == Given(patch.rules, seen.rules)
             policy == Given(patch.defaultPolicy, seen.defaultPolicy)
             url == Given(patch.webhookUrl, seen.webhookUrl)
  <1>2. rules \in Seq(PreferenceRules)
    <2>1. patch.rules = None \/ patch.rules \in Seq(PreferenceRules)
      BY <1>1, RuleListsTyped
    <2> QED BY <2>1 DEF HumanPreferences, Given
  <1>3. policy \in Policies
    BY <1>1 DEF HumanPreferences, Given
  <1>4. Filled(patch, seen) = [rules |-> rules, defaultPolicy |-> policy, webhookUrl |-> url]
    BY DEF Filled, Profile
  <1> HIDE DEF rules, policy, url
  <1>5. url \in HttpsUrls \cup {None}
    BY <1>4 DEF ValidUrl
  <1> QED BY <1>2, <1>3, <1>4, <1>5 DEF HumanPreferences

LEMMA TransactionTyped ==
  ASSUME StoredProfiles, NEW r \in CallRecords, CallOK(r), r.wire = "under way",
         Transaction(r.op, r.input, r.seen)
  PROVE  prefs' \in [Owners -> HumanPreferences \cup {None}]
  <1>1. Me \in Owners
    BY CallsAssumption
  <1>2. ASSUME NEW profile \in HumanPreferences, Save(Me, profile)
        PROVE  prefs' \in [Owners -> HumanPreferences \cup {None}]
    BY <1>1, <1>2 DEF Save, StoredProfiles
  <1>3. CASE r.op = "register"
    <2>1. r.input \in [rules : RuleLists, defaultPolicy : Policies,
                       webhookUrl : UrlInputs \cup {None}]
      BY <1>3, CallsAssumption DEF CallOK
    <2>2. RegisterPreferences(Me, r.input.rules, r.input.defaultPolicy, r.input.webhookUrl)
      BY <1>3 DEF Transaction
    <2>3. Profile(r.input.rules, r.input.defaultPolicy, r.input.webhookUrl)
            \in HumanPreferences
      BY <2>1, <2>2, ProfileTyped DEF RegisterPreferences
    <2> QED BY <1>2, <2>2, <2>3 DEF RegisterPreferences
  <1>4. CASE r.op = "update"
    <2> DEFINE new == Filled(r.input, r.seen)
    <2>1. r.input \in Patches /\ r.seen \in HumanPreferences
      BY <1>4 DEF CallOK, CallRecords
    <2>2. UpdatePreferences(Me, new.rules, new.defaultPolicy, new.webhookUrl)
      BY <1>4 DEF Transaction
    <2>3. new \in HumanPreferences
      BY <2>1, <2>2, FilledTyped DEF UpdatePreferences, ValidProfile
    <2>4. Profile(new.rules, new.defaultPolicy, new.webhookUrl) = new
      BY DEF Filled, Profile
    <2> HIDE DEF new
    <2> QED BY <1>2, <2>2, <2>3, <2>4 DEF UpdatePreferences
  <1>5. CASE r.op = "add_rule"
    <2>1. AddRule(Me, r.input) /\ r.input \in PreferenceRules
      BY <1>5, InputsAssumption DEF Transaction, CallOK
    <2>2. prefs[Me] \in HumanPreferences /\ prefs[Me].rules \in Seq(PreferenceRules)
      BY <1>1, <2>1 DEF AddRule, StoredProfiles, HumanPreferences
    <2>3. Append(prefs[Me].rules, r.input) \in Seq(PreferenceRules)
      BY <2>1, <2>2, AppendProperties
    <2>4. [prefs[Me] EXCEPT !.rules = Append(@, r.input)] \in HumanPreferences
      BY <2>2, <2>3, RulesReplaced
    <2> QED BY <1>2, <2>1, <2>4 DEF AddRule
  <1>6. CASE r.op = "remove_rule"
    <2>1. RemoveRule(Me, r.input) /\ r.input \in Nat
      BY <1>6 DEF Transaction, CallOK, Position
    <2>2. prefs[Me] \in HumanPreferences /\ prefs[Me].rules \in Seq(PreferenceRules)
      BY <1>1, <2>1 DEF RemoveRule, StoredProfiles, HumanPreferences
    <2>3. r.input + 1 \in 1..Len(prefs[Me].rules)
      <3>1. Len(prefs[Me].rules) \in Nat
        BY <2>2, LenProperties
      <3>2. r.input < Len(prefs[Me].rules)
        BY <2>1 DEF RemoveRule
      <3> QED BY <2>1, <3>1, <3>2, PositionOfIndex
    <2>4. RemoveAt(prefs[Me].rules, r.input + 1) \in Seq(PreferenceRules)
      BY <2>2, <2>3, RemoveAtTyped
    <2>5. [prefs[Me] EXCEPT !.rules = RemoveAt(@, r.input + 1)] \in HumanPreferences
      BY <2>2, <2>4, RulesReplaced
    <2> QED BY <1>2, <2>1, <2>5 DEF RemoveRule
  <1>7. CASE r.op \in {"block_sender", "unblock_sender"}
    <2>1. prefs' = prefs
      BY <1>7 DEF Transaction, BlockSender, UnblockSender
    <2> QED BY <2>1 DEF StoredProfiles
  <1>8. r.op # "none"
    BY DEF Transaction
  <1> QED BY <1>3, <1>4, <1>5, <1>6, <1>7, <1>8 DEF CallRecords, Ops

LEMMA TransactionBlocks ==
  ASSUME StoredProfiles, NEW op, NEW input, NEW seen, Transaction(op, input, seen)
  PROVE  /\ DOMAIN blocklist' = Owners
         /\ op # "unblock_sender" => blocklist[Me] \subseteq blocklist'[Me]
         /\ op = "unblock_sender" => blocklist'[Me] = blocklist[Me] \ {Trim(input)}
         /\ op = "block_sender" => Trim(input) \in blocklist'[Me]
  <1>1. Me \in Owners
    BY CallsAssumption
  <1>2. CASE op \in {"register", "update", "add_rule", "remove_rule"}
    BY <1>2 DEF Transaction, RegisterPreferences, UpdatePreferences, AddRule, RemoveRule,
       StoredProfiles
  <1>3. CASE op = "block_sender"
    BY <1>1, <1>3 DEF Transaction, BlockSender, Pattern, StoredProfiles
  <1>4. CASE op = "unblock_sender"
    BY <1>1, <1>4 DEF Transaction, UnblockSender, Pattern, StoredProfiles
  <1> QED BY <1>2, <1>3, <1>4 DEF Transaction

-----------------------------------------------------------------------------
(* The inductive invariant.                                                *)

(* A step of one call alone.                                               *)
LEMMA PutKept ==
  ASSUME PreferencesInv, NEW c \in Calls, NEW record \in CallRecords, Put(c, record),
         CallOK(record), SeenIsStored(record), BlockIsListed(record)
  PROVE  PreferencesInv'
  <1>1. prefs' = prefs /\ blocklist' = blocklist /\ call' = [call EXCEPT ![c] = record]
    BY DEF Put, vars
  <1>2. call' \in [Calls -> CallRecords]
    BY <1>1 DEF PreferencesInv
  <1>3. StoredProfiles'
    BY <1>1 DEF PreferencesInv, StoredProfiles
  <1>4. ASSUME NEW d \in Calls
        PROVE  /\ CallOK(call'[d])
               /\ SeenIsStored(call[d])'
               /\ BlockIsListed(call[d])'
    <2>1. CASE d = c
      <3>1. call'[d] = record
        BY <1>1, <2>1 DEF PreferencesInv
      <3> QED BY <1>1, <3>1 DEF SeenIsStored, BlockIsListed
    <2>2. CASE d # c
      <3>1. call'[d] = call[d]
        BY <1>1, <2>2 DEF PreferencesInv
      <3> QED BY <1>1, <3>1 DEF PreferencesInv, SeenIsStored, BlockIsListed
    <2> QED BY <2>1, <2>2
  <1> QED BY <1>2, <1>3, <1>4 DEF PreferencesInv, CallOK

(* A call begins, and fails at once, has seen the profile, or has written. *)
LEMMA StartKept ==
  ASSUME PreferencesInv, NEW c \in Calls, NEW op \in Ops \ {"none"},
         NEW input \in Registrations \cup Patches \cup RuleInputs \cup TypedPatterns
                       \cup Nat \cup {None},
         CallOK([NewCall EXCEPT !.op = op, !.input = input]),
         NEW record,
         \/ /\ op \notin {"update", "remove_rule"}
            /\ record = [NewCall EXCEPT !.op = op, !.input = input, !.wire = "under way"]
         \/ \E error \in Results \ {"ok"} :
              record = [NewCall EXCEPT !.op = op, !.input = input, !.result = error]
         \/ record = [NewCall EXCEPT !.op = op, !.input = input, !.seen = prefs[Me]],
         Put(c, record)
  PROVE  PreferencesInv'
  <1>1. Me \in Owners /\ None # "ok"
    BY CallsAssumption
  <1>2. prefs[Me] \in HumanPreferences \cup {None}
    BY <1>1 DEF PreferencesInv, StoredProfiles
  <1>3. /\ record \in CallRecords
        /\ record.op = op /\ record.input = input /\ record.wire \in Unapplied
        /\ record.wire # "unsent" => op \notin {"update", "remove_rule"}
        /\ record.seen = None \/ record.seen = prefs[Me]
        /\ record.result # "ok"
    BY <1>1, <1>2 DEF NewCall, CallRecords, Wires, Results, Unapplied
  <1>4. CallOK(record)
    <2>1. [NewCall EXCEPT !.op = op, !.input = input].op = op
          /\ [NewCall EXCEPT !.op = op, !.input = input].input = input
      BY DEF NewCall
    <2> QED BY <1>3, <2>1 DEF CallOK
  <1>5. SeenIsStored(record) /\ BlockIsListed(record)
    BY <1>3 DEF SeenIsStored, BlockIsListed, Unapplied
  <1> QED BY <1>3, <1>4, <1>5, PutKept

(* A call goes on.                                                         *)
LEMMA GoOnKept ==
  ASSUME PreferencesInv, NEW c \in Calls,
         WriteAfterGet(c) \/ Refusal(c) \/ Return(c) \/ FetchFails(c)
  PROVE  PreferencesInv'
  <1> DEFINE r == call[c]
  <1>1. r \in CallRecords /\ CallOK(r) /\ SeenIsStored(r) /\ BlockIsListed(r)
    BY DEF PreferencesInv
  <1> HIDE DEF r
  <1>2. CASE WriteAfterGet(c)
    <2> DEFINE new == [r EXCEPT !.wire = "under way"]
    <2>1. Put(c, new) /\ r.seen # None /\ r.wire = "unsent"
      BY <1>2 DEF WriteAfterGet, r
    <2>2. /\ new \in CallRecords /\ new.wire = "under way" /\ new.seen = r.seen
          /\ new.op = r.op /\ new.input = r.input /\ new.result = r.result
          /\ new.moved = r.moved
      BY <1>1 DEF CallRecords, Wires
    <2> HIDE DEF new
    <2> QED
      BY <1>1, <2>1, <2>2, PutKept DEF CallOK, SeenIsStored, BlockIsListed, Unapplied
  <1>3. CASE Refusal(c)
    <2> DEFINE new == [r EXCEPT !.wire = "refused"]
    <2>1. Put(c, new) /\ r.wire = "under way"
      BY <1>3 DEF Refusal, r
    <2>2. /\ new \in CallRecords /\ new.wire = "refused" /\ new.seen = r.seen
          /\ new.op = r.op /\ new.input = r.input /\ new.result = r.result
      BY <1>1 DEF CallRecords, Wires
    <2> HIDE DEF new
    <2> QED
      BY <1>1, <2>1, <2>2, PutKept DEF CallOK, SeenIsStored, BlockIsListed, Unapplied
  <1>4. CASE Return(c) \/ FetchFails(c)
    <2>1. PICK result \in Results : /\ Put(c, [r EXCEPT !.result = result])
                                    /\ result = "ok" => r.wire = "applied"
      BY <1>4 DEF Return, FetchFails, Fails, Results, r
    <2> DEFINE new == [r EXCEPT !.result = result]
    <2>2. /\ new \in CallRecords /\ new.wire = r.wire /\ new.seen = r.seen
          /\ new.op = r.op /\ new.input = r.input /\ new.result = result
          /\ new.moved = r.moved /\ new.undone = r.undone
      BY <1>1 DEF CallRecords
    <2>3. Put(c, new)
      BY <2>1
    <2> HIDE DEF new
    <2> QED
      BY <1>1, <2>1, <2>2, <2>3, PutKept DEF CallOK, SeenIsStored, BlockIsListed
  <1> QED BY <1>2, <1>3, <1>4


(* A write is applied.                                                     *)
LEMMA ExecutionKept ==
  ASSUME PreferencesInv, NEW c \in Calls, Execution(c)
  PROVE  PreferencesInv'
  <1> DEFINE r == call[c]
             new(d) == [call[d] EXCEPT
                          !.moved = @ \/ (call[d].seen # None /\ prefs' # prefs),
                          !.undone = @ \/ Lifts(c, d)]
  <1>1. /\ r.wire = "under way" /\ Transaction(r.op, r.input, r.seen)
        /\ call' = [d \in Calls |-> IF d = c THEN [r EXCEPT !.wire = "applied"] ELSE new(d)]
    BY DEF Execution
  <1>2. r \in CallRecords /\ CallOK(r) /\ StoredProfiles
    BY DEF PreferencesInv
  <1>3. StoredProfiles'
    BY <1>1, <1>2, TransactionTyped, TransactionBlocks DEF StoredProfiles
  <1>4. /\ call'[c] \in CallRecords /\ CallOK(call'[c])
        /\ SeenIsStored(call[c])' /\ BlockIsListed(call[c])'
    <2>1. call'[c] = [r EXCEPT !.wire = "applied"]
      BY <1>1
    <2> HIDE DEF r
    <2>2. /\ call'[c] \in CallRecords
          /\ call'[c].wire = "applied" /\ call'[c].op = r.op /\ call'[c].input = r.input
          /\ call'[c].seen = r.seen /\ call'[c].result = r.result
      BY <1>2, <2>1 DEF CallRecords, Wires
    <2>3. CallOK(call'[c])
      BY <1>1, <1>2, <2>2 DEF CallOK
    <2>4. SeenIsStored(call[c])'
      BY <2>2 DEF SeenIsStored, Unapplied
    <2>5. r.op = "block_sender" => Trim(r.input) \in blocklist'[Me]
      BY <1>1, <1>2, TransactionBlocks
    <2>6. BlockIsListed(call[c])'
      BY <2>2, <2>5 DEF BlockIsListed
    <2> QED BY <2>2, <2>3, <2>4, <2>6
  <1>5. ASSUME NEW d \in Calls, d # c
        PROVE  /\ call'[d] \in CallRecords /\ CallOK(call'[d])
               /\ SeenIsStored(call[d])' /\ BlockIsListed(call[d])'
    <2> DEFINE old == call[d]
               moves == old.seen # None /\ prefs' # prefs
               lifts == Lifts(c, d)
    <2>1. old \in CallRecords /\ CallOK(old) /\ SeenIsStored(old) /\ BlockIsListed(old)
      BY DEF PreferencesInv
    <2>2. call'[d] = [old EXCEPT !.moved = @ \/ moves, !.undone = @ \/ lifts]
      BY <1>1, <1>5
    <2>3. lifts <=> /\ r.op = "unblock_sender" /\ old.op = "block_sender"
                    /\ old.wire = "applied" /\ Trim(r.input) = Trim(old.input)
      BY DEF Lifts
    <2> HIDE DEF r, old, lifts
    <2>4. /\ call'[d] \in CallRecords
          /\ call'[d].wire = old.wire /\ call'[d].op = old.op
          /\ call'[d].input = old.input
          /\ call'[d].seen = old.seen /\ call'[d].result = old.result
          /\ call'[d].moved = (old.moved \/ moves)
          /\ call'[d].undone = (old.undone \/ lifts)
      BY <2>1, <2>2 DEF CallRecords
    <2>5. CallOK(call'[d])
      BY <2>1, <2>4 DEF CallOK
    <2>6. SeenIsStored(call[d])'
      <3>1. SUFFICES ASSUME call'[d].seen # None, call'[d].wire \in Unapplied,
                            ~call'[d].moved
                     PROVE  prefs'[Me] = call'[d].seen
        BY DEF SeenIsStored
      <3>2. ~old.moved /\ prefs' = prefs
        BY <2>4, <3>1
      <3>3. prefs[Me] = old.seen
        BY <2>1, <2>4, <3>1, <3>2 DEF SeenIsStored
      <3> QED BY <2>4, <3>2, <3>3
    <2>7. BlockIsListed(call[d])'
      <3>1. SUFFICES ASSUME call'[d].op = "block_sender", call'[d].wire = "applied",
                            ~call'[d].undone
                     PROVE  Trim(call'[d].input) \in blocklist'[Me]
        BY DEF BlockIsListed
      <3>2. ~old.undone /\ ~lifts
        BY <2>4, <3>1
      <3>3. Trim(old.input) \in blocklist[Me]
        BY <2>1, <2>4, <3>1, <3>2 DEF BlockIsListed
      <3>4. r.op = "unblock_sender" => Trim(r.input) # Trim(old.input)
        BY <2>3, <2>4, <3>1, <3>2
      <3>5. /\ r.op # "unblock_sender" => blocklist[Me] \subseteq blocklist'[Me]
            /\ r.op = "unblock_sender" =>
                 blocklist'[Me] = blocklist[Me] \ {Trim(r.input)}
        <4>1. StoredProfiles /\ Transaction(r.op, r.input, r.seen)
          BY <1>1, <1>2 DEF r
        <4> QED BY <4>1, TransactionBlocks
      <3>6. Trim(old.input) \in blocklist'[Me]
        BY <3>3, <3>4, <3>5
      <3> QED BY <2>4, <3>6
    <2> QED BY <2>4, <2>5, <2>6, <2>7
  <1>6. call' \in [Calls -> CallRecords]
    <2>1. call' = [d \in Calls |-> call'[d]]
      BY <1>1
    <2> QED BY <1>4, <1>5, <2>1
  <1> QED BY <1>3, <1>4, <1>5, <1>6 DEF PreferencesInv, CallOK

(* The profile is changed without the SDK.                                 *)
LEMMA ElsewhereKept ==
  ASSUME PreferencesInv, ChangedElsewhere
  PROVE  PreferencesInv'
  <1>1. Me \in Owners
    BY CallsAssumption
  <1>2. blocklist' = blocklist
    BY DEF ChangedElsewhere, DeletePreferences, RegisterPreferences
  <1>3. prefs' \in [Owners -> HumanPreferences \cup {None}]
    <2>1. CASE DeletePreferences(Me)
      BY <1>1, <2>1 DEF DeletePreferences, Save, PreferencesInv, StoredProfiles
    <2>2. CASE \E profile \in Registrations :
                 RegisterPreferences(Me, profile.rules, profile.defaultPolicy,
                                     profile.webhookUrl)
      <3>1. PICK profile \in Registrations :
              RegisterPreferences(Me, profile.rules, profile.defaultPolicy,
                                  profile.webhookUrl)
        BY <2>2
      <3>2. profile \in [rules : RuleLists, defaultPolicy : Policies,
                         webhookUrl : UrlInputs \cup {None}]
        BY CallsAssumption
      <3> DEFINE new == Profile(profile.rules, profile.defaultPolicy, profile.webhookUrl)
      <3>3. new \in HumanPreferences /\ prefs' = [prefs EXCEPT ![Me] = new]
        BY <3>1, <3>2, ProfileTyped DEF RegisterPreferences, Save
      <3> HIDE DEF new
      <3> QED BY <1>1, <3>3 DEF PreferencesInv, StoredProfiles
    <2> QED BY <2>1, <2>2 DEF ChangedElsewhere
  <1>4. ASSUME NEW d \in Calls
        PROVE  /\ call'[d] \in CallRecords /\ CallOK(call'[d])
               /\ SeenIsStored(call[d])' /\ BlockIsListed(call[d])'
    <2> DEFINE old == call[d]
               moves == old.seen # None
    <2>1. old \in CallRecords /\ CallOK(old) /\ BlockIsListed(old)
      BY DEF PreferencesInv
    <2>2. call'[d] = [old EXCEPT !.moved = @ \/ moves]
      BY DEF ChangedElsewhere
    <2> HIDE DEF old
    <2>3. /\ call'[d] \in CallRecords
          /\ call'[d].wire = old.wire /\ call'[d].op = old.op
          /\ call'[d].input = old.input
          /\ call'[d].seen = old.seen /\ call'[d].result = old.result
          /\ call'[d].moved = (old.moved \/ moves) /\ call'[d].undone = old.undone
      BY <2>1, <2>2 DEF CallRecords
    <2>4. CallOK(call'[d])
      BY <2>1, <2>3 DEF CallOK
    <2>5. SeenIsStored(call[d])'
      BY <2>3 DEF SeenIsStored
    <2>6. BlockIsListed(call[d])'
      BY <1>2, <2>1, <2>3 DEF BlockIsListed
    <2> QED BY <2>3, <2>4, <2>5, <2>6
  <1>5. call' = [d \in Calls |-> call'[d]]
    BY DEF ChangedElsewhere
  <1>6. call' \in [Calls -> CallRecords]
    BY <1>4, <1>5
  <1> QED BY <1>2, <1>3, <1>4, <1>6 DEF PreferencesInv, StoredProfiles, CallOK

LEMMA PreferencesInvInit == PreferencesInit => PreferencesInv
  <1> SUFFICES ASSUME PreferencesInit PROVE PreferencesInv
    OBVIOUS
  <1>1. NewCall \in CallRecords /\ CallOK(NewCall)
    BY CallsAssumption DEF NewCall, CallRecords, CallOK, Ops, Wires, Results
  <1>2. SeenIsStored(NewCall) /\ BlockIsListed(NewCall)
    BY DEF NewCall, SeenIsStored, BlockIsListed
  <1> QED BY <1>1, <1>2 DEF PreferencesInit, Init, PreferencesInv, StoredProfiles

LEMMA PreferencesInvNext ==
  PreferencesInv /\ [PreferencesNext]_allVars => PreferencesInv'
  <1> SUFFICES ASSUME PreferencesInv, [PreferencesNext]_allVars PROVE PreferencesInv'
    OBVIOUS
  <1>1. ASSUME NEW c \in Calls, Manage(c) PROVE PreferencesInv'
    <2> DEFINE blank(op, input) == [NewCall EXCEPT !.op = op, !.input = input]
    <2>1. ASSUME NEW op, NEW input PROVE /\ blank(op, input).op = op
                                         /\ blank(op, input).input = input
                                         /\ blank(op, input).wire = "unsent"
                                         /\ blank(op, input).result = None
      BY DEF NewCall
    <2> HIDE DEF blank
    <2>2. ASSUME NEW op \in Ops \ {"none"},
                 NEW input \in Registrations \cup Patches \cup RuleInputs
                               \cup TypedPatterns \cup Nat \cup {None},
                 op = "register" => input \in Registrations,
                 op = "update" => input \in Patches,
                 op = "add_rule" => input \in RuleInputs,
                 op = "remove_rule" => input \in Nat
          PROVE  CallOK(blank(op, input))
      BY <2>1, <2>2, CallsAssumption DEF CallOK
    <2> USE DEF blank
    <2>3. CASE \E profile \in Registrations : Write(c, "register", profile)
      <3>1. PICK profile \in Registrations : Write(c, "register", profile)
        BY <2>3
      <3>2. "register" \in Ops \ {"none"}
        BY DEF Ops
      <3>3. CallOK(blank("register", profile))
        BY <2>2, <3>2
      <3> QED BY <3>1, <3>2, <3>3, StartKept DEF Write
    <2>4. CASE \E rule \in RuleInputs : Write(c, "add_rule", rule)
      <3>1. PICK rule \in RuleInputs : Write(c, "add_rule", rule)
        BY <2>4
      <3>2. "add_rule" \in Ops \ {"none"}
        BY DEF Ops
      <3>3. CallOK(blank("add_rule", rule))
        BY <2>2, <3>2
      <3> QED BY <3>1, <3>2, <3>3, StartKept DEF Write
    <2>5. CASE \E typed \in TypedPatterns, op \in {"block_sender", "unblock_sender"} :
                 WriteTyped(c, op, typed)
      <3>1. PICK typed \in TypedPatterns, op \in {"block_sender", "unblock_sender"} :
              WriteTyped(c, op, typed)
        BY <2>5
      <3>2. op \in Ops \ {"none"} /\ op \notin {"update", "remove_rule"}
        BY DEF Ops
      <3>3. CallOK(blank(op, typed))
        BY <2>2, <3>2
      <3>4. "INVALID_ENVELOPE" \in Results \ {"ok"}
        BY DEF Results
      <3> QED BY <3>1, <3>2, <3>3, <3>4, StartKept DEF WriteTyped, Write, Fails
    <2>6. ASSUME NEW op \in {"update", "remove_rule"}, NEW input \in Patches \cup Nat,
                 op = "update" => input \in Patches, op = "remove_rule" => input \in Nat,
                 Get(c, op, input)
          PROVE  PreferencesInv'
      <3>1. op \in Ops \ {"none"}
        BY DEF Ops
      <3>2. CallOK(blank(op, input))
        BY <2>2, <2>6, <3>1
      <3>3. "RECIPIENT_NOT_FOUND" \in Results \ {"ok"} /\ "ROUTER_ERROR" \in Results \ {"ok"}
        BY DEF Results
      <3>4. PICK record :
              /\ Put(c, record)
              /\ \/ \E error \in Results \ {"ok"} : record = [blank(op, input) EXCEPT !.result = error]
                 \/ record = [blank(op, input) EXCEPT !.seen = prefs[Me]]
        BY <2>6, <3>3 DEF Get, Fails
      <3> QED BY <3>1, <3>2, <3>4, StartKept DEF NewCall
    <2>7. CASE \E patch \in Patches : Get(c, "update", patch)
      BY <2>6, <2>7
    <2>8. CASE \E index \in 0..(MAX_RULES - 1) : Get(c, "remove_rule", index)
      <3>1. PICK index \in 0..(MAX_RULES - 1) : Get(c, "remove_rule", index)
        BY <2>8
      <3>2. index \in Nat
        BY LimitsAssumption
      <3> QED BY <2>6, <3>1, <3>2
    <2> QED BY <1>1, <2>3, <2>4, <2>5, <2>7, <2>8, GoOnKept, ExecutionKept DEF Manage
  <1>2. CASE UNCHANGED allVars
    BY <1>2 DEF allVars, vars, PreferencesInv, StoredProfiles, CallOK, SeenIsStored,
       BlockIsListed
  <1> QED BY <1>1, <1>2, ElsewhereKept DEF PreferencesNext

LEMMA PreferencesInvHolds == PreferencesSpec => []PreferencesInv
  BY PreferencesInvInit, PreferencesInvNext, PTL DEF PreferencesSpec

-----------------------------------------------------------------------------
(* What the invariant says of the answers.                                 *)

(* A block whose caller was told of success bars every sender its typed    *)
(* pattern names, white space or not, until it is lifted, whatever is      *)
(* registered, deleted or changed in between (preferences.ts:265-279,      *)
(* contract.rs:244).                                                       *)
THEOREM BlocksHold == PreferencesSpec => []AcknowledgedBlocksHold
  <1>1. PreferencesInv => AcknowledgedBlocksHold
    <2>1. SUFFICES ASSUME PreferencesInv, NEW c \in Calls,
                          call[c].op = "block_sender", call[c].result = "ok",
                          ~call[c].undone,
                          NEW s \in Senders, NEW t \in SenderTypes, NEW i \in Intents,
                          PatternMatches(s, Trim(call[c].input))
                   PROVE  ~CheckPermission(Me, s, t, i).allowed
      BY DEF AcknowledgedBlocksHold
    <2>2. Trim(call[c].input) \in blocklist[Me]
      BY <2>1 DEF PreferencesInv, CallOK, BlockIsListed
    <2>3. IsGloballyBlocked(Me, s)
      BY <2>1, <2>2 DEF IsGloballyBlocked, IsPatternBlocked
    <2>4. CheckPermission(Me, s, t, i)
            \in {Deny("RECIPIENT_NOT_FOUND"), Deny("SENDER_GLOBALLY_BLOCKED")}
      BY <2>3 DEF CheckPermission, CheckPermissionAt
    <2> QED BY <2>4 DEF Deny
  <1> QED BY <1>1, PreferencesInvHolds, PTL

-----------------------------------------------------------------------------
(* What the application of a write does.                                   *)

(* Only a write that is executed is applied.                               *)
LEMMA AppliesExecutes ==
  ASSUME PreferencesInv, PreferencesNext, NEW c \in Calls,
         call[c].wire = "under way", call'[c].wire = "applied"
  PROVE  Execution(c)
  <1>1. ASSUME NEW d \in Calls, NEW record, Put(d, record),
               d = c => record.wire # "applied"
        PROVE  FALSE
    <2>1. call' = [call EXCEPT ![d] = record]
      BY <1>1 DEF Put
    <2> QED BY <1>1, <2>1 DEF PreferencesInv
  <1>2. ~ChangedElsewhere
    <2>1. SUFFICES ASSUME call' = [d \in Calls |-> [call[d] EXCEPT
                                        !.moved = @ \/ call[d].seen # None]]
                   PROVE  FALSE
      BY DEF ChangedElsewhere
    <2>2. call[c] \in CallRecords
      BY DEF PreferencesInv
    <2> DEFINE moved == call[c].moved \/ call[c].seen # None
    <2>3. call'[c] = [call[c] EXCEPT !.moved = moved]
      BY <2>1
    <2> HIDE DEF moved
    <2>4. call'[c].wire = call[c].wire
      BY <2>2, <2>3 DEF CallRecords
    <2> QED BY <2>4
  <1>3. PICK d \in Calls : Manage(d)
    BY <1>2 DEF PreferencesNext
  <1>4. call[d] \in CallRecords
    BY DEF PreferencesInv
  <1>5. ~(/\ New(d)
          /\ \E record : Put(d, record))
    <2>1. SUFFICES ASSUME New(d), NEW record, Put(d, record) PROVE FALSE
      OBVIOUS
    <2>2. d # c
      BY <2>1 DEF New, PreferencesInv, CallOK
    <2> QED BY <1>1, <2>1, <2>2
  <1>6. ~(\/ \E profile \in Registrations : Write(d, "register", profile)
          \/ \E rule \in RuleInputs : Write(d, "add_rule", rule)
          \/ \E typed \in TypedPatterns, op \in {"block_sender", "unblock_sender"} :
               WriteTyped(d, op, typed)
          \/ \E patch \in Patches : Get(d, "update", patch)
          \/ \E index \in 0..(MAX_RULES - 1) : Get(d, "remove_rule", index))
    BY <1>5, Zenon DEF Write, WriteTyped, Get, Fails
  <1>7. ~WriteAfterGet(d)
    <2>1. [call[d] EXCEPT !.wire = "under way"].wire # "applied"
      BY <1>4 DEF CallRecords
    <2> QED BY <1>1, <2>1 DEF WriteAfterGet
  <1>8. ~Refusal(d)
    <2>1. [call[d] EXCEPT !.wire = "refused"].wire # "applied"
      BY <1>4 DEF CallRecords
    <2> QED BY <1>1, <2>1 DEF Refusal
  <1>9. ~(Return(d) \/ FetchFails(d))
    <2>1. SUFFICES ASSUME NEW result, Put(d, [call[d] EXCEPT !.result = result])
                   PROVE  FALSE
      BY DEF Return, FetchFails, Fails
    <2>2. d = c => [call[d] EXCEPT !.result = result].wire # "applied"
      BY <1>4 DEF CallRecords
    <2> QED BY <1>1, <2>1, <2>2
  <1>10. Execution(d)
    BY <1>3, <1>6, <1>7, <1>8, <1>9 DEF Manage
  <1>11. d = c
    <2>1. SUFFICES ASSUME d # c PROVE FALSE
      OBVIOUS
    <2> DEFINE moved == call[c].moved \/ (call[c].seen # None /\ prefs' # prefs)
               undone == call[c].undone \/ Lifts(d, c)
    <2>2. call'[c] = [call[c] EXCEPT !.moved = moved, !.undone = undone]
      BY <1>10, <2>1 DEF Execution
    <2> HIDE DEF moved, undone
    <2>3. call'[c].wire = call[c].wire
      BY <2>2 DEF PreferencesInv, CallRecords
    <2> QED BY <2>3
  <1> QED BY <1>10, <1>11

(* What an update writes is its patch over what is stored.                 *)
LEMMA UpdateWrites ==
  ASSUME PreferencesInv, NEW c \in Calls, Execution(c), call[c].op = "update",
         ~call[c].moved
  PROVE  /\ prefs[Me] \in HumanPreferences
         /\ prefs'[Me] = Filled(call[c].input, prefs[Me])
         /\ prefs'[Me] \in HumanPreferences
  <1> DEFINE r == call[c]
  <1>1. r.wire = "under way" /\ Transaction(r.op, r.input, r.seen) /\ r \in CallRecords
    BY DEF Execution, PreferencesInv
  <1>2. Me \in Owners
    BY CallsAssumption
  <1>3. prefs[Me] = r.seen /\ r.seen \in HumanPreferences
    BY <1>1 DEF PreferencesInv, CallOK, SeenIsStored, Unapplied, CallRecords
  <1> DEFINE new == Filled(r.input, r.seen)
  <1>4. UpdatePreferences(Me, new.rules, new.defaultPolicy, new.webhookUrl)
    BY <1>1 DEF Transaction
  <1>5. Profile(new.rules, new.defaultPolicy, new.webhookUrl) = new
    BY DEF Filled, Profile
  <1>6. new \in HumanPreferences
    <2>1. r.input \in Patches
      BY DEF PreferencesInv, CallOK
    <2> QED BY <1>3, <1>4, <2>1, FilledTyped DEF UpdatePreferences, ValidProfile
  <1> HIDE DEF new
  <1>7. prefs'[Me] = new
    BY <1>2, <1>4, <1>5 DEF UpdatePreferences, Save, PreferencesInv, StoredProfiles
  <1> QED BY <1>3, <1>6, <1>7 DEF new

(* An update that saw what is stored leaves alone what its caller did not  *)
(* mention (preferences.ts:118-163), however calls overlap.                *)
THEOREM OmittedFieldsKept == PreferencesSpec => OmittedFieldsSurvive
  <1>1. ASSUME PreferencesInv, [PreferencesNext]_allVars, NEW c \in Calls,
               Applies(c, "update"), ~call[c].moved
        PROVE  /\ call[c].input.rules = None => prefs'[Me].rules = prefs[Me].rules
               /\ call[c].input.defaultPolicy = None =>
                    prefs'[Me].defaultPolicy = prefs[Me].defaultPolicy
               /\ call[c].input.webhookUrl = None =>
                    prefs'[Me].webhookUrl = prefs[Me].webhookUrl
    <2>1. call[c].op = "update" /\ call[c].wire = "under way" /\ call'[c].wire = "applied"
      BY <1>1 DEF Applies
    <2>2. PreferencesNext
      BY <1>1, <2>1 DEF allVars
    <2>3. Execution(c)
      BY <1>1, <2>1, <2>2, AppliesExecutes
    <2>4. prefs'[Me] = Filled(call[c].input, prefs[Me])
      BY <1>1, <2>1, <2>3, UpdateWrites
    <2> QED BY <2>4 DEF Filled, Profile, Given
  <1>2. PreferencesInv /\ [PreferencesNext]_allVars =>
          [\A c \in Calls : Applies(c, "update") /\ ~call[c].moved =>
             /\ call[c].input.rules = None => prefs'[Me].rules = prefs[Me].rules
             /\ call[c].input.defaultPolicy = None =>
                  prefs'[Me].defaultPolicy = prefs[Me].defaultPolicy
             /\ call[c].input.webhookUrl = None =>
                  prefs'[Me].webhookUrl = prefs[Me].webhookUrl]_allVars
    BY <1>1
  <1> QED BY <1>2, PreferencesInvHolds, PTL DEF PreferencesSpec, OmittedFieldsSurvive

(* What a removal writes.                                                  *)
LEMMA RemovalWrites ==
  ASSUME PreferencesInv, NEW c \in Calls, Execution(c), call[c].op = "remove_rule"
  PROVE  /\ prefs[Me] \in HumanPreferences
         /\ Len(prefs'[Me].rules) = Len(prefs[Me].rules) - 1
         /\ prefs'[Me].rules = RemoveAt(prefs[Me].rules, call[c].input + 1)
  <1> DEFINE r == call[c]
             rules == prefs[Me].rules
  <1>1. Transaction(r.op, r.input, r.seen) /\ r.input \in Nat /\ Me \in Owners
    BY CallsAssumption DEF Execution, PreferencesInv, CallOK
  <1>2. RemoveRule(Me, r.input)
    BY <1>1 DEF Transaction, Position
  <1>3. prefs[Me] \in HumanPreferences /\ rules \in Seq(PreferenceRules)
    BY <1>1, <1>2 DEF RemoveRule, PreferencesInv, StoredProfiles, HumanPreferences
  <1>4. prefs'[Me] = [prefs[Me] EXCEPT !.rules = RemoveAt(rules, r.input + 1)]
    BY <1>1, <1>2 DEF RemoveRule, Save, PreferencesInv, StoredProfiles
  <1>5. prefs'[Me].rules = RemoveAt(rules, r.input + 1)
    <2> DEFINE new == RemoveAt(rules, r.input + 1)
    <2>1. prefs'[Me] = [prefs[Me] EXCEPT !.rules = new]
      BY <1>4
    <2> HIDE DEF new
    <2>2. prefs'[Me].rules = new
      BY <1>3, <2>1 DEF HumanPreferences
    <2> QED BY <2>2 DEF new
  <1>6. Len(RemoveAt(rules, r.input + 1)) = Len(rules) - 1
    <2>1. Len(rules) \in Nat
      BY <1>3, LenProperties
    <2>2. r.input < Len(rules)
      BY <1>2 DEF RemoveRule
    <2>3. r.input + 1 \in 1..Len(rules)
      BY <1>1, <2>1, <2>2, PositionOfIndex
    <2> QED BY <1>3, <2>3, RemoveAtElements
  <1> QED BY <1>3, <1>5, <1>6

(* A removal takes one rule, and the one its caller has seen at that       *)
(* position unless the profile was changed since (preferences.ts:221-232,  *)
(* contract.rs:210).                                                       *)
THEOREM RemovalsHit == PreferencesSpec => RemovalHitsWhatWasSeen
  <1>1. ASSUME PreferencesInv, [PreferencesNext]_allVars, NEW c \in Calls,
               Applies(c, "remove_rule")
        PROVE  /\ Len(prefs'[Me].rules) = Len(prefs[Me].rules) - 1
               /\ ~call[c].moved =>
                    prefs'[Me].rules = RemoveAt(call[c].seen.rules, call[c].input + 1)
    <2>1. call[c].op = "remove_rule" /\ call[c].wire = "under way"
          /\ call'[c].wire = "applied"
      BY <1>1 DEF Applies
    <2>2. PreferencesNext
      BY <1>1, <2>1 DEF allVars
    <2>3. Execution(c)
      BY <1>1, <2>1, <2>2, AppliesExecutes
    <2>4. ~call[c].moved => prefs[Me] = call[c].seen
      BY <1>1, <2>1 DEF PreferencesInv, CallOK, SeenIsStored, Unapplied
    <2> QED BY <1>1, <2>1, <2>3, <2>4, RemovalWrites
  <1>2. PreferencesInv /\ [PreferencesNext]_allVars =>
          [\A c \in Calls : Applies(c, "remove_rule") =>
             /\ Len(prefs'[Me].rules) = Len(prefs[Me].rules) - 1
             /\ ~call[c].moved =>
                  prefs'[Me].rules = RemoveAt(call[c].seen.rules, call[c].input + 1)]_allVars
    BY <1>1
  <1> QED BY <1>2, PreferencesInvHolds, PTL DEF PreferencesSpec, RemovalHitsWhatWasSeen

-----------------------------------------------------------------------------
(* Which calls lose rules.                                                 *)

LEMMA PrefixOfItself ==
  ASSUME NEW S, NEW s \in Seq(S)
  PROVE  IsPrefix(s, s) /\ IsPrefix(<<>>, s)
  <1>1. Len(s) \in Nat /\ Len(<<>>) = 0
    BY LenProperties
  <1>2. SubSeq(s, 1, 0) = <<>> /\ SubSeq(<<>>, 1, 0) = <<>>
    BY SubSeqEmpty
  <1> QED BY <1>1, <1>2 DEF IsPrefix

LEMMA PrefixOfAppended ==
  ASSUME NEW S, NEW s \in Seq(S), NEW e \in S
  PROVE  IsPrefix(s, Append(s, e))
  <1>1. Len(s) \in Nat /\ Append(s, e) \in Seq(S) /\ Len(Append(s, e)) = Len(s) + 1
    BY AppendProperties, LenProperties
  <1>2. SubSeq(Append(s, e), 1, Len(s)) = SubSeq(s, 1, Len(s))
    BY <1>1, AppendProperties, SubSeqProperties, LenProperties
  <1> QED BY <1>1, <1>2 DEF IsPrefix


(* No call loses rules but a removal, an update that names the rules, and  *)
(* an update that raced with another change: in particular no registration *)
(* by an app that took an error for a missing profile                      *)
(* (preferences.ts:95-279, contract.rs:97).                                *)
THEOREM RulesLeaveDeliberately == PreferencesSpec => RulesLeaveOnPurpose
  <1>1. ASSUME PreferencesInv, [PreferencesNext]_allVars, NEW c \in Calls,
               Applies(c, call[c].op), ~IsPrefix(Rules(prefs[Me]), Rules(prefs'[Me]))
        PROVE  \/ call[c].op = "remove_rule"
               \/ call[c].op = "update" /\ (call[c].input.rules # None \/ call[c].moved)
    <2> DEFINE r == call[c]
    <2>1. r.wire = "under way" /\ call'[c].wire = "applied"
      BY <1>1 DEF Applies
    <2>2. PreferencesNext
      BY <1>1, <2>1 DEF allVars
    <2>3. Execution(c)
      BY <1>1, <2>1, <2>2, AppliesExecutes
    <2>4. Transaction(r.op, r.input, r.seen) /\ r \in CallRecords /\ CallOK(r)
      BY <1>1, <2>3 DEF Execution, PreferencesInv
    <2>5. Me \in Owners
      BY CallsAssumption
    <2>6. PreferencesInv'
      BY <1>1, <2>3, ExecutionKept
    <2>7. Rules(prefs[Me]) \in Seq(PreferenceRules) /\ Rules(prefs'[Me]) \in Seq(PreferenceRules)
      <3>1. ASSUME NEW profile \in HumanPreferences \cup {None}
            PROVE  Rules(profile) \in Seq(PreferenceRules)
        BY EmptySeq DEF Rules, HumanPreferences
      <3>2. prefs[Me] \in HumanPreferences \cup {None}
        BY <1>1, <2>5 DEF PreferencesInv, StoredProfiles
      <3>3. prefs'[Me] \in HumanPreferences \cup {None}
        BY <2>5, <2>6 DEF PreferencesInv, StoredProfiles
      <3> QED BY <3>1, <3>2, <3>3
    <2>8. Rules(prefs[Me]) # <<>> /\ Rules(prefs[Me]) # Rules(prefs'[Me])
      BY <1>1, <2>7, PrefixOfItself
    <2> HIDE DEF r
    <2>9. CASE r.op = "register"
      <3>1. prefs[Me] = None
        BY <2>4, <2>9 DEF Transaction, RegisterPreferences
      <3> QED BY <2>8, <3>1 DEF Rules
    <2>10. CASE r.op = "add_rule"
      <3>1. AddRule(Me, r.input) /\ r.input \in PreferenceRules
        BY <2>4, <2>10, InputsAssumption DEF Transaction, CallOK
      <3>2. prefs[Me] \in HumanPreferences /\ prefs[Me].rules \in Seq(PreferenceRules)
        BY <1>1, <2>5, <3>1 DEF AddRule, PreferencesInv, StoredProfiles, HumanPreferences
      <3> DEFINE new == Append(prefs[Me].rules, r.input)
      <3>3. prefs'[Me] = [prefs[Me] EXCEPT !.rules = new]
        BY <1>1, <2>5, <3>1 DEF AddRule, Save, PreferencesInv, StoredProfiles
      <3>4. IsPrefix(prefs[Me].rules, new)
        BY <3>1, <3>2, PrefixOfAppended
      <3>5. new \in Seq(PreferenceRules)
        BY <3>1, <3>2, AppendProperties
      <3> HIDE DEF new
      <3>6. prefs'[Me] \in HumanPreferences /\ prefs'[Me].rules = new
        BY <3>2, <3>3, <3>5 DEF HumanPreferences
      <3>7. Rules(prefs[Me]) = prefs[Me].rules /\ Rules(prefs'[Me]) = new
        BY <3>2, <3>6, NoneAssumption DEF Rules
      <3> QED BY <1>1, <3>4, <3>7
    <2>11. CASE r.op \in {"block_sender", "unblock_sender"}
      <3>1. prefs' = prefs
        BY <2>4, <2>11 DEF Transaction, BlockSender, UnblockSender
      <3> QED BY <2>8, <3>1
    <2>12. CASE r.op = "update"
      <3>1. SUFFICES ASSUME r.input.rules = None, ~r.moved PROVE FALSE
        BY <2>12 DEF r
      <3>2. prefs[Me] \in HumanPreferences /\ prefs'[Me] = Filled(r.input, prefs[Me])
        BY <1>1, <2>3, <2>12, <3>1, UpdateWrites DEF r
      <3>3. prefs'[Me].rules = prefs[Me].rules
        BY <3>1, <3>2 DEF Filled, Profile, Given
      <3>4. prefs[Me] # None /\ prefs'[Me] # None
        BY <1>1, <2>3, <2>12, <3>1, UpdateWrites, NoneAssumption DEF r
      <3> QED BY <2>8, <3>3, <3>4 DEF Rules
    <2>13. CASE r.op = "remove_rule"
      BY <2>13 DEF r
    <2>14. r.op # "none"
      BY <2>1, <2>4 DEF CallOK, r
    <2> QED BY <2>4, <2>9, <2>10, <2>11, <2>12, <2>13, <2>14 DEF CallRecords, Ops
  <1>2. PreferencesInv /\ [PreferencesNext]_allVars =>
          [\A c \in Calls :
             Applies(c, call[c].op) /\ ~IsPrefix(Rules(prefs[Me]), Rules(prefs'[Me])) =>
               \/ call[c].op = "remove_rule"
               \/ call[c].op = "update" /\ (call[c].input.rules # None \/ call[c].moved)]_allVars
    BY <1>1
  <1> QED BY <1>2, PreferencesInvHolds, PTL DEF PreferencesSpec, RulesLeaveOnPurpose

=============================================================================
