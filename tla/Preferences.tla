----------------------------- MODULE Preferences -----------------------------
(***************************************************************************)
(* The SDK's PreferencesManager (sdk/src/preferences.ts) over the registry *)
(* contract: calls by which the apps of one person read and change the     *)
(* person's profile.  Calls run concurrently; a read returns at once what  *)
(* the chain answers, a write goes through a relay that is not part of the *)
(* repository (this repository's router has no /v1/preferences and answers *)
(* 404).  The relay executes the write as a transaction of the contract or *)
(* refuses it; when fetch fails it may do either of them later.            *)
(***************************************************************************)
EXTENDS Registry

CONSTANTS
  Calls,           \* the calls of a behaviour
  Me,              \* the address behind the configured sender_did
  Registrations,   \* profiles that occur in register
  Patches,         \* arguments of update; a field is None when left out
  TypedPatterns,   \* arguments of blockSender and unblockSender
  MaxElsewhere     \* bound on changes made without the SDK

Blank == " "       \* white space, as a chunk of a typed pattern

ASSUME CallsAssumption ==
  /\ Me \in Owners /\ MaxElsewhere \in Nat /\ None # "ok"
  /\ Registrations \subseteq
       [rules : RuleLists, defaultPolicy : Policies, webhookUrl : UrlInputs \cup {None}]
  /\ Patches \subseteq
       [rules : RuleLists \cup {None}, defaultPolicy : Policies \cup {None},
        webhookUrl : UrlInputs \cup {None}]

(* A call: what was asked, the profile it has seen, where its write is,    *)
(* and what the caller was told.  Ghosts: the profile was changed since it *)
(* was seen; a block was lifted again.  `elsewhere' counts the changes made *)
(* without the SDK.                                                        *)
VARIABLES call, elsewhere

allVars == <<vars, call, elsewhere>>

Wires == {"unsent", "under way", "applied", "refused"}
Results ==
  {None, "ok", "unknown",
   "INVALID_ENVELOPE", "RECIPIENT_NOT_FOUND", "PERMISSION_DENIED", "ROUTER_ERROR"}
NewCall ==
  [op |-> "none", input |-> None, seen |-> None, wire |-> "unsent",
   result |-> None, moved |-> FALSE, undone |-> FALSE]

PreferencesInit == Init /\ call = [c \in Calls |-> NewCall] /\ elsewhere = 0

New(c) == call[c].op = "none"
Put(c, record) == call' = [call EXCEPT ![c] = record] /\ UNCHANGED <<vars, elsewhere>>
Fails(c, record, error) == Put(c, [record EXCEPT !.result = error])

-----------------------------------------------------------------------------
(* What is sent.                                                           *)

(* String.trim *)
Trim(typed) ==
  LET kept == {i \in DOMAIN typed : typed[i] # Blank}
  IN  IF kept = {} THEN <<>> ELSE SubSeq(typed, Min(kept), Max(kept))

(* The operator `??': what is left out, and also a null, is filled in.     *)
Given(value, current) == IF value = None THEN current ELSE value

(* Mutated form: the webhook is not filled in.                             *)
FilledButWebhook(patch, current) ==
  Profile(Given(patch.rules, current.rules),
          Given(patch.defaultPolicy, current.defaultPolicy), patch.webhookUrl)

Filled(patch, current) ==
  Profile(Given(patch.rules, current.rules),
          Given(patch.defaultPolicy, current.defaultPolicy),
          Given(patch.webhookUrl, current.webhookUrl))

(* Mutated forms: the position is counted from one; the pattern is sent as *)
(* it was typed.                                                           *)
PositionFromOne(index) == index + 1
PatternAsTyped(typed) == typed

Position(index) == index
Pattern(typed) == Trim(typed)

-----------------------------------------------------------------------------
(* register, addRule, blockSender, unblockSender: one write.               *)

Write(c, op, input) ==
  /\ New(c)
  /\ Put(c, [NewCall EXCEPT !.op = op, !.input = input, !.wire = "under way"])

WriteTyped(c, op, typed) ==
  IF Trim(typed) # <<>> THEN Write(c, op, typed)
  ELSE New(c) /\ Fails(c, [NewCall EXCEPT !.op = op, !.input = typed], "INVALID_ENVELOPE")

(* get: the profile on the chain, or null.  Null is returned also when the *)
(* router answers 404, and for any error whose text says `not found' or    *)
(* `unknown'; other errors are thrown.  update reads for itself, and the   *)
(* caller of removeRule has the position from an earlier get.              *)
Get(c, op, input) ==
  /\ New(c)
  /\ LET asked == [NewCall EXCEPT !.op = op, !.input = input]
     IN  \/ \E profile \in {prefs[Me], None} :
              IF profile = None
              THEN Fails(c, asked, "RECIPIENT_NOT_FOUND")
              ELSE Put(c, [asked EXCEPT !.seen = profile])
         \/ Fails(c, asked, "ROUTER_ERROR")

WriteAfterGet(c) ==
  /\ call[c].seen # None /\ call[c].wire = "unsent"
  /\ Put(c, [call[c] EXCEPT !.wire = "under way"])

-----------------------------------------------------------------------------
(* The relay.                                                              *)

Transaction(op, input, seen) ==
  \/ /\ op = "register"
     /\ RegisterPreferences(Me, input.rules, input.defaultPolicy, input.webhookUrl)
  \/ /\ op = "update"
     /\ LET profile == Filled(input, seen)
        IN  UpdatePreferences(Me, profile.rules, profile.defaultPolicy, profile.webhookUrl)
  \/ op = "add_rule" /\ AddRule(Me, input)
  \/ op = "remove_rule" /\ RemoveRule(Me, Position(input))
  \/ op = "block_sender" /\ BlockSender(Me, Pattern(input))
  \/ op = "unblock_sender" /\ UnblockSender(Me, Pattern(input))

Lifts(c, d) ==
  /\ call[c].op = "unblock_sender" /\ call[d].op = "block_sender"
  /\ call[d].wire = "applied" /\ Trim(call[c].input) = Trim(call[d].input)

Execution(c) ==
  /\ call[c].wire = "under way"
  /\ UNCHANGED elsewhere
  /\ Transaction(call[c].op, call[c].input, call[c].seen)
  /\ call' = [d \in Calls |->
       IF d = c THEN [call[c] EXCEPT !.wire = "applied"]
       ELSE [call[d] EXCEPT !.moved = @ \/ (call[d].seen # None /\ prefs' # prefs),
                            !.undone = @ \/ Lifts(c, d)]]

(* A refusal by the contract, or by the relay for any reason.              *)
Refusal(c) ==
  /\ call[c].wire = "under way"
  /\ Put(c, [call[c] EXCEPT !.wire = "refused"])

(* _routerWrite returns, or throws by the status and text of the refusal.  *)
Return(c) ==
  /\ call[c].result = None
  /\ \/ call[c].wire = "applied" /\ Fails(c, call[c], "ok")
     \/ /\ call[c].wire = "refused"
        /\ \E error \in {"PERMISSION_DENIED", "ROUTER_ERROR"} : Fails(c, call[c], error)

(* fetch throws: the write may be applied already, later or never.         *)
FetchFails(c) ==
  /\ call[c].result = None /\ call[c].wire # "unsent"
  /\ Fails(c, call[c], "unknown")

(* The person registers or deletes the profile by another way than the     *)
(* SDK, which has no call for deletion.                                    *)
ChangedElsewhere ==
  /\ elsewhere < MaxElsewhere /\ elsewhere' = elsewhere + 1
  /\ \/ DeletePreferences(Me)
     \/ \E profile \in Registrations :
          RegisterPreferences(Me, profile.rules, profile.defaultPolicy, profile.webhookUrl)
  /\ call' = [d \in Calls |-> [call[d] EXCEPT !.moved = @ \/ call[d].seen # None]]

Manage(c) ==
  \/ \E profile \in Registrations : Write(c, "register", profile)
  \/ \E rule \in RuleInputs : Write(c, "add_rule", rule)
  \/ \E typed \in TypedPatterns, op \in {"block_sender", "unblock_sender"} :
       WriteTyped(c, op, typed)
  \/ \E patch \in Patches : Get(c, "update", patch)
  \/ \E index \in 0..(MAX_RULES - 1) : Get(c, "remove_rule", index)
  \/ WriteAfterGet(c) \/ Execution(c) \/ Refusal(c) \/ Return(c) \/ FetchFails(c)

PreferencesNext == (\E c \in Calls : Manage(c)) \/ ChangedElsewhere

PreferencesSpec == PreferencesInit /\ [][PreferencesNext]_allVars

-----------------------------------------------------------------------------
Applies(c, op) ==
  call[c].op = op /\ call[c].wire = "under way" /\ call'[c].wire = "applied"
Rules(profile) == IF profile = None THEN <<>> ELSE profile.rules

(* preferences.ts:118, "fill in any omitted fields".  An update applied to *)
(* the profile it has seen leaves what its caller did not mention alone.   *)
OmittedFieldsSurvive ==
  [][\A c \in Calls : Applies(c, "update") /\ ~call[c].moved =>
       /\ call[c].input.rules = None => prefs'[Me].rules = prefs[Me].rules
       /\ call[c].input.defaultPolicy = None =>
            prefs'[Me].defaultPolicy = prefs[Me].defaultPolicy
       /\ call[c].input.webhookUrl = None =>
            prefs'[Me].webhookUrl = prefs[Me].webhookUrl]_allVars

(* A removal takes exactly one rule, and it is the one at that position of *)
(* the profile its caller has seen unless somebody changed it since.       *)
RemovalHitsWhatWasSeen ==
  [][\A c \in Calls : Applies(c, "remove_rule") =>
       /\ Len(prefs'[Me].rules) = Len(prefs[Me].rules) - 1
       /\ ~call[c].moved =>
            prefs'[Me].rules = RemoveAt(call[c].seen.rules, call[c].input + 1)]_allVars

(* No call loses rules but a removal, an update that names the rules, and  *)
(* an update that raced with another change.  In particular an app that    *)
(* took an error for a missing profile and registers destroys nothing.     *)
RulesLeaveOnPurpose ==
  [][\A c \in Calls :
       Applies(c, call[c].op) /\ ~IsPrefix(Rules(prefs[Me]), Rules(prefs'[Me])) =>
         \/ call[c].op = "remove_rule"
         \/ call[c].op = "update" /\ (call[c].input.rules # None \/ call[c].moved)]_allVars

(* A block whose caller was told of success bars every sender the typed    *)
(* pattern names, white space or not, as long as it is not lifted.         *)
AcknowledgedBlocksHold ==
  \A c \in Calls :
    call[c].op = "block_sender" /\ call[c].result = "ok" /\ ~call[c].undone =>
      \A s \in Senders, t \in SenderTypes, i \in Intents :
        PatternMatches(s, Trim(call[c].input)) => ~CheckPermission(Me, s, t, i).allowed
=============================================================================
