---------------------------- MODULE ShieldSettings ----------------------------
(***************************************************************************)
(* The settings of the browser extension (extension/src/shared/storage.ts):*)
(* one object in chrome.storage.sync.  A page saves a patch by reading the *)
(* object, merging, and writing all of it; the popup patches the switch,   *)
(* the options page everything else.                                       *)
(***************************************************************************)
EXTENDS Integers

CONSTANTS
  Popups, OptionsPages,   \* save calls at one time: a page may have several
  Actions,      \* what is done to a text found to be AI-generated
  Providers,    \* detection providers the options page offers
  Defaults,     \* DEFAULT_SETTINGS
  MaxSaves      \* bound on saves

ASSUME SettingsAssumption ==
  /\ MaxSaves \in Nat
  /\ Defaults \in [enabled : BOOLEAN, action : Actions, provider : Providers]

VARIABLES
  stored,     \* the settings object
  saves,      \* call -> its save; `stale' is a ghost: the fields other saves
              \* changed since it read
  saveCount

settingsVars == <<stored, saves, saveCount>>

Fields == DOMAIN Defaults

Pages == Popups \cup OptionsPages

Patches(p) ==
  IF p \in Popups THEN [enabled : BOOLEAN] ELSE [action : Actions, provider : Providers]

SettingsInit ==
  /\ stored = Defaults
  /\ saves = [p \in Pages |-> [pc |-> "idle"]]
  /\ saveCount = 0

(* popup: toggle; options: save.  saveSettings reads what is stored.       *)
ReadToSave(p, patch) ==
  /\ saves[p].pc = "idle" /\ saveCount < MaxSaves
  /\ saveCount' = saveCount + 1
  /\ saves' = [saves EXCEPT ![p] =
                 [pc |-> "merging", patch |-> patch, current |-> stored, stale |-> {}]]
  /\ UNCHANGED stored

(* Mutated form: what is not in the patch is set to its default.           *)
MergedOverDefaults(patch, current) ==
  [f \in Fields |-> IF f \in DOMAIN patch THEN patch[f] ELSE Defaults[f]]

Merged(patch, current) ==
  [f \in Fields |-> IF f \in DOMAIN patch THEN patch[f] ELSE current[f]]

ChangedFields == {f \in Fields : stored'[f] # stored[f]}

WriteSave(p) ==
  /\ saves[p].pc = "merging"
  /\ stored' = Merged(saves[p].patch, saves[p].current)
  /\ saves' = [q \in Pages |->
                 CASE q = p -> [pc |-> "idle"]
                   [] q # p /\ saves[q].pc = "merging" ->
                        [saves[q] EXCEPT !.stale = @ \cup ChangedFields]
                   [] OTHER -> saves[q]]
  /\ UNCHANGED saveCount

SettingsNext ==
  \/ \E p \in Pages : \E patch \in Patches(p) : ReadToSave(p, patch)
  \/ \E p \in Pages : WriteSave(p)

SettingsSpec == SettingsInit /\ [][SettingsNext]_settingsVars

-----------------------------------------------------------------------------
(* storage.ts:11.  A save leaves every field it was not asked to change as *)
(* it is, unless another save changed that field, on purpose or by writing *)
(* an old value back, while this one was between its read and its write:   *)
(* only saves that overlap undo each other.                                *)
SavesKeepTheRest ==
  [][\A p \in Pages, f \in Fields :
       saves[p].pc = "merging" /\ saves'[p].pc = "idle" =>
         (f \notin DOMAIN saves[p].patch /\ stored'[f] # stored[f]
            => f \in saves[p].stale)]_settingsVars
=============================================================================
