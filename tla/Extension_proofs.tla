--------------------------- MODULE Extension_proofs ---------------------------
(***************************************************************************)
(* Proofs about the browser extension, for any number of open pages, runs  *)
(* and texts, any settings, and any number of mishaps.                     *)
(***************************************************************************)
EXTENDS Extension, TLAPS

-----------------------------------------------------------------------------
(* Settings.                                                               *)

Settings == [enabled : BOOLEAN, action : Actions, provider : Providers]

AnyPatch == [enabled : BOOLEAN] \cup [action : Actions, provider : Providers]

SaveRecords ==
  {[pc |-> "idle"]} \cup
  [pc : {"merging"}, patch : AnyPatch, current : Settings, stale : SUBSET Fields]

(* A page that is between its read and its write knows what is stored, up  *)
(* to the fields that others have set since.                               *)
SettingsInv ==
  /\ stored \in Settings
  /\ saves \in [Pages -> SaveRecords]
  /\ \A p \in Pages : saves[p].pc = "merging" =>
       \A f \in Fields \ saves[p].stale : saves[p].current[f] = stored[f]

(* The fields of the settings, by name.                                    *)
LEMMA FieldNames == Fields = {"enabled", "action", "provider"}
  BY SettingsAssumption DEF Fields

LEMMA PatchTyped ==
  ASSUME NEW p \in Pages, NEW patch \in Patches(p)
  PROVE  patch \in AnyPatch
  BY DEF Patches, AnyPatch

(* Merging changes the fields of the patch and no other.                   *)
LEMMA MergedTyped ==
  ASSUME NEW patch \in AnyPatch, NEW current \in Settings
  PROVE  /\ Merged(patch, current) \in Settings
         /\ \A f \in Fields \ DOMAIN patch : Merged(patch, current)[f] = current[f]
  <1> DEFINE new == Merged(patch, current)
  <1>1. /\ DOMAIN new = {"enabled", "action", "provider"}
        /\ \A f \in {"enabled", "action", "provider"} :
             new[f] = IF f \in DOMAIN patch THEN patch[f] ELSE current[f]
        /\ new = [f \in {"enabled", "action", "provider"} |-> new[f]]
    BY FieldNames DEF Merged
  <1> HIDE DEF new
  <1>2. /\ current["enabled"] \in BOOLEAN
        /\ current["action"] \in Actions
        /\ current["provider"] \in Providers
    BY DEF Settings
  <1>3. CASE patch \in [enabled : BOOLEAN]
    <2>1. DOMAIN patch = {"enabled"} /\ patch["enabled"] \in BOOLEAN
      BY <1>3
    <2>2. /\ new["enabled"] \in BOOLEAN /\ new["action"] \in Actions
          /\ new["provider"] \in Providers
      BY <1>1, <1>2, <2>1
    <2> QED BY <1>1, <2>2, FieldNames DEF Settings, new
  <1>4. CASE patch \in [action : Actions, provider : Providers]
    <2>1. /\ DOMAIN patch = {"action", "provider"}
          /\ patch["action"] \in Actions /\ patch["provider"] \in Providers
      BY <1>4
    <2>2. /\ new["enabled"] \in BOOLEAN /\ new["action"] \in Actions
          /\ new["provider"] \in Providers
      BY <1>1, <1>2, <2>1
    <2> QED BY <1>1, <2>2, FieldNames DEF Settings, new
  <1> QED BY <1>3, <1>4 DEF AnyPatch

(* A page that reads knows everything.                                     *)
LEMMA ReadKeepsSettings ==
  ASSUME SettingsInv, NEW p \in Pages, NEW patch \in Patches(p), ReadToSave(p, patch)
  PROVE  SettingsInv'
  <1> DEFINE save == [pc |-> "merging", patch |-> patch, current |-> stored, stale |-> {}]
  <1>1. stored' = stored /\ saves' = [saves EXCEPT ![p] = save]
    BY DEF ReadToSave
  <1>2. save \in SaveRecords /\ save.current = stored
    BY PatchTyped DEF SettingsInv, SaveRecords
  <1> HIDE DEF save
  <1>3. saves' \in [Pages -> SaveRecords]
    BY <1>1, <1>2 DEF SettingsInv
  <1>4. ASSUME NEW q \in Pages, saves'[q].pc = "merging",
               NEW f \in Fields \ saves'[q].stale
        PROVE  saves'[q].current[f] = stored'[f]
    <2>1. CASE q = p
      BY <1>1, <1>2, <2>1 DEF SettingsInv
    <2>2. CASE q # p
      BY <1>1, <1>4, <2>2 DEF SettingsInv
    <2> QED BY <2>1, <2>2
  <1> QED BY <1>1, <1>3, <1>4 DEF SettingsInv

(* What a save that is under way holds.                                    *)
LEMMA SaveHolds ==
  ASSUME SettingsInv, NEW p \in Pages, saves[p].pc = "merging"
  PROVE  /\ saves[p] \in [pc : {"merging"}, patch : AnyPatch, current : Settings,
                          stale : SUBSET Fields]
         /\ saves[p].patch \in AnyPatch /\ saves[p].current \in Settings
         /\ saves[p].stale \subseteq Fields
  BY DEF SettingsInv, SaveRecords

(* A write is noted by every other save that is under way.                 *)
LEMMA WriteKeepsSettings ==
  ASSUME SettingsInv, NEW p \in Pages, WriteSave(p)
  PROVE  SettingsInv'
  <1> DEFINE told(q) == [saves[q] EXCEPT !.stale = @ \cup ChangedFields]
  <1>1. stored' \in Settings
    BY SaveHolds, MergedTyped DEF WriteSave
  <1>2. ASSUME NEW q \in Pages
        PROVE  /\ q = p => saves'[q] = [pc |-> "idle"]
               /\ q # p /\ saves[q].pc = "merging" => saves'[q] = told(q)
               /\ q # p /\ saves[q].pc # "merging" => saves'[q] = saves[q]
    BY DEF WriteSave
  <1>3. ASSUME NEW q \in Pages, saves[q].pc = "merging"
        PROVE  /\ told(q) \in SaveRecords
               /\ told(q).stale = saves[q].stale \cup ChangedFields
               /\ told(q).current = saves[q].current
    BY <1>3, SaveHolds DEF SaveRecords, ChangedFields
  <1> HIDE DEF told
  <1>4. ASSUME NEW q \in Pages PROVE saves'[q] \in SaveRecords
    <2>1. [pc |-> "idle"] \in SaveRecords /\ saves[q] \in SaveRecords
      BY DEF SaveRecords, SettingsInv
    <2> QED BY <1>2, <1>3, <2>1
  <1>5. saves' \in [Pages -> SaveRecords]
    BY <1>4 DEF WriteSave
  <1>6. ASSUME NEW q \in Pages, saves'[q].pc = "merging",
               NEW f \in Fields \ saves'[q].stale
        PROVE  saves'[q].current[f] = stored'[f]
    <2>1. q # p /\ saves[q].pc = "merging" /\ saves'[q] = told(q)
      BY <1>2, <1>6
    <2>2. f \notin saves[q].stale /\ stored'[f] = stored[f]
      BY <1>3, <1>6, <2>1 DEF ChangedFields
    <2>3. saves'[q].current[f] = saves[q].current[f]
      BY <1>3, <2>1
    <2> QED BY <2>1, <2>2, <2>3 DEF SettingsInv
  <1> QED BY <1>1, <1>5, <1>6 DEF SettingsInv

LEMMA SettingsInvHolds == SettingsSpec => []SettingsInv
  <1>1. SettingsInit => SettingsInv
    BY SettingsAssumption DEF SettingsInit, SettingsInv, Settings, SaveRecords
  <1>2. SettingsInv /\ [SettingsNext]_settingsVars => SettingsInv'
    <2>1. SettingsInv /\ UNCHANGED settingsVars => SettingsInv'
      BY DEF settingsVars, SettingsInv
    <2> QED BY <2>1, ReadKeepsSettings, WriteKeepsSettings DEF SettingsNext
  <1> QED BY <1>1, <1>2, PTL DEF SettingsSpec

(* A save leaves the fields it was not asked to change as they are, unless *)
(* another save changed them since it read, for any number of pages.       *)
THEOREM SavesOverlapOnly == SettingsSpec => SavesKeepTheRest
  <1> DEFINE Saved(p, f) ==
        saves[p].pc = "merging" /\ saves'[p].pc = "idle" =>
          (f \notin DOMAIN saves[p].patch /\ stored'[f] # stored[f]
             => f \in saves[p].stale)
  <1>1. ASSUME SettingsInv, [SettingsNext]_settingsVars, NEW p \in Pages, NEW f \in Fields
        PROVE  Saved(p, f)
    <2>1. ASSUME NEW q \in Pages, NEW patch \in Patches(q), ReadToSave(q, patch)
          PROVE  Saved(p, f)
      BY <2>1 DEF ReadToSave
    <2>2. ASSUME NEW q \in Pages, WriteSave(q), saves[p].pc = "merging",
                 saves'[p].pc = "idle", f \notin DOMAIN saves[p].patch,
                 f \notin saves[p].stale
          PROVE  stored'[f] = stored[f]
      <3>1. CASE p # q
        <4>1. saves'[p] = [saves[p] EXCEPT !.stale = @ \cup ChangedFields]
          BY <2>2, <3>1 DEF WriteSave
        <4>2. saves'[p].pc = saves[p].pc
          BY <1>1, <2>2, <4>1, SaveHolds
        <4> QED BY <2>2, <4>2
      <3>2. CASE p = q
        <4>1. stored'[f] = saves[p].current[f]
          BY <1>1, <2>2, <3>2, SaveHolds, MergedTyped DEF WriteSave
        <4> QED BY <1>1, <2>2, <4>1 DEF SettingsInv
      <3> QED BY <3>1, <3>2
    <2>3. CASE UNCHANGED settingsVars
      BY <2>3 DEF settingsVars
    <2> QED BY <1>1, <2>1, <2>2, <2>3 DEF SettingsNext
  <1>2. SettingsInv /\ [SettingsNext]_settingsVars =>
          [\A p \in Pages, f \in Fields : Saved(p, f)]_settingsVars
    BY <1>1
  <1> QED BY <1>2, SettingsInvHolds, PTL DEF SettingsSpec, SavesKeepTheRest

-----------------------------------------------------------------------------
(* The worker.                                                             *)

(* Only a worker that runs has a promise.                                  *)
WorkerInv ==
  /\ alive \in BOOLEAN /\ deaths \in Nat /\ faults \in Nat
  /\ loader # "none" => alive
  /\ ReadyMeansLoaded

(* Whatever happens to the worker, its status does not promise a model it  *)
(* has not got.                                                            *)
LEMMA WorkerKept ==
  ASSUME WorkerInv,
         \/ WorkerStarts \/ LoadIsTold \/ LoadProgresses \/ ModelArrives \/ ModelFails
         \/ LoadIsAnnounced \/ LoadEnds \/ (alive /\ GetClassifier) \/ UnhandledRejection
         \/ WorkerDies \/ UNCHANGED workerVars
  PROVE  WorkerInv'
  <1> USE DEF WorkerInv, ReadyMeansLoaded, Fault
  <1>1. CASE WorkerStarts
    BY <1>1 DEF WorkerStarts
  <1>2. CASE LoadIsTold
    BY <1>2 DEF LoadIsTold
  <1>3. CASE LoadProgresses
    BY <1>3 DEF LoadProgresses
  <1>4. CASE ModelArrives \/ ModelFails
    BY <1>4 DEF ModelArrives, ModelFails
  <1>5. CASE LoadIsAnnounced
    BY <1>5 DEF LoadIsAnnounced
  <1>6. CASE LoadEnds
    BY <1>6 DEF LoadEnds
  <1>7. CASE (alive /\ GetClassifier) \/ UnhandledRejection
    BY <1>7 DEF GetClassifier, UnhandledRejection
  <1>8. CASE WorkerDies
    <2>1. alive' = FALSE /\ loader' = "none" /\ deaths' = deaths + 1 /\ faults' = faults
      BY <1>8 DEF WorkerDies
    <2>2. alive' \in BOOLEAN /\ ~alive'
      BY <2>1
    <2>3. deaths' \in Nat /\ faults' \in Nat
      BY <2>1
    <2>4. loader' # "none" => alive'
      BY <2>1
    <2> QED BY <2>2, <2>3, <2>4
  <1>9. CASE UNCHANGED workerVars
    BY <1>9 DEF workerVars
  <1> QED BY <1>1, <1>2, <1>3, <1>4, <1>5, <1>6, <1>7, <1>8, <1>9

-----------------------------------------------------------------------------
(* The runs.                                                               *)

Examining == {"asked", "classifying", "fallback", "answered", "deciding"}

Places == {"idle", "fetching", "looping", "opening", "scanning"} \cup Examining

RunRecords ==
  [pc : Places, text : Texts \cup {None}, todo : SUBSET Texts, verdict : BOOLEAN,
   action : Actions \cup {"none"}, off : BOOLEAN]

(* A run that asked while the shield was off, and has not seen it switched *)
(* on since, gets no verdict.                                              *)
RunOK(run, on) ==
  /\ run \in RunRecords
  /\ run.pc \in Examining => run.text \in Texts
  /\ run.off =>
       /\ ~on /\ run.pc \in {"asked", "answered", "deciding"}
       /\ run.pc # "asked" => ~run.verdict

RunsOK ==
  /\ runs \in [Runs -> RunRecords]
  /\ \A r \in Runs : RunOK(runs[r], stored.enabled)

(* The mark on a text counts its decorations.                              *)
MarksCount ==
  /\ processed \subseteq Texts
  /\ adorned = [t \in Texts |-> IF t \in processed THEN 1 ELSE 0]

(* What the scanners know of one another is on the page and in the store:  *)
(* the invariant speaks of each run alone.                                 *)
ExtensionInv == SettingsInv /\ WorkerInv /\ RunsOK /\ MarksCount

(* A run that is over.                                                     *)
LEMMA NoRunOK == ASSUME NEW on PROVE RunOK(NoRun, on)
  BY DEF NoRun, RunOK, RunRecords, Places, Examining

(* A run that goes on elsewhere keeps the rest of its record.              *)
LEMMA AtFields ==
  ASSUME RunsOK, NEW r \in Runs, NEW pc \in Places
  PROVE  /\ At(r, pc) \in RunRecords
         /\ At(r, pc).pc = pc /\ At(r, pc).text = runs[r].text
         /\ At(r, pc).verdict = runs[r].verdict /\ At(r, pc).off = runs[r].off
  BY DEF At, RunsOK, RunRecords

(* Replacing the record of one run leaves the others as they are.          *)
LEMMA SetKeeps ==
  ASSUME RunsOK, NEW r \in Runs, NEW run, RunOK(run, stored.enabled), Set(r, run),
         stored' = stored
  PROVE  RunsOK'
  BY DEF RunsOK, Set, RunOK

(* A run that asks records whether the shield is on.                       *)
LEMMA AskingOK ==
  ASSUME SettingsInv, RunsOK, NEW r \in Runs, NEW text \in Texts
  PROVE  RunOK(Asking(r, text), stored.enabled)
  <1>1. stored.enabled \in BOOLEAN
    BY DEF SettingsInv, Settings
  <1>2. runs[r] \in RunRecords
    BY DEF RunsOK
  <1> DEFINE rest == Without(r, text)
  <1>3. rest \in RunRecords
    BY <1>2 DEF Without, RunRecords
  <1> HIDE DEF rest
  <1>4. [rest EXCEPT !.pc = "asked", !.text = text, !.off = ~stored.enabled] \in RunRecords
    BY <1>1, <1>3 DEF RunRecords, Places, Examining
  <1>5. LET run == [rest EXCEPT !.pc = "asked", !.text = text, !.off = ~stored.enabled]
        IN  run.pc = "asked" /\ run.text = text /\ run.off = ~stored.enabled
    BY <1>3 DEF RunRecords
  <1> QED BY <1>1, <1>4, <1>5 DEF Asking, RunOK, rest

(* So does one that passes over a text.                                    *)
LEMMA WithoutOK ==
  ASSUME RunsOK, NEW r \in Runs, NEW text
  PROVE  RunOK(Without(r, text), stored.enabled)
  <1>1. runs[r] \in RunRecords /\ RunOK(runs[r], stored.enabled)
    BY DEF RunsOK
  <1>2. /\ Without(r, text) \in RunRecords
        /\ Without(r, text).pc = runs[r].pc /\ Without(r, text).text = runs[r].text
        /\ Without(r, text).off = runs[r].off
        /\ Without(r, text).verdict = runs[r].verdict
    BY <1>1 DEF Without, RunRecords
  <1> QED BY <1>1, <1>2 DEF RunOK

(* The steps up to the question.                                           *)
LEMMA ScanningOK ==
  ASSUME SettingsInv, RunsOK, NEW r \in Runs,
         \/ \E b \in Bodies : OpenPane(r, b)
         \/ InboxChanges(r) \/ TakeRows(r) \/ (\E row \in Rows : NextRow(r, row))
         \/ RowsDone(r) \/ OpenPage(r) \/ ExtractBlocks(r)
         \/ (\E b \in Blocks : NextBlock(r, b)) \/ BlocksDone(r)
  PROVE  RunsOK' /\ UNCHANGED <<processed, adorned>>
  <1>1. ASSUME NEW b \in Bodies, OpenPane(r, b)
        PROVE  RunsOK' /\ UNCHANGED <<processed, adorned>>
    <2>1. b \in Texts
      BY DEF Texts
    <2> QED BY <1>1, <2>1, AskingOK, SetKeeps DEF OpenPane, settingsVars
  <1>2. ASSUME NEW row \in Rows, NextRow(r, row)
        PROVE  RunsOK' /\ UNCHANGED <<processed, adorned>>
    <2>1. row \in Texts
      BY DEF Texts
    <2> QED BY <1>2, <2>1, AskingOK, WithoutOK, SetKeeps DEF NextRow, settingsVars
  <1>3. ASSUME NEW b \in Blocks, NextBlock(r, b)
        PROVE  RunsOK' /\ UNCHANGED <<processed, adorned>>
    <2>1. b \in Texts
      BY DEF Texts
    <2> QED BY <1>3, <2>1, AskingOK, WithoutOK, SetKeeps DEF NextBlock, settingsVars
  <1>4. CASE RowsDone(r) \/ BlocksDone(r)
    BY <1>4, NoRunOK, SetKeeps DEF RowsDone, BlocksDone, settingsVars
  <1>5. ASSUME NEW pc \in Places \ Examining,
               runs[r].pc \in {"idle", "fetching", "opening"}
        PROVE  RunOK(At(r, pc), stored.enabled) /\ ~At(r, pc).off
    BY <1>5, AtFields DEF RunsOK, RunOK, Examining
  <1>6. CASE InboxChanges(r) \/ OpenPage(r)
    <2>1. runs[r].pc = "idle" /\ stored' = stored /\ UNCHANGED <<processed, adorned>>
      BY <1>6 DEF InboxChanges, OpenPage, Starts, settingsVars
    <2>2. Set(r, At(r, "fetching")) \/ Set(r, At(r, "opening"))
      BY <1>6 DEF InboxChanges, OpenPage
    <2>3. "fetching" \in Places \ Examining /\ "opening" \in Places \ Examining
      BY DEF Places, Examining
    <2> QED BY <1>5, <2>1, <2>2, <2>3, SetKeeps
  <1>7. CASE TakeRows(r)
    <2> DEFINE run == [At(r, "looping") EXCEPT !.todo = Rows \ marked]
    <2>1. "looping" \in Places \ Examining
      BY DEF Places, Examining
    <2>2. RunOK(At(r, "looping"), stored.enabled) /\ ~At(r, "looping").off
          /\ At(r, "looping") \in RunRecords /\ At(r, "looping").pc = "looping"
      BY <1>5, <1>7, <2>1, AtFields DEF TakeRows
    <2>3. run \in RunRecords /\ run.pc = "looping" /\ ~run.off
      BY <2>2 DEF RunRecords, Texts
    <2>4. RunOK(run, stored.enabled)
      BY <2>3 DEF RunOK, Examining
    <2> HIDE DEF run
    <2>5. Set(r, run) /\ stored' = stored /\ UNCHANGED <<processed, adorned>>
      BY <1>7 DEF TakeRows, settingsVars, run
    <2> QED BY <2>4, <2>5, SetKeeps
  <1>8. CASE ExtractBlocks(r)
    <2> DEFINE run == [At(r, "scanning") EXCEPT !.todo = Blocks, !.action = stored.action]
    <2>1. "scanning" \in Places \ Examining
      BY DEF Places, Examining
    <2>2. RunOK(At(r, "scanning"), stored.enabled) /\ ~At(r, "scanning").off
          /\ At(r, "scanning") \in RunRecords /\ At(r, "scanning").pc = "scanning"
      BY <1>5, <1>8, <2>1, AtFields DEF ExtractBlocks
    <2>3. stored.action \in Actions
      BY DEF SettingsInv, Settings
    <2>4. run \in RunRecords /\ run.pc = "scanning" /\ ~run.off
      BY <2>2, <2>3 DEF RunRecords, Texts
    <2>5. RunOK(run, stored.enabled)
      BY <2>4 DEF RunOK, Examining
    <2> HIDE DEF run
    <2>6. Set(r, run) \/ Set(r, NoRun)
      BY <1>8 DEF ExtractBlocks, run
    <2>7. stored' = stored /\ UNCHANGED <<processed, adorned>>
      BY <1>8 DEF ExtractBlocks, settingsVars
    <2> QED BY <2>5, <2>6, <2>7, NoRunOK, SetKeeps
  <1> QED BY <1>1, <1>2, <1>3, <1>4, <1>6, <1>7, <1>8

-----------------------------------------------------------------------------
(* The answers.                                                            *)

(* A run is answered: without a verdict, or after it was seen switched on. *)
LEMMA AnsweredOK ==
  ASSUME RunsOK, NEW r \in Runs, runs[r].pc \in Examining, NEW verdict \in BOOLEAN,
         ~verdict \/ ~runs[r].off, Answered(r, verdict), stored' = stored
  PROVE  RunsOK'
  <1> DEFINE run == [At(r, "answered") EXCEPT !.verdict = verdict]
  <1>1. /\ At(r, "answered") \in RunRecords /\ At(r, "answered").text = runs[r].text
        /\ At(r, "answered").pc = "answered" /\ At(r, "answered").off = runs[r].off
    BY AtFields DEF Places, Examining
  <1>2. /\ run \in RunRecords /\ run.text = runs[r].text /\ run.pc = "answered"
        /\ run.off = runs[r].off /\ run.verdict = verdict
    BY <1>1 DEF RunRecords
  <1>3. RunOK(runs[r], stored.enabled)
    BY DEF RunsOK
  <1>4. RunOK(run, stored.enabled)
    <2> HIDE DEF run
    <2> QED BY <1>2, <1>3 DEF RunOK
  <1> QED BY <1>4, SetKeeps DEF Answered

(* The worker reads the switch at another time than the scanner did, but a *)
(* run that was off is off then too.                                       *)
LEMMA DetectionOK ==
  ASSUME SettingsInv, RunsOK, NEW r \in Runs, HandleDetection(r)
  PROVE  RunsOK'
  <1>1. runs[r].pc = "asked" /\ stored' = stored
    BY DEF HandleDetection, settingsVars
  <1>2. RunOK(runs[r], stored.enabled)
    BY DEF RunsOK
  <1>3. CASE Disabled(r)
    BY <1>1, <1>3, AnsweredOK DEF Disabled, Examining
  <1>4. ASSUME stored.enabled, Heuristics(r)
        PROVE  RunsOK'
    <2>1. ~runs[r].off
      BY <1>2, <1>4 DEF RunOK
    <2> QED BY <1>1, <1>4, <2>1, AnsweredOK DEF Heuristics, Examining
  <1>5. ASSUME stored.enabled, AskModel(r)
        PROVE  RunsOK'
    <2>1. ~runs[r].off /\ runs[r].text \in Texts
      BY <1>1, <1>2, <1>5 DEF RunOK, Examining
    <2>2. ASSUME NEW pc \in {"fallback", "classifying"}
          PROVE  RunOK(At(r, pc), stored.enabled)
      <3>1. pc \in Places
        BY DEF Places, Examining
      <3>2. /\ At(r, pc) \in RunRecords
            /\ At(r, pc).text = runs[r].text /\ At(r, pc).off = runs[r].off
        BY <3>1, AtFields
      <3> QED BY <2>1, <3>2 DEF RunOK
    <2>3. PICK pc \in {"fallback", "classifying"} : Set(r, At(r, pc))
      BY <1>5 DEF AskModel
    <2> QED BY <1>1, <2>2, <2>3, SetKeeps
  <1> QED BY <1>3, <1>4, <1>5 DEF HandleDetection

LEMMA ClassifiedOK ==
  ASSUME RunsOK, NEW r \in Runs, Classified(r)
  PROVE  RunsOK'
  <1>1. runs[r].pc \in {"fallback", "classifying"} /\ stored' = stored
    BY DEF Classified, settingsVars
  <1>2. ~runs[r].off
    BY <1>1 DEF RunsOK, RunOK
  <1> QED BY <1>1, <1>2, AnsweredOK DEF Classified, Examining

LEMMA ReadActionOK ==
  ASSUME SettingsInv, RunsOK, NEW r \in Runs, ReadAction(r)
  PROVE  RunsOK'
  <1> DEFINE run == [At(r, "deciding") EXCEPT !.action = stored.action]
  <1>1. runs[r].pc = "answered" /\ stored' = stored /\ stored.action \in Actions
    BY DEF ReadAction, settingsVars, SettingsInv, Settings
  <1>2. /\ At(r, "deciding") \in RunRecords /\ At(r, "deciding").text = runs[r].text
        /\ At(r, "deciding").pc = "deciding" /\ At(r, "deciding").off = runs[r].off
        /\ At(r, "deciding").verdict = runs[r].verdict
    BY AtFields DEF Places, Examining
  <1>3. /\ run \in RunRecords /\ run.text = runs[r].text /\ run.pc = "deciding"
        /\ run.off = runs[r].off /\ run.verdict = runs[r].verdict
    BY <1>1, <1>2 DEF RunRecords
  <1>4. RunOK(runs[r], stored.enabled)
    BY DEF RunsOK
  <1>5. RunOK(run, stored.enabled)
    <2> HIDE DEF run
    <2> QED BY <1>1, <1>3, <1>4 DEF RunOK, Examining
  <1> QED BY <1>1, <1>5, SetKeeps DEF ReadAction

-----------------------------------------------------------------------------
(* The decorations.                                                        *)

(* Whatever was decorated in the meantime, the mark still counts.          *)
LEMMA DecorateOK ==
  ASSUME MarksCount, NEW text \in Texts, Decorate(text)
  PROVE  MarksCount'
  <1>1. CASE text \in processed
    BY <1>1 DEF Decorate, MarksCount
  <1>2. CASE text \notin processed
    <2>1. processed' = processed \cup {text}
          /\ adorned' = [adorned EXCEPT ![text] = @ + 1]
      BY <1>2 DEF Decorate, Adorn
    <2>2. ASSUME NEW t \in Texts
          PROVE  adorned'[t] = IF t \in processed' THEN 1 ELSE 0
      BY <1>2, <2>1 DEF MarksCount
    <2>3. adorned' = [t \in Texts |-> adorned'[t]]
      BY <2>1 DEF MarksCount
    <2>4. adorned' = [t \in Texts |-> IF t \in processed' THEN 1 ELSE 0]
      BY <2>2, <2>3
    <2> QED BY <2>1, <2>4 DEF MarksCount
  <1> QED BY <1>1, <1>2

LEMMA BackToOK ==
  ASSUME RunsOK, NEW r \in Runs, NEW pc \in {"looping", "scanning"}
  PROVE  RunOK(BackTo(r, pc), stored.enabled)
  <1>1. runs[r] \in RunRecords
    BY DEF RunsOK
  <1>2. BackTo(r, pc) \in RunRecords /\ BackTo(r, pc).pc = pc /\ ~BackTo(r, pc).off
    BY <1>1 DEF BackTo, RunRecords, Places, Examining
  <1> QED BY <1>2 DEF RunOK, Examining

LEMMA DecisionOK ==
  ASSUME RunsOK, MarksCount, NEW r \in Runs, Decide(r) \/ DecideRow(r) \/ DecideBlock(r)
  PROVE  RunsOK' /\ MarksCount'
  <1>1. stored' = stored /\ runs[r].pc \in {"deciding", "answered"}
    BY DEF Decide, DecideRow, DecideBlock, settingsVars
  <1>2. runs[r].text \in Texts
    BY <1>1 DEF RunsOK, RunOK, Examining
  <1>3. RunsOK'
    <2>1. CASE Decide(r)
      BY <1>1, <2>1, NoRunOK, SetKeeps DEF Decide
    <2>2. CASE DecideRow(r) \/ DecideBlock(r)
      BY <1>1, <2>2, BackToOK, SetKeeps DEF DecideRow, DecideBlock
    <2> QED BY <2>1, <2>2
  <1>4. Decorate(runs[r].text) \/ UNCHANGED <<processed, adorned>>
    BY DEF Decide, DecideRow, DecideBlock
  <1>5. MarksCount'
    BY <1>2, <1>4, DecorateOK DEF MarksCount
  <1> QED BY <1>3, <1>5

-----------------------------------------------------------------------------
(* What happens to all runs at once.                                       *)

LEMMA LoadFailsOK ==
  ASSUME RunsOK, LoadFails
  PROVE  RunsOK'
  <1>1. stored' = stored
    BY DEF LoadFails, settingsVars
  <1>2. ASSUME NEW r \in Runs PROVE RunOK(runs'[r], stored.enabled)
    <2>1. runs[r] \in RunRecords /\ RunOK(runs[r], stored.enabled)
      BY DEF RunsOK
    <2>2. CASE runs[r].pc = "classifying"
      <3> DEFINE run == [runs[r] EXCEPT !.pc = "fallback"]
      <3>1. runs'[r] = run
        BY <2>2 DEF LoadFails
      <3>2. /\ run \in RunRecords /\ run.pc = "fallback"
            /\ run.text = runs[r].text /\ run.off = runs[r].off
        BY <2>1 DEF RunRecords, Places, Examining
      <3> HIDE DEF run
      <3>3. RunOK(run, stored.enabled)
        BY <2>1, <2>2, <3>2 DEF RunOK, Examining
      <3> QED BY <3>1, <3>3
    <2>3. CASE runs[r].pc # "classifying"
      BY <2>1, <2>3 DEF LoadFails
    <2> QED BY <2>2, <2>3
  <1>3. runs' = [r \in Runs |-> runs'[r]]
    BY DEF LoadFails
  <1> QED BY <1>1, <1>2, <1>3 DEF RunsOK, RunOK

LEMMA WorkerEndsOK ==
  ASSUME RunsOK, WorkerEnds
  PROVE  RunsOK'
  <1>1. stored' = stored
    BY DEF WorkerEnds, settingsVars
  <1>2. ASSUME NEW r \in Runs PROVE RunOK(runs'[r], stored.enabled)
    BY NoRunOK DEF WorkerEnds, RunsOK
  <1>3. runs' = [r \in Runs |-> runs'[r]]
    BY DEF WorkerEnds
  <1> QED BY <1>1, <1>2, <1>3 DEF RunsOK, RunOK

(* A save that switches the shield on is noted by every run.               *)
LEMMA EndSaveOK ==
  ASSUME SettingsInv', RunsOK, NEW p \in Pages, EndSave(p)
  PROVE  RunsOK'
  <1>1. stored'.enabled \in BOOLEAN
    BY DEF SettingsInv, Settings
  <1>2. ASSUME NEW r \in Runs PROVE RunOK(runs'[r], stored'.enabled)
    <2> DEFINE run == [runs[r] EXCEPT !.off = @ /\ ~stored'.enabled]
    <2>1. runs[r] \in RunRecords /\ RunOK(runs[r], stored.enabled)
      BY DEF RunsOK
    <2>2. runs'[r] = run
      BY DEF EndSave
    <2>3. run \in RunRecords
      BY <1>1, <2>1 DEF RunRecords
    <2>4. /\ run.pc = runs[r].pc /\ run.text = runs[r].text
          /\ run.verdict = runs[r].verdict
          /\ run.off = (runs[r].off /\ ~stored'.enabled)
      BY <2>1 DEF RunRecords
    <2> HIDE DEF run
    <2>5. RunOK(run, stored'.enabled)
      BY <2>1, <2>3, <2>4 DEF RunOK
    <2> QED BY <2>2, <2>5
  <1>3. runs' = [r \in Runs |-> runs'[r]]
    BY DEF EndSave
  <1> QED BY <1>2, <1>3 DEF RunsOK, RunOK

-----------------------------------------------------------------------------
LEMMA InitKnows == Init => ExtensionInv
  <1> SUFFICES ASSUME Init PROVE ExtensionInv
    OBVIOUS
  <1>1. SettingsInv
    BY SettingsAssumption
    DEF Init, SettingsInit, SettingsInv, Settings, SaveRecords
  <1>2. WorkerInv
    BY DEF Init, WorkerInit, WorkerInv, ReadyMeansLoaded
  <1>3. \A r \in Runs : runs[r] = NoRun
    BY DEF Init
  <1>4. \A r \in Runs : RunOK(runs[r], stored.enabled)
    BY <1>3, NoRunOK
  <1>5. RunsOK
    BY <1>4 DEF Init, RunsOK, RunOK
  <1>6. MarksCount
    BY DEF Init, MarksCount
  <1> QED BY <1>1, <1>2, <1>5, <1>6 DEF ExtensionInv

(* A step of one run.                                                      *)
LEMMA RunKeeps ==
  ASSUME ExtensionInv, NEW r \in Runs,
         RunStep(r) \/ HandlerFails(r) \/ InboxChanges(r) \/ OpenPage(r)
           \/ \E b \in Bodies : OpenPane(r, b)
  PROVE  ExtensionInv'
  <1> USE DEF ExtensionInv
  <1>1. SettingsInv'
    <2>1. UNCHANGED settingsVars
      BY DEF RunStep, HandlerFails, InboxChanges, OpenPage, OpenPane, TakeRows, NextRow,
         RowsDone, ExtractBlocks, NextBlock, BlocksDone, HandleDetection, Classified,
         ReadAction, Decide, DecideRow, DecideBlock
    <2> QED BY <2>1 DEF settingsVars, SettingsInv
  <1>2. WorkerInv'
    <2>1. CASE HandleDetection(r)
      BY <2>1, WorkerKept DEF HandleDetection, Disabled, Heuristics, AskModel
    <2>2. CASE HandlerFails(r)
      BY <2>2, WorkerKept DEF HandlerFails
    <2>3. CASE ~(HandleDetection(r) \/ HandlerFails(r))
      <3>1. UNCHANGED workerVars
        BY <2>3 DEF RunStep, InboxChanges, OpenPage, OpenPane, TakeRows, NextRow,
           RowsDone, ExtractBlocks, NextBlock, BlocksDone, Classified,
           ReadAction, Decide, DecideRow, DecideBlock
      <3> QED BY <3>1, WorkerKept
    <2> QED BY <2>1, <2>2, <2>3
  <1>3. CASE \/ \E b \in Bodies : OpenPane(r, b)
             \/ InboxChanges(r) \/ TakeRows(r) \/ (\E row \in Rows : NextRow(r, row))
             \/ RowsDone(r) \/ OpenPage(r) \/ ExtractBlocks(r)
             \/ (\E b \in Blocks : NextBlock(r, b)) \/ BlocksDone(r)
    <2>1. RunsOK' /\ UNCHANGED <<processed, adorned>>
      BY <1>3, ScanningOK
    <2> QED BY <1>1, <1>2, <2>1 DEF MarksCount
  <1>4. CASE HandleDetection(r) \/ Classified(r) \/ ReadAction(r)
    <2>1. RunsOK'
      BY <1>4, DetectionOK, ClassifiedOK, ReadActionOK
    <2>2. UNCHANGED <<processed, adorned>>
      BY <1>4 DEF HandleDetection, Classified, ReadAction
    <2> QED BY <1>1, <1>2, <2>1, <2>2 DEF MarksCount
  <1>5. CASE Decide(r) \/ DecideRow(r) \/ DecideBlock(r)
    BY <1>1, <1>2, <1>5, DecisionOK
  <1>6. CASE HandlerFails(r)
    <2>1. stored' = stored /\ Set(r, NoRun) /\ UNCHANGED <<processed, adorned>>
      BY <1>6 DEF HandlerFails, settingsVars
    <2> QED BY <1>1, <1>2, <2>1, NoRunOK, SetKeeps DEF MarksCount
  <1> QED BY <1>3, <1>4, <1>5, <1>6 DEF RunStep

(* Every step keeps the invariant.                                         *)
LEMMA NextKnows == ExtensionInv /\ [Next]_vars => ExtensionInv'
  <1> SUFFICES ASSUME ExtensionInv, [Next]_vars PROVE ExtensionInv'
    OBVIOUS
  <1> USE DEF ExtensionInv
  <1>1. ASSUME NEW p \in Pages, NEW patch \in Patches(p), StartSave(p, patch)
        PROVE  ExtensionInv'
    <2>1. SettingsInv' /\ stored' = stored
      BY <1>1, ReadKeepsSettings DEF StartSave, ReadToSave
    <2>2. WorkerInv'
      BY <1>1, WorkerKept DEF StartSave
    <2> QED BY <1>1, <2>1, <2>2 DEF StartSave, contentVars, RunsOK, MarksCount
  <1>2. ASSUME NEW p \in Pages, EndSave(p) PROVE ExtensionInv'
    <2>1. SettingsInv'
      BY <1>2, WriteKeepsSettings DEF EndSave
    <2>2. WorkerInv'
      BY <1>2, WorkerKept DEF EndSave
    <2>3. RunsOK'
      BY <1>2, <2>1, EndSaveOK
    <2> QED BY <1>2, <2>1, <2>2, <2>3 DEF EndSave, MarksCount
  <1>3. CASE WorkerLives
    <2>1. WorkerInv'
      BY <1>3, WorkerKept DEF WorkerLives
    <2> QED BY <1>3, <2>1
        DEF WorkerLives, settingsVars, contentVars, SettingsInv, RunsOK, MarksCount
  <1>4. CASE LoadFails
    <2>1. WorkerInv'
      BY <1>4, WorkerKept DEF LoadFails
    <2> QED BY <1>4, <2>1, LoadFailsOK DEF LoadFails, settingsVars, SettingsInv, MarksCount
  <1>5. CASE WorkerEnds
    <2>1. WorkerInv'
      BY <1>5, WorkerKept DEF WorkerEnds
    <2> QED BY <1>5, <2>1, WorkerEndsOK DEF WorkerEnds, settingsVars, SettingsInv, MarksCount
  <1>6. CASE UNCHANGED vars
    <2>1. WorkerInv'
      BY <1>6, WorkerKept DEF vars
    <2> QED BY <1>6, <2>1
        DEF vars, settingsVars, contentVars, SettingsInv, RunsOK, MarksCount
  <1> QED BY <1>1, <1>2, <1>3, <1>4, <1>5, <1>6, RunKeeps DEF Next

LEMMA ExtensionInvHolds == Spec => []ExtensionInv
  BY InitKnows, NextKnows, PTL DEF Spec

(* No text is decorated twice, for any number of runs that interleave.     *)
THEOREM DecorationsAreSingle == Spec => []DecoratedOnce
  <1>1. ExtensionInv => DecoratedOnce
    BY DEF ExtensionInv, MarksCount, DecoratedOnce
  <1> QED BY <1>1, ExtensionInvHolds, PTL

(* As long as storage works, the status is ready only when the model of    *)
(* this worker is loaded, for any number of restarts.                      *)
THEOREM StatusIsTrue == Spec => []ReadyMeansLoaded
  <1>1. ExtensionInv => ReadyMeansLoaded
    BY DEF ExtensionInv, WorkerInv
  <1> QED BY <1>1, ExtensionInvHolds, PTL

(* What was asked about while the shield was off is not decorated as long  *)
(* as it stays off, for any number of pages that switch it.                *)
THEOREM OffIsOff == Spec => OffMeansOff
  <1>1. ASSUME ExtensionInv, [Next]_vars, NEW r \in Runs, runs[r].off,
               runs[r].pc \in {"deciding", "answered"}, runs'[r].pc # runs[r].pc
        PROVE  adorned' = adorned
    <2>1. RunsOK /\ ~runs[r].verdict
      BY <1>1 DEF ExtensionInv, RunsOK, RunOK
    <2>2. ASSUME NEW q \in Runs, Decide(q) \/ DecideRow(q) \/ DecideBlock(q)
          PROVE  adorned' = adorned
      <3>1. PICK run : Set(q, run)
        BY <2>2 DEF Decide, DecideRow, DecideBlock
      <3>2. q = r
        BY <1>1, <2>1, <3>1 DEF Set, RunsOK
      <3> QED BY <2>1, <2>2, <3>2 DEF Decide, DecideRow, DecideBlock
    <2>3. ASSUME NEW q \in Runs,
                 RunStep(q) \/ HandlerFails(q) \/ InboxChanges(q) \/ OpenPage(q)
                   \/ \E b \in Bodies : OpenPane(q, b)
          PROVE  adorned' = adorned
      BY <2>2, <2>3
      DEF RunStep, HandlerFails, InboxChanges, OpenPage, OpenPane, TakeRows, NextRow,
          RowsDone, ExtractBlocks, NextBlock, BlocksDone, HandleDetection, Classified,
          ReadAction
    <2>4. CASE \/ \E p \in Pages : \E patch \in Patches(p) : StartSave(p, patch)
               \/ \E p \in Pages : EndSave(p)
               \/ WorkerLives \/ LoadFails \/ WorkerEnds \/ UNCHANGED vars
      BY <2>4 DEF StartSave, EndSave, WorkerLives, LoadFails, WorkerEnds, vars, contentVars
    <2> QED BY <1>1, <2>3, <2>4 DEF Next
  <1>2. ExtensionInv /\ [Next]_vars =>
          [\A r \in Runs :
             runs[r].off /\ runs[r].pc \in {"deciding", "answered"}
               /\ runs'[r].pc # runs[r].pc
                 => adorned' = adorned]_vars
    BY <1>1
  <1> QED BY <1>2, ExtensionInvHolds, PTL DEF Spec, OffMeansOff

(* The extension keeps its settings as the settings are specified.         *)
THEOREM SettingsImplemented == Spec => SettingsSpec
  <1>1. Init => SettingsInit
    BY DEF Init
  <1>2. [Next]_vars => [SettingsNext]_settingsVars
    <2> SUFFICES ASSUME [Next]_vars PROVE [SettingsNext]_settingsVars
      OBVIOUS
    <2>1. ASSUME NEW q \in Runs,
                 RunStep(q) \/ HandlerFails(q) \/ InboxChanges(q) \/ OpenPage(q)
                   \/ \E b \in Bodies : OpenPane(q, b)
          PROVE  UNCHANGED settingsVars
      BY <2>1
      DEF RunStep, HandlerFails, InboxChanges, OpenPage, OpenPane, TakeRows, NextRow,
          RowsDone, ExtractBlocks, NextBlock, BlocksDone, HandleDetection, Classified,
          ReadAction, Decide, DecideRow, DecideBlock
    <2>2. ASSUME NEW p \in Pages, NEW patch \in Patches(p), StartSave(p, patch)
          PROVE  SettingsNext
      BY <2>2 DEF StartSave, SettingsNext
    <2>3. ASSUME NEW p \in Pages, EndSave(p) PROVE SettingsNext
      BY <2>3 DEF EndSave, SettingsNext
    <2>4. CASE WorkerLives \/ LoadFails \/ WorkerEnds \/ UNCHANGED vars
      BY <2>4 DEF WorkerLives, LoadFails, WorkerEnds, vars
    <2> QED BY <2>1, <2>2, <2>3, <2>4 DEF Next
  <1> QED BY <1>1, <1>2, PTL DEF Spec, SettingsSpec

=============================================================================
