------------------------------- MODULE Extension -------------------------------
(***************************************************************************)
(* The browser extension: its settings, its worker, and the scripts in the *)
(* pages (extension/src/content/gmail.ts, general.ts, ui.ts).  Every       *)
(* mutation of Gmail starts another run of a scanner, the load of any      *)
(* other page starts one; runs interleave wherever they await the worker.  *)
(* A verdict stands for isAI and a confidence of at least the threshold.   *)
(***************************************************************************)
EXTENDS ShieldSettings, LocalModel, FiniteSets

CONSTANTS
  Bodies,      \* message bodies in the reading pane
  Rows,        \* rows of the inbox
  Blocks,      \* text blocks of another page
  Runs,        \* runs of the scanners at one time
  None,
  MaxRuns      \* bound on runs started

Texts == Bodies \cup Rows \cup Blocks

ASSUME ContentAssumption ==
  /\ Bodies \cap Rows = {} /\ Bodies \cap Blocks = {} /\ Rows \cap Blocks = {}
  /\ None \notin Texts /\ MaxRuns \in Nat

VARIABLES
  runs,       \* run -> where it is, the text it examines, what it knows
  marked,     \* rows with data-chi-scanned
  processed,  \* texts with data-chi-processed, rows with data-chi-dot
  opened,     \* the other page has been loaded
  adorned,    \* ghost: text -> decorations put on it
  runCount

contentVars == <<runs, marked, processed, opened, adorned, runCount>>
vars == <<settingsVars, workerVars, contentVars>>

(* `off' is a ghost: the shield has been off ever since the run asked.     *)
NoRun ==
  [pc |-> "idle", text |-> None, todo |-> {}, verdict |-> FALSE, action |-> "none",
   off |-> FALSE]

Init ==
  /\ SettingsInit /\ WorkerInit
  /\ runs = [r \in Runs |-> NoRun]
  /\ marked = {} /\ processed = {} /\ opened = FALSE
  /\ adorned = [t \in Texts |-> 0]
  /\ runCount = 0

Set(r, run) == runs' = [runs EXCEPT ![r] = run]

At(r, pc) == [runs[r] EXCEPT !.pc = pc]

Without(r, text) == [runs[r] EXCEPT !.todo = @ \ {text}]

Asking(r, text) ==
  [Without(r, text) EXCEPT !.pc = "asked", !.text = text, !.off = ~stored.enabled]

BackTo(r, pc) ==
  [runs[r] EXCEPT !.pc = pc, !.text = None, !.verdict = FALSE, !.off = FALSE]

(* A run is over when its record is idle again; which record it has makes  *)
(* no difference.                                                          *)
Starts(r) ==
  /\ runs[r].pc = "idle" /\ r = CHOOSE q \in Runs : runs[q].pc = "idle"
  /\ runCount < MaxRuns /\ runCount' = runCount + 1

-----------------------------------------------------------------------------
(* The scanners up to the question they ask the worker.                    *)

OpenPane(r, b) ==
  /\ Starts(r) /\ b \notin processed
  /\ Set(r, Asking(r, b))
  /\ UNCHANGED <<settingsVars, workerVars, marked, processed, opened, adorned>>

(* processInboxRows asks for the settings, and then takes the rows nobody  *)
(* has marked by now.                                                      *)
InboxChanges(r) ==
  /\ Starts(r)
  /\ Set(r, At(r, "fetching"))
  /\ UNCHANGED <<settingsVars, workerVars, marked, processed, opened, adorned>>

TakeRows(r) ==
  /\ alive /\ runs[r].pc = "fetching"
  /\ Set(r, [At(r, "looping") EXCEPT !.todo = Rows \ marked])
  /\ UNCHANGED <<settingsVars, workerVars, marked, processed, opened, adorned, runCount>>

(* The row is marked first; there may be no snippet yet, or too short a one*)
(* (the first disjunct).                                                   *)
NextRow(r, row) ==
  /\ runs[r].pc = "looping" /\ row \in runs[r].todo
  /\ marked' = marked \cup {row}
  /\ Set(r, Without(r, row)) \/ Set(r, Asking(r, row))
  /\ UNCHANGED <<settingsVars, workerVars, processed, opened, adorned, runCount>>

RowsDone(r) ==
  /\ runs[r].pc = "looping" /\ runs[r].todo = {}
  /\ Set(r, NoRun)
  /\ UNCHANGED <<settingsVars, workerVars, marked, processed, opened, adorned, runCount>>

(* general.ts: once, at the load of the page, unless the shield is off.  A *)
(* block may be too short; one that is decorated already is passed over.   *)
OpenPage(r) ==
  /\ ~opened /\ opened' = TRUE
  /\ Starts(r) /\ Set(r, At(r, "opening"))
  /\ UNCHANGED <<settingsVars, workerVars, marked, processed, adorned>>

ExtractBlocks(r) ==
  /\ alive /\ runs[r].pc = "opening"
  /\ IF stored.enabled
     THEN Set(r, [At(r, "scanning") EXCEPT !.todo = Blocks, !.action = stored.action])
     ELSE Set(r, NoRun)
  /\ UNCHANGED <<settingsVars, workerVars, marked, processed, opened, adorned, runCount>>

NextBlock(r, b) ==
  /\ runs[r].pc = "scanning" /\ b \in runs[r].todo
  /\ Set(r, Without(r, b)) \/ (b \notin processed /\ Set(r, Asking(r, b)))
  /\ UNCHANGED <<settingsVars, workerVars, marked, processed, opened, adorned, runCount>>

BlocksDone(r) ==
  /\ runs[r].pc = "scanning" /\ runs[r].todo = {}
  /\ Set(r, NoRun)
  /\ UNCHANGED <<settingsVars, workerVars, marked, processed, opened, adorned, runCount>>

-----------------------------------------------------------------------------
(* The worker: handleDetection.                                            *)

Answered(r, verdict) == Set(r, [At(r, "answered") EXCEPT !.verdict = verdict])

Disabled(r) ==
  ~stored.enabled /\ Answered(r, FALSE) /\ UNCHANGED workerVars

(* The heuristics answer without waiting.                                  *)
Heuristics(r) ==
  /\ stored.provider = "stub"
  /\ \E verdict \in BOOLEAN : Answered(r, verdict)
  /\ UNCHANGED workerVars

AskModel(r) ==
  /\ stored.provider = "local-model"
  /\ Set(r, At(r, IF loader = "stuck" THEN "fallback" ELSE "classifying"))
  /\ GetClassifier

(* Mutated form: the switch is not looked at.                              *)
HandleDetectionAnyway(r) ==
  /\ alive /\ runs[r].pc = "asked"
  /\ Heuristics(r) \/ AskModel(r)
  /\ UNCHANGED <<settingsVars, marked, processed, opened, adorned, runCount>>

HandleDetection(r) ==
  /\ alive /\ runs[r].pc = "asked"
  /\ Disabled(r) \/ (stored.enabled /\ (Heuristics(r) \/ AskModel(r)))
  /\ UNCHANGED <<settingsVars, marked, processed, opened, adorned, runCount>>

Classified(r) ==
  /\ runs[r].pc = "fallback" \/ (runs[r].pc = "classifying" /\ loader = "loaded")
  /\ \E verdict \in BOOLEAN : Answered(r, verdict)
  /\ UNCHANGED <<settingsVars, workerVars, marked, processed, opened, adorned, runCount>>

(* The settings cannot be read, for a detection or for a page that asks for*)
(* them: no answer is sent.  Chrome closes the channel, and the run that   *)
(* waits for the answer ends with that error.                              *)
HandlerFails(r) ==
  /\ alive
  /\ \/ runs[r].pc \in {"asked", "fetching", "opening"}
     \/ runs[r].pc = "answered" /\ runs[r].text \in Bodies
  /\ UnhandledRejection /\ Set(r, NoRun)
  /\ UNCHANGED <<settingsVars, marked, processed, opened, adorned, runCount>>

-----------------------------------------------------------------------------
(* The scanners after the answer.                                          *)

(* processEmailPane asks for the settings only now.                        *)
ReadAction(r) ==
  /\ alive /\ runs[r].pc = "answered" /\ runs[r].text \in Bodies
  /\ Set(r, [At(r, "deciding") EXCEPT !.action = stored.action])
  /\ UNCHANGED <<settingsVars, workerVars, marked, processed, opened, adorned, runCount>>

Adorn(text) ==
  /\ processed' = processed \cup {text}
  /\ adorned' = [adorned EXCEPT ![text] = @ + 1]

(* Mutated form: whether it has been done already is known from before.    *)
DecorateUnchecked(text) == Adorn(text)

Decorate(text) ==
  IF text \in processed THEN UNCHANGED <<processed, adorned>> ELSE Adorn(text)

Decide(r) ==
  /\ runs[r].pc = "deciding"
  /\ IF runs[r].verdict /\ runs[r].action # "none"
     THEN Decorate(runs[r].text) ELSE UNCHANGED <<processed, adorned>>
  /\ Set(r, NoRun)
  /\ UNCHANGED <<settingsVars, workerVars, marked, opened, runCount>>

DecideRow(r) ==
  /\ runs[r].pc = "answered" /\ runs[r].text \in Rows
  /\ IF runs[r].verdict THEN Decorate(runs[r].text) ELSE UNCHANGED <<processed, adorned>>
  /\ Set(r, BackTo(r, "looping"))
  /\ UNCHANGED <<settingsVars, workerVars, marked, opened, runCount>>

DecideBlock(r) ==
  /\ runs[r].pc = "answered" /\ runs[r].text \in Blocks
  /\ IF runs[r].verdict /\ runs[r].action # "none"
     THEN Decorate(runs[r].text) ELSE UNCHANGED <<processed, adorned>>
  /\ Set(r, BackTo(r, "scanning"))
  /\ UNCHANGED <<settingsVars, workerVars, marked, opened, runCount>>

-----------------------------------------------------------------------------
(* The worker's life.  Runs it owes an answer end with its death, or fall  *)
(* back when the load they wait for fails.                                 *)

WorkerLives ==
  /\ WorkerStarts \/ LoadIsTold \/ LoadProgresses \/ ModelArrives \/ ModelFails
     \/ LoadIsAnnounced
  /\ UNCHANGED <<settingsVars, contentVars>>

(* Mutated form: those who wait for the load are not told.                 *)
LoadFailsSilently == LoadEnds /\ UNCHANGED <<settingsVars, contentVars>>

LoadFails ==
  /\ LoadEnds
  /\ runs' = [r \in Runs |-> IF runs[r].pc = "classifying"
                             THEN [runs[r] EXCEPT !.pc = "fallback"] ELSE runs[r]]
  /\ UNCHANGED <<settingsVars, marked, processed, opened, adorned, runCount>>

WorkerEnds ==
  /\ WorkerDies
  /\ runs' = [r \in Runs |->
                IF runs[r].pc \in {"classifying", "fallback"} THEN NoRun ELSE runs[r]]
  /\ UNCHANGED <<settingsVars, marked, processed, opened, adorned, runCount>>

StartSave(p, patch) == ReadToSave(p, patch) /\ UNCHANGED <<workerVars, contentVars>>

EndSave(p) ==
  /\ WriteSave(p)
  /\ runs' = [r \in Runs |-> [runs[r] EXCEPT !.off = @ /\ ~stored'.enabled]]
  /\ UNCHANGED <<workerVars, marked, processed, opened, adorned, runCount>>

RunStep(r) ==
  \/ TakeRows(r) \/ (\E row \in Rows : NextRow(r, row)) \/ RowsDone(r)
  \/ ExtractBlocks(r) \/ (\E b \in Blocks : NextBlock(r, b)) \/ BlocksDone(r)
  \/ HandleDetection(r) \/ Classified(r)
  \/ ReadAction(r) \/ Decide(r) \/ DecideRow(r) \/ DecideBlock(r)

Next ==
  \/ \E r \in Runs : RunStep(r) \/ HandlerFails(r) \/ InboxChanges(r) \/ OpenPage(r)
  \/ \E r \in Runs, b \in Bodies : OpenPane(r, b)
  \/ \E p \in Pages : \E patch \in Patches(p) : StartSave(p, patch)
  \/ \E p \in Pages : EndSave(p)
  \/ WorkerLives \/ LoadFails \/ WorkerEnds

(* Chrome starts the worker for a message, its tasks run, and the download *)
(* ends: with the model, or with an error when the network has gone.       *)
Spec == Init /\ [][Next]_vars

LoadSettles ==
  /\ LoadIsTold \/ ModelArrives \/ ModelFails \/ LoadIsAnnounced \/ WorkerStarts
  /\ UNCHANGED <<settingsVars, contentVars>>

FairSpec ==
  /\ Spec /\ WF_vars(LoadSettles) /\ WF_vars(LoadFails)
  /\ \A r \in Runs : WF_vars(RunStep(r))

-----------------------------------------------------------------------------
(* ui.ts:3, "idempotent".  A text is decorated once, whichever runs        *)
(* examined it at the same time and whatever the action was set to.        *)
DecoratedOnce == \A t \in Texts : adorned[t] <= 1

(* service-worker.ts:51.  What a scanner asked about after the shield was  *)
(* switched off is not decorated as long as it stays off, although pages   *)
(* keep watching and the worker read the settings at another time.         *)
OffMeansOff ==
  [][\A r \in Runs :
       runs[r].off /\ runs[r].pc \in {"deciding", "answered"} /\ runs'[r].pc # runs[r].pc
         => adorned' = adorned]_vars

(* Every run comes to its end: no detection is left waiting by a load that *)
(* failed, by a failed write that kept the rejected promise, or by a worker*)
(* that died (local-model.ts:79-85, service-worker.ts:78).                 *)
RunsEnd == \A r \in Runs : []<>(runs[r].pc = "idle")
=============================================================================
