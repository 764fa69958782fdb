------------------------------ MODULE LocalModel ------------------------------
(***************************************************************************)
(* The extension's service worker as the home of the local model           *)
(* (extension/src/background/service-worker.ts, detection/adapters/        *)
(* local-model.ts).  Chrome ends the worker and starts it again; what the  *)
(* worker loaded is gone then, what it wrote to storage is not.  Starting  *)
(* it begins a load.  Storage calls may fail.                              *)
(***************************************************************************)
EXTENDS Integers

CONSTANTS
  MaxMishaps    \* bound on ends of the worker and failures of storage together

ASSUME WorkerAssumption == MaxMishaps \in Nat

VARIABLES
  alive,        \* the worker runs
  loader,       \* classifierPromise: what it is, or where it waits
  modelStatus,  \* storage.local modelStatus
  deaths, faults

workerVars == <<alive, loader, modelStatus, deaths, faults>>

(* "none": null; "telling" to "failing": pending; "loaded": resolved;      *)
(* "stuck": rejected and kept.                                             *)
Loaders == {"none", "telling", "fetching", "announcing", "failing", "loaded", "stuck"}
(* "loading" stands for "downloading" as well.                             *)
ModelStatuses == {"idle", "loading", "ready", "error"}

WorkerInit ==
  /\ alive = FALSE /\ loader = "none" /\ modelStatus = "idle"
  /\ deaths = 0 /\ faults = 0

Mishap == deaths + faults < MaxMishaps
Fault == Mishap /\ faults' = faults + 1

(* Module evaluation, with the warm-up detection at its end.               *)
WorkerStarts ==
  /\ ~alive /\ alive' = TRUE /\ loader' = "telling"
  /\ UNCHANGED <<modelStatus, deaths, faults>>

(* setModelStatus({state: 'loading'}), the first await of a load.          *)
LoadIsTold ==
  /\ loader = "telling"
  /\ \/ loader' = "fetching" /\ modelStatus' = "loading" /\ UNCHANGED faults
     \/ loader' = "failing" /\ Fault /\ UNCHANGED modelStatus
  /\ UNCHANGED <<alive, deaths>>

(* The progress callback.  Nobody awaits it: when it fails, the handler of *)
(* unhandled rejections writes an error, if storage works again by then.   *)
LoadProgresses ==
  /\ loader = "fetching"
  /\ \/ modelStatus' = "loading" /\ UNCHANGED faults
     \/ modelStatus' = "error" /\ Fault
  /\ UNCHANGED <<alive, loader, deaths>>

(* Mutated form: it is announced before it has come.                       *)
ModelArrivesAnnounced ==
  /\ loader = "fetching" /\ loader' = "announcing" /\ modelStatus' = "ready"
  /\ UNCHANGED <<alive, deaths, faults>>

ModelArrives ==
  /\ loader = "fetching" /\ loader' = "announcing"
  /\ UNCHANGED <<alive, modelStatus, deaths, faults>>

ModelFails ==
  /\ loader = "fetching" /\ loader' = "failing"
  /\ UNCHANGED <<alive, modelStatus, deaths, faults>>

(* setModelStatus({state: 'ready'}).                                       *)
LoadIsAnnounced ==
  /\ loader = "announcing"
  /\ \/ loader' = "loaded" /\ modelStatus' = "ready" /\ UNCHANGED faults
     \/ loader' = "failing" /\ Fault /\ UNCHANGED modelStatus
  /\ UNCHANGED <<alive, deaths>>

(* The catch.  Its own writes may fail, the first or the second of them:   *)
(* the promise is then kept, rejected.                                     *)
LoadEnds ==
  /\ loader = "failing"
  /\ \/ loader' = "none" /\ modelStatus' = "error" /\ UNCHANGED faults
     \/ loader' = "stuck" /\ modelStatus' \in {modelStatus, "error"} /\ Fault
  /\ UNCHANGED <<alive, deaths>>

(* getClassifier: a new load unless there is a promise.                    *)
GetClassifier ==
  /\ loader' = IF loader = "none" THEN "telling" ELSE loader
  /\ UNCHANGED <<alive, modelStatus, deaths, faults>>

(* A promise nobody handled: the settings could not be read.               *)
UnhandledRejection ==
  /\ Fault /\ modelStatus' = "error"
  /\ UNCHANGED <<alive, loader, deaths>>

WorkerDies ==
  /\ alive /\ Mishap
  /\ deaths' = deaths + 1 /\ alive' = FALSE /\ loader' = "none"
  /\ UNCHANGED <<modelStatus, faults>>

(* popup.ts: the status says ready only when the model that answers is     *)
(* loaded, although the status outlives the worker and the model does not. *)
(* A popup's question is answered after the write the start began with.    *)
ReadyMeansLoaded ==
  alive /\ modelStatus = "ready" => loader \in {"loaded", "telling"} \/ faults > 0

=============================================================================
