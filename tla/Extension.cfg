\* Any two runs, two saves, a worker that dies or a storage fault.
CONSTANTS
  Popups = {popup}
  OptionsPages = {options}
  Actions = {"label"}
  Providers = {"local-model", "stub"}
  Defaults <- MCDefaults
  MaxSaves = 2
  MaxMishaps = 1
  Bodies = {b1}
  Rows = {w1}
  Blocks = {g1}
  Runs = {r1, r2}
  None = None
  MaxRuns = 2
SPECIFICATION FairSpec
INVARIANTS
  ReadyMeansLoaded
  DecoratedOnce
PROPERTIES
  SavesKeepTheRest
  OffMeansOff
  RunsEnd
CHECK_DEADLOCK FALSE
