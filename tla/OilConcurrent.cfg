\* Two commands at once over the same state file and payload.
\* The operator may stop issuing commands: no step is then left.
CHECK_DEADLOCK FALSE
SPECIFICATION Spec
CONSTANTS
  Procs = {p1, p2}
  Pkgs = {"app", "lib"}
  MaxVersion = 1
  Deps <- McDeps
  Pinned = {}
  Commands = {"install", "install-recipe", "uninstall", "upgrade", "system-add"}
  Serial = FALSE
  MaxRuns = 2
INVARIANTS RecordedWasExtracted DepsInPayload
PROPERTIES CorruptionIsFinal
